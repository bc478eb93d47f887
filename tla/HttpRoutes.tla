----------------------------- MODULE HttpRoutes -----------------------------
(***************************************************************************)
(* The routes of the backend with the middleware of their group.  The      *)
(* webhook of Stripe (module WebhookInbox) and the static files are left   *)
(* out.  A path stands for all the values of its parameters.               *)
(***************************************************************************)
EXTENDS HttpRoute

P == INSTANCE PremiumHandlers
I == INSTANCE IdentityHandlers
B == INSTANCE BugHandlers
D == INSTANCE ProductHandlers
F == INSTANCE SupportHandlers
N == INSTANCE InsightHandlers

Open == <<>>
Limited == <<"strict">>
Device == <<"device">>
Admin == <<"admin", "audit">>

PublicRoutes == {
    Get(Open, "/", Show(<<>>)),
    Get(Open, "/version", Show(<<>>)),
    Get(Open, "/health/live", Show(<<>>)),
    \* A database that does not answer makes it not ready; health says so with
    \* 200.
    Get(Open, "/health/ready",
        Handle(<<>>, <<FindElse("not_ready")>>, "not_ready" :> 503)),
    Get(Open, "/health", Show(BestEffortReport)),
    Get(Open, "/metrics", Show(<<>>)),
    Post(Open, "/internal/ci/releases", D!RegisterRelease),
    Post(Limited, "/api/v1/devices/register", I!Register),
    Post(Limited, "/api/v1/bootstrap/events", N!TrackBootstrapEvent),
    Get(Open, "/api/v1/premium/plans", P!GetPricingPlans),
    Get(Open, "/api/v1/updates/check", D!CheckUpdate),
    Post(Limited, "/api/v1/premium/stripe/web-checkout", P!WebStripeCheckout),
    Get(Limited, "/api/v1/premium/stripe/web-verify", P!WebStripeVerify),
    Post(Limited, "/api/v1/premium/web-restore", P!issueMagicLink),
    Post(Limited, "/api/v1/premium/web-portal", P!issueMagicLink),
    Post(Limited, "/api/v1/premium/web-restore-email", P!issueMagicLink),
    Post(Limited, "/api/v1/premium/web-portal-email", P!issueMagicLink),
    Post(Limited, "/api/v1/premium/redeem", P!RedeemMagicLink),
    Post(Open, "/admin/v1/auth/login", I!Login)}

DeviceRoutes == {
    Post(Device, "/api/v1/devices/heartbeat", I!Heartbeat),
    Post(Device, "/api/v1/crashes", B!SubmitCrash),
    Post(Device, "/api/v1/bugs", B!SubmitBug),
    Get(Device, "/api/v1/bugs", B!GetMyBugs),
    Get(Device, "/api/v1/bugs/:id", B!GetBugStatus),
    Get(Device, "/api/v1/config/flags", D!GetFlags),
    Get(Device, "/api/v1/config/remote", D!GetConfig),
    Get(Device, "/api/v1/announcements", D!GetAnnouncements),
    Post(Device, "/api/v1/tickets", F!CreateTicket),
    Get(Device, "/api/v1/tickets", F!ListMyTickets),
    Get(Device, "/api/v1/tickets/:id", F!GetMyTicket),
    Post(Device, "/api/v1/tickets/:id/messages", F!ReplyToTicket),
    Get(Device, "/api/v1/tickets/:id/stream", F!StreamTicket),
    Post(Device, "/api/v1/features", F!CreateFeatureRequest),
    Get(Device, "/api/v1/features", F!ListFeatureRequests),
    Post(Device, "/api/v1/features/:id/vote", F!VoteFeatureRequest),
    Post(Device, "/api/v1/ratings", F!SubmitRating),
    Post(Device, "/api/v1/analytics/events", N!TrackEvent),
    Post(Device, "/api/v1/analytics/download-errors", N!TrackDownloadError),
    Post(Device, "/api/v1/premium/stripe/checkout", P!StripeCheckout),
    Get(Device, "/api/v1/premium/stripe/verify", P!StripeVerify),
    Post(Device, "/api/v1/premium/stripe/cancel", P!StripeCancel),
    Post(Device, "/api/v1/premium/stripe/portal", P!StripePortal),
    Post(Device, "/api/v1/premium/crypto/invoice", P!CryptoInvoice),
    Get(Device, "/api/v1/premium/crypto/status", P!CryptoStatus),
    Get(Device, "/api/v1/premium/licenses/verify", P!LicenseVerify),
    Post(Device, "/api/v1/premium/licenses/verify", P!LicenseVerify),
    Get(Device, "/api/v1/premium/transactions", P!MyTransactions),
    Get(Device, "/api/v1/premium/license", P!LicenseInfo),
    Get(Device, "/api/v1/premium/devices", P!ListDevices),
    Delete(Device, "/api/v1/premium/devices/:id", P!RemoveDevice),
    Post(Device \o Limited, "/api/v1/premium/restore", P!RestoreLicense),
    Post(Device, "/api/v1/assistant/sessions", F!CreateSession),
    Get(Device, "/api/v1/assistant/sessions", F!ListSessions),
    Get(Device, "/api/v1/assistant/sessions/:id", F!GetSession),
    Post(Device, "/api/v1/assistant/sessions/:id/messages", F!SendMessage),
    Post(Device, "/api/v1/assistant/sessions/:id/escalate", F!Escalate)}

-----------------------------------------------------------------------------

ReportRoutes == {
    Get(Admin, "/admin/v1/devices", I!List),
    Get(Admin, "/admin/v1/devices/:id", I!GetById),
    Patch(Admin, "/admin/v1/devices/:id", I!Update),
    Get(Admin, "/admin/v1/devices/:id/timeline", I!GetDeviceTimeline),
    Get(Admin, "/admin/v1/bugs", B!ListBugs),
    Get(Admin, "/admin/v1/bugs/stats", B!BugStats),
    Get(Admin, "/admin/v1/bugs/:id", B!GetBug),
    Patch(Admin, "/admin/v1/bugs/:id", B!UpdateBug),
    Get(Admin, "/admin/v1/bugs/:id/log", B!GetBugLog),
    Get(Admin, "/admin/v1/crashes", B!ListCrashes),
    Get(Admin, "/admin/v1/crashes/:id", B!GetCrash),
    Patch(Admin, "/admin/v1/crashes/:id", B!UpdateCrash),
    Get(Admin, "/admin/v1/crashes/:id/log", B!GetCrashLog),
    Get(Admin, "/admin/v1/crash-groups/stats", B!CrashGroupStats),
    Get(Admin, "/admin/v1/crash-groups/merge-candidates", B!ListCrashGroupMergeCandidates),
    Post(Admin, "/admin/v1/crash-groups/backfill-merge", B!BackfillCrashGroupMerges),
    Post(Admin, "/admin/v1/crash-groups/merge", B!MergeCrashGroups),
    Get(Admin, "/admin/v1/crash-groups", B!ListCrashGroups),
    Get(Admin, "/admin/v1/crash-groups/:id", B!GetCrashGroup),
    Patch(Admin, "/admin/v1/crash-groups/:id", B!UpdateCrashGroup),
    Get(Admin, "/admin/v1/crash-groups/:id/crashes", B!ListGroupCrashes)}

ProductRoutes == {
    Get(Admin, "/admin/v1/flags", D!ListFlags),
    Post(Admin, "/admin/v1/flags", D!CreateFlag),
    Get(Admin, "/admin/v1/flags/:id", D!GetFlag),
    Patch(Admin, "/admin/v1/flags/:id", D!UpdateFlag),
    Delete(Admin, "/admin/v1/flags/:id", D!DeleteFlag),
    Get(Admin, "/admin/v1/config", D!ListConfigs),
    Post(Admin, "/admin/v1/config", D!CreateConfig),
    Get(Admin, "/admin/v1/config/:id", D!AdminGetConfig),
    Patch(Admin, "/admin/v1/config/:id", D!UpdateConfig),
    Delete(Admin, "/admin/v1/config/:id", D!DeleteConfig),
    Get(Admin, "/admin/v1/releases", D!ListReleases),
    Post(Admin, "/admin/v1/releases", D!CreateRelease),
    Get(Admin, "/admin/v1/releases/:id", D!GetRelease),
    Patch(Admin, "/admin/v1/releases/:id", D!UpdateRelease),
    Get(Admin, "/admin/v1/announcements", D!ListAnnouncements),
    Post(Admin, "/admin/v1/announcements", D!CreateAnnouncement),
    Get(Admin, "/admin/v1/announcements/:id", D!GetAnnouncement),
    Patch(Admin, "/admin/v1/announcements/:id", D!UpdateAnnouncement),
    Delete(Admin, "/admin/v1/announcements/:id", D!DeleteAnnouncement),
    Get(Admin, "/admin/v1/product/stats", D!ProductStats)}

SupportRoutes == {
    Get(Admin, "/admin/v1/tickets", F!ListTickets),
    Get(Admin, "/admin/v1/tickets/:id", F!GetTicket),
    Patch(Admin, "/admin/v1/tickets/:id", F!UpdateTicket),
    Post(Admin, "/admin/v1/tickets/:id/messages", F!AdminReply),
    Get(Admin, "/admin/v1/tickets/:id/stream", F!AdminStreamTicket),
    Get(Admin, "/admin/v1/notifications/stream", F!StreamNotifications),
    Get(Admin, "/admin/v1/features", F!AdminListFeatureRequests),
    Get(Admin, "/admin/v1/features/:id", F!GetFeatureRequest),
    Patch(Admin, "/admin/v1/features/:id", F!UpdateFeatureRequest),
    Get(Admin, "/admin/v1/ratings", F!ListRatings),
    Get(Admin, "/admin/v1/ratings/stats", F!RatingStats),
    Get(Admin, "/admin/v1/assistant/sessions", F!AdminListSessions),
    Get(Admin, "/admin/v1/assistant/sessions/:id", F!AdminGetSession),
    Get(Admin, "/admin/v1/assistant/knowledge", F!ListKnowledge),
    Post(Admin, "/admin/v1/assistant/knowledge", F!CreateKnowledge),
    Get(Admin, "/admin/v1/assistant/knowledge/:id", F!GetKnowledge),
    Patch(Admin, "/admin/v1/assistant/knowledge/:id", F!UpdateKnowledge),
    Delete(Admin, "/admin/v1/assistant/knowledge/:id", F!DeleteKnowledge),
    Get(Admin, "/admin/v1/assistant/stats", F!AssistantStats),
    Get(Admin, "/admin/v1/feedback/stats", F!FeedbackStats)}

AnalyticsRoutes == {
    Get(Admin, "/admin/v1/analytics/events", N!ListEvents),
    Get(Admin, "/admin/v1/analytics/bootstrap-events", N!ListBootstrapEvents),
    Get(Admin, "/admin/v1/analytics/stats", N!Overview),
    Get(Admin, "/admin/v1/analytics/top-events", N!TopEvents),
    Get(Admin, "/admin/v1/analytics/daily", N!DailyStats),
    Get(Admin, "/admin/v1/analytics/downloads", N!DownloadStats),
    Get(Admin, "/admin/v1/analytics/download-errors/stats", N!DownloadErrorStats),
    Get(Admin, "/admin/v1/analytics/download-errors", N!ListDownloadErrors)}

PremiumRoutes == {
    Post(Admin, "/admin/v1/licenses", P!CreateLicense),
    Post(Admin, "/admin/v1/licenses/import-legacy", P!ImportLegacyLicense),
    Get(Admin, "/admin/v1/licenses", P!ListLicenses),
    Get(Admin, "/admin/v1/licenses/:id", P!GetLicense),
    Patch(Admin, "/admin/v1/licenses/:id", P!UpdateLicense),
    Get(Admin, "/admin/v1/licenses/:id/devices", P!AdminListDevices),
    Delete(Admin, "/admin/v1/licenses/:id/devices/:id", P!AdminRemoveDevice),
    Get(Admin, "/admin/v1/transactions/stats", P!TransactionStats),
    Get(Admin, "/admin/v1/transactions", P!ListTransactionsEnhanced),
    Get(Admin, "/admin/v1/transactions/:id", P!GetTransaction),
    Post(Admin, "/admin/v1/transactions/:id/refund", P!RefundTransaction),
    Get(Admin, "/admin/v1/subscriptions/stats", P!SubscriptionStats),
    Get(Admin, "/admin/v1/subscriptions/mrr-trend", P!MRRTrend),
    Get(Admin, "/admin/v1/subscriptions", P!ListSubscriptions),
    Get(Admin, "/admin/v1/customers/stats", P!CustomerStats),
    Get(Admin, "/admin/v1/customers", P!ListCustomers),
    Get(Admin, "/admin/v1/customers/:email", P!GetCustomer),
    Get(Admin, "/admin/v1/invoices/stats", P!InvoiceStats),
    Get(Admin, "/admin/v1/invoices", P!ListInvoices),
    Post(Admin, "/admin/v1/invoices/audit", P!AuditInvoices),
    Get(Admin, "/admin/v1/invoices/:id", P!GetInvoice),
    Get(Admin, "/admin/v1/finance/revenue", P!RevenueReport),
    Get(Admin, "/admin/v1/search", P!GlobalSearch),
    Get(Admin, "/admin/v1/premium/stats", P!PremiumStats)}

OperationsRoutes == {
    Get(Admin, "/admin/v1/alerts", N!ListConfigs),
    Post(Admin, "/admin/v1/alerts", N!CreateConfig),
    Get(Admin, "/admin/v1/alerts/logs", N!ListLogs),
    Get(Admin, "/admin/v1/alerts/:id", N!GetConfig),
    Patch(Admin, "/admin/v1/alerts/:id", N!UpdateConfig),
    Delete(Admin, "/admin/v1/alerts/:id", N!DeleteConfig),
    Post(Admin, "/admin/v1/alerts/:id/test", N!TestAlert),
    Get(Admin, "/admin/v1/dashboard/comprehensive", I!ComprehensiveStats),
    Get(Admin, "/admin/v1/dashboard/brand-comparison", I!BrandComparison),
    Get(Admin, "/admin/v1/dashboard/trends", I!DashboardTrends),
    Get(Admin, "/admin/v1/dashboard/activity", I!DashboardActivity),
    Get(Admin, "/admin/v1/dashboard/top-customers", I!DashboardTopCustomers),
    Get(Admin, "/admin/v1/audit-logs", I!ListAuditLogs),
    Get(Admin, "/admin/v1/webhook-events", P!ListWebhookEvents),
    Get(Admin, "/admin/v1/system/health", I!SystemHealth),
    Get(Admin, "/admin/v1/admins", I!ListAdmins),
    Post(Admin, "/admin/v1/admins", I!CreateAdmin),
    Patch(Admin, "/admin/v1/admins/:id", I!UpdateAdmin),
    Delete(Admin, "/admin/v1/admins/:id", I!DeleteAdmin),
    Get(Admin, "/admin/v1/api-keys/device/:id", I!ListApiKeys),
    Delete(Admin, "/admin/v1/api-keys/:id", I!RevokeApiKey)}

AdminRoutes ==
    ReportRoutes \cup ProductRoutes \cup SupportRoutes \cup AnalyticsRoutes
        \cup PremiumRoutes \cup OperationsRoutes

Routes == PublicRoutes \cup DeviceRoutes \cup AdminRoutes
=============================================================================
