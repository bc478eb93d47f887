--------------------------- MODULE PremiumService ---------------------------
(***************************************************************************)
(* The operations of the premium services, as the calls they make: to the  *)
(* database, to Stripe, to BTCPay, to Redis and to the legacy PHP server.  *)
(***************************************************************************)
EXTENDS HttpRoute

FindLicense == Find({"license_not_found"})

\* The devices are counted for show; a device that cannot be looked up is
\* neither added nor touched.
VerifyLicense ==
    <<Find({"invalid_key"}),
      Maybe(Call({"invalid_key"}, "invalid_key", FALSE, FALSE)), \* verifyViaPhpCheckKey
      Check({"expired"}), Peek({}),
      Maybe(Save({"device_limit"})), Maybe(Attempt), Peek({})>>

GetLicenseInfo == <<FindLicense, Peek({})>>
\* The names of the devices are looked up on the side.
GetMyDevices == <<FindLicense, Query, Maybe(Peek({}))>>
GetMyTransactions == Report

RemoveDevice ==
    <<FindLicense, Check({"cannot_remove_self"}), FindLicense, Save({"device_not_found"})>>

\* Every failure is answered as a missing licence or a full one, but that to
\* find the device, which is then added.
RestoreLicense ==
    <<FindElse("license_not_found"), Peek({}),
      Maybe(SaveElse({"device_limit"}, "device_limit"))>>

\* The sessions of Stripe and the invoices of BTCPay are made before their row;
\* a key that cannot be looked up is a new key.
CreateCheckoutSession ==
    <<Check({"not_configured"}), Peek({"duplicate"}), Check({"invalid_cycle"}), Write, Write>>
CreateWebCheckoutSession ==
    <<Check({"not_configured", "invalid_cycle"}), Write, Write>>
CreateInvoice == <<Check({"not_configured"}), Peek({"duplicate"}), Write, Write>>

\* Without an answer of Stripe or BTCPay the row tells the status; the licence
\* is issued, and what fails then is left to the webhook; its key is shown if
\* it can be read.
ShowLicense == Maybe(Peek({}))
VerifyPayment ==
    <<Check({"not_configured"}), Find({"session_not_found"}), Peek({}), Maybe(Attempt),
      ShowLicense>>
WebVerifyPayment == <<Check({"not_configured"}), Find({"session_not_found"}), ShowLicense>>
CheckStatus ==
    <<Check({"not_configured"}), Find({"invoice_not_found"}), Peek({}), Maybe(Attempt),
      ShowLicense>>

\* Stripe is told first, then the licence is saved.
CancelSubscription ==
    <<Check({"not_configured"}), FindLicense, FindElse("license_not_found"),
      Check({"already_cancelled"}), Maybe(Write), Write>>

CreatePortalSession ==
    <<Check({"not_configured"}), FindLicense, Check({"no_stripe_customer"}), Query>>
CreatePortalSessionForLicense == CreatePortalSession

\* The token is spent before the licence is looked at, and the portal opened.
Redeem ==
    <<Check({"not_available", "invalid"}), Save({"redeemed"}), FindElse("invalid"),
      Maybe(Query)>>

-----------------------------------------------------------------------------

AdminCreateLicense == <<Write>>
AdminImportLegacyLicense ==
    <<Check({"invalid_status", "invalid_plan", "invalid_expires_at"}),
      Save({"brand_mismatch", "row_revoked", "payment_method_mismatch"})>>
GetLicense == <<FindLicense>>
ListLicenses == Report
UpdateLicense == <<FindLicense, Check({"lifetime_past"}), Write>>
AdminListDevices == <<FindLicense, Query>>
AdminRemoveDevice == <<FindLicense, Save({"device_not_found"})>>

\* The refund goes out before the row is saved; the licence is an attempt.
RefundTransaction ==
    <<Find({"transaction_not_found"}), Check({"not_refundable"}),
      Maybe(Find({"no_payment"})), Maybe(Write), Write, Maybe(Attempt)>>

GetTransaction == <<Find({"transaction_not_found"}), ShowLicense>>
ListTransactionsEnhanced == Report
GetTransactionStats == BestEffortReport
GetPremiumStats == BestEffortReport
\* The devices of each are counted on the side.
ListSubscriptions == <<Query, Maybe(Peek({}))>>
GetSubscriptionStats == BestEffortReport
ListCustomers == <<Query, Maybe(Peek({}))>>
GetCustomer == <<FindElse("license_not_found"), Peek({})>>
GetCustomerStats == Report
GetRevenueReport == BestEffortReport
GlobalSearch == BestEffortReport
ListInvoices == Report
GetInvoiceStats == Report
GetMRRTrend == Report
GetInvoice == <<Find({"invoice_not_found"})>>

\* AuditInvoicesViaAdmin: the foreign rows go in one transaction.
AuditInvoices == <<Check({"not_configured"}), Query, Maybe(Save({"count_mismatch"}))>>
=============================================================================
