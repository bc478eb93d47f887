-------------------------- MODULE PremiumHandlers --------------------------
(***************************************************************************)
(* The handlers of the premium package and what they answer.  The refusal  *)
(* of a request without a device, in a handler behind RequireAPIKey, is    *)
(* never reached and left out, as is that of a service that is not wired.  *)
(***************************************************************************)
EXTENDS HttpRoute

S == INSTANCE PremiumService

NotFound == "license_not_found" :> 404
Duplicate == "duplicate" :> 409
NotConfigured == "not_configured" :> 503

GetPricingPlans == Show(<<>>)
WebStripeCheckout ==
    Handle(<<422>>, S!CreateWebCheckoutSession, NotConfigured @@ "invalid_cycle" :> 400)
WebStripeVerify == Handler(<<400>>, S!WebVerifyPayment, NotConfigured, 404, 200)
StripeCheckout ==
    Handle(<<422>>, S!CreateCheckoutSession,
           NotConfigured @@ Duplicate @@ "invalid_cycle" :> 400)
StripeVerify == Handler(<<400>>, S!VerifyPayment, NotConfigured, 404, 200)
StripeCancel ==
    Handle(<<422>>, S!CancelSubscription,
           NotConfigured @@ NotFound @@ "already_cancelled" :> 409)
StripePortal ==
    Handle(<<>>, S!CreatePortalSession,
           NotConfigured @@ NotFound @@ "no_stripe_customer" :> 404)
CryptoInvoice == Handle(<<422>>, S!CreateInvoice, NotConfigured @@ Duplicate)
CryptoStatus == Handler(<<400>>, S!CheckStatus, NotConfigured, 404, 200)

\* An expired licence is an answer like another.
LicenseVerify ==
    Handle(<<400>>, S!VerifyLicense,
           "invalid_key" :> 404 @@ "device_limit" :> 403 @@ "expired" :> 200)
MyTransactions == Show(S!GetMyTransactions)
LicenseInfo == Handle(<<>>, S!GetLicenseInfo, NotFound)
ListDevices == Handle(<<>>, S!GetMyDevices, NotFound)
RemoveDevice == Handle(<<400>>, S!RemoveDevice, NotFound @@ "device_not_found" :> 404)
RestoreLicense == Handle(<<422>>, S!RestoreLicense, NotFound @@ "device_limit" :> 403)

\* Answered "sent" whatever the background task finds.
issueMagicLink == Handle(<<422>>, <<Attempt>>, Unnamed)
RedeemMagicLink ==
    Handle(<<422>>, S!Redeem, "redeemed" :> 410 @@ "not_available" :> 503 @@ "invalid" :> 401)

-----------------------------------------------------------------------------

CreateLicense == Create(<<422>>, S!AdminCreateLicense, Unnamed)
ImportLegacyLicense ==
    Create(<<422>>, S!AdminImportLegacyLicense,
           [e \in {"invalid_plan", "invalid_expires_at", "invalid_status"} |-> 400] @@
           [e \in {"brand_mismatch", "row_revoked", "payment_method_mismatch"} |-> 409])
ListLicenses == Show(S!ListLicenses)
GetLicense == Handle(<<400>>, S!GetLicense, NotFound)
UpdateLicense == Handle(<<400, 422>>, S!UpdateLicense, NotFound)
AdminListDevices == Handle(<<400>>, S!AdminListDevices, NotFound)
AdminRemoveDevice ==
    Handle(<<400, 400>>, S!AdminRemoveDevice, NotFound @@ "device_not_found" :> 404)
ListTransactionsEnhanced == Show(S!ListTransactionsEnhanced)
GetTransaction == Handle(<<400>>, S!GetTransaction, "transaction_not_found" :> 404)
TransactionStats == Show(S!GetTransactionStats)
RefundTransaction ==
    Handle(<<400>>, S!RefundTransaction,
           "transaction_not_found" :> 404 @@ "not_refundable" :> 400)
PremiumStats == Show(S!GetPremiumStats)
ListSubscriptions == Show(S!ListSubscriptions)
SubscriptionStats == Show(S!GetSubscriptionStats)
ListCustomers == Show(S!ListCustomers)
GetCustomer == Handle(<<400>>, S!GetCustomer, NotFound)
CustomerStats == Show(S!GetCustomerStats)
RevenueReport == Show(S!GetRevenueReport)
AuditInvoices == Show(S!AuditInvoices)
ListInvoices == Show(S!ListInvoices)
InvoiceStats == Show(S!GetInvoiceStats)
GlobalSearch == Handle(<<400>>, S!GlobalSearch, Unnamed)
ListWebhookEvents == Show(<<Peek({}), Query>>)
MRRTrend == Show(S!GetMRRTrend)
GetInvoice == Handle(<<400>>, S!GetInvoice, "invoice_not_found" :> 404)
=============================================================================
