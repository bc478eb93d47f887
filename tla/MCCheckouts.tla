---------------------------- MODULE MCCheckouts ----------------------------
(***************************************************************************)
(* The two ways to buy a one-time plan: the initial state chooses between  *)
(* a Stripe session and a BTCPay invoice, and only its checkout takes      *)
(* steps.  The variables of the invoice carry the prefix btc.               *)
(***************************************************************************)
EXTENDS StripeCheckout

CONSTANTS
    InvoiceLicenses, \* rows premium_licenses can get for the invoice
    InvoiceRefunds   \* bound: RefundTransaction calls for the invoice

VARIABLES
    method,
    invoice, btcStatus, btcLicense, btcTier, btcPollPc, btcPollStatus, btcPollLicense,
    btcAdminPc, btcAdminLicense, linkLost, refunds, btcFailures

Crypto == INSTANCE CryptoCheckout
    WITH Licenses <- InvoiceLicenses, MaxRefunds <- InvoiceRefunds,
         status <- btcStatus, license <- btcLicense, tier <- btcTier,
         pollPc <- btcPollPc, pollStatus <- btcPollStatus, pollLicense <- btcPollLicense,
         adminPc <- btcAdminPc, adminLicense <- btcAdminLicense, failures <- btcFailures

ASSUME CryptoAssumption == Crypto!CheckoutAssumption

btc == <<invoice, btcStatus, btcLicense, btcTier, btcPollPc, btcPollStatus, btcPollLicense,
         btcAdminPc, btcAdminLicense, linkLost, refunds, btcFailures>>
checkouts == <<method, vars, btc>>

ByCard(step) == method = "stripe" /\ step /\ UNCHANGED <<method, btc>>
ByCrypto(step) == method = "crypto" /\ step /\ UNCHANGED <<method, vars>>

CheckoutsInit == Init /\ Crypto!Init /\ method \in {"stripe", "crypto"}
CheckoutsNext == ByCard(Next) \/ ByCrypto(Crypto!Next)

CheckoutsSpec ==
    /\ CheckoutsInit /\ [][CheckoutsNext]_checkouts
    \* The fairness of the two modules.
    /\ WF_checkouts(ByCard(HandleCheckoutCompleted))
    /\ WF_checkouts(ByCard(HandleChargeRefunded))
    /\ \A p \in Polls : WF_checkouts(ByCrypto(Crypto!CheckStatus(p)))

\* No licence of an invoice before BTCPay has settled it, whatever copies of
\* the row are saved late.
IssuedIsPaid == Crypto!IssuedIsPaid

\* A settled invoice has a licence in the end if the client goes on polling,
\* also after the row was cancelled as abandoned.
SettledGetsLicense == Crypto!SettledGetsLicense
=============================================================================
