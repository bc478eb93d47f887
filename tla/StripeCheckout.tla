--------------------------- MODULE StripeCheckout ---------------------------
(***************************************************************************)
(* One Stripe Checkout session of a one-time plan, from the pending row of *)
(* payment_transactions to its licence and its refund.  The row is written *)
(* by the poll of the client (VerifyPayment), the handlers of the events   *)
(* checkout.session.completed and charge.refunded, the refund of an        *)
(* administrator and the hourly cleanup, each in a process of its own.     *)
(* repository.Update saves all columns of a row that was read earlier, so  *)
(* a Save here writes the licence that the copy had.                       *)
(***************************************************************************)
EXTENDS Naturals

CONSTANTS
    Licenses,   \* rows premium_licenses can get
    NoLicense,  \* NULL in license_id
    Polls,      \* concurrent VerifyPayment calls
    MaxFailures \* bound: crashes and database errors

ASSUME CheckoutAssumption ==
    /\ NoLicense \notin Licenses
    /\ MaxFailures \in Nat

VARIABLES
    session,       \* at Stripe: "open", "paid" or "expired"
    refunded,      \* at Stripe: the charge is refunded
    status,        \* status column of the row
    license,       \* license_id column; the payment intent is stored with it
    tier,          \* tier of each licence, "none" before it is created
    completedEvent, refundEvent,  \* "unsent", "queued" or "processed"
    refundPc, refundCopy,   \* handleChargeRefunded and the licence it read
    pollPc, pollCopy,       \* VerifyPayment and the licence it read
    adminPc, adminCopy,     \* RefundTransaction and the licence it read
    failures

stripe == <<session, refunded>>
row == <<status, license>>
events == <<completedEvent, refundEvent>>
refundRun == <<refundPc, refundCopy>>
poll == <<pollPc, pollCopy>>
admin == <<adminPc, adminCopy>>
vars == <<stripe, row, tier, events, refundRun, poll, admin, failures>>

Session == {"open", "paid", "expired"}
Status == {"pending", "completed", "cancelled", "refunded"}
Tier == {"none", "premium", "free"}
EventState == {"unsent", "queued", "processed"}
MaybeLicense == Licenses \union {NoLicense}

Issued == {l \in Licenses : tier[l] # "none"}

\* CreateCheckoutSession has stored the pending row before it hands out the URL.
Init ==
    /\ session = "open" /\ refunded = FALSE
    /\ status = "pending" /\ license = NoLicense
    /\ tier = [l \in Licenses |-> "none"]
    /\ completedEvent = "unsent" /\ refundEvent = "unsent"
    /\ refundPc = "Find" /\ refundCopy = NoLicense
    /\ pollPc = [p \in Polls |-> "Idle"]
    /\ pollCopy = [p \in Polls |-> NoLicense]
    /\ adminPc = "Idle" /\ adminCopy = NoLicense
    /\ failures = 0

CanFail == failures < MaxFailures /\ failures' = failures + 1

-----------------------------------------------------------------------------
(* Stripe.                                                                 *)

CustomerPays ==
    /\ session = "open" /\ session' = "paid"
    /\ completedEvent' = "queued"
    /\ UNCHANGED <<refunded, row, tier, refundEvent, refundRun, poll, admin, failures>>

SessionExpires ==
    /\ session = "open" /\ session' = "expired"
    /\ UNCHANGED <<refunded, row, tier, events, refundRun, poll, admin, failures>>

ChargeRefunded ==
    /\ session = "paid" /\ ~refunded /\ refunded' = TRUE
    /\ refundEvent' = "queued"

\* From the Stripe dashboard, at any time after the payment.
MerchantRefunds ==
    /\ ChargeRefunded
    /\ UNCHANGED <<session, row, tier, completedEvent, refundRun, poll, admin, failures>>

-----------------------------------------------------------------------------
(* FindOrCreateLicenseForSession: one transaction that locks the row.      *)

\* The licence is created, but the row is not linked to it.
FindOrCreateUnlinked ==
    IF license # NoLicense
    THEN UNCHANGED <<row, tier>>
    ELSE /\ \E l \in Licenses : tier[l] = "none" /\ tier' = [tier EXCEPT ![l] = "premium"]
         /\ status' = "completed" /\ UNCHANGED license

\* A row that was cancelled as abandoned gets no licence.
FindOrCreateIfPending ==
    \/ /\ status # "pending"
       /\ UNCHANGED <<row, tier>>
    \/ /\ status = "pending"
       /\ \E l \in Licenses : tier' = [tier EXCEPT ![l] = "premium"] /\ license' = l
       /\ status' = "completed"

FindOrCreate ==
    \/ /\ license # NoLicense
       /\ UNCHANGED <<row, tier>>
    \/ /\ license = NoLicense
       /\ \E l \in Licenses :
             /\ tier[l] = "none"
             /\ tier' = [tier EXCEPT ![l] = "premium"]
             /\ license' = l
       /\ status' = "completed"

-----------------------------------------------------------------------------
(* Webhook handlers.  The inbox runs the handler of an event again until   *)
(* it has succeeded, and never twice at the same time.                     *)

HandleCheckoutCompleted ==
    /\ completedEvent = "queued"
    /\ FindOrCreate
    /\ completedEvent' = "processed"
    /\ UNCHANGED <<stripe, refundEvent, refundRun, poll, admin, failures>>

\* The row is found by its payment intent, which is stored with the licence.
\* When it is not found, the event is dropped: a charge of another product.
FindByPaymentIntent ==
    /\ refundEvent = "queued" /\ refundPc = "Find"
    /\ \/ /\ license = NoLicense
          /\ refundEvent' = "processed"
          /\ UNCHANGED refundRun
       \/ /\ license # NoLicense
          /\ refundPc' = "Revoke" /\ refundCopy' = license
          /\ UNCHANGED refundEvent
    /\ UNCHANGED <<stripe, row, tier, completedEvent, poll, admin, failures>>

RevokeLicense ==
    /\ refundPc = "Revoke" /\ refundPc' = "Stamp"
    /\ tier' = [tier EXCEPT ![refundCopy] = "free"]
    /\ UNCHANGED <<stripe, row, events, refundCopy, poll, admin, failures>>

\* An error of this update is only logged.
StampRefunded ==
    /\ refundPc = "Stamp" /\ refundPc' = "Find"
    /\ refundEvent' = "processed"
    /\ \/ status' = "refunded" /\ license' = refundCopy /\ UNCHANGED failures
       \/ CanFail /\ UNCHANGED row
    /\ UNCHANGED <<stripe, tier, completedEvent, refundCopy, poll, admin>>

\* The event of a failed handler is not delivered again.
RefundHandlerFailsForGood ==
    /\ CanFail
    /\ refundPc # "Find" /\ refundPc' = "Find"
    /\ refundEvent' = "processed"
    /\ UNCHANGED <<stripe, row, tier, completedEvent, refundCopy, poll, admin>>

\* A crash or a database error: Stripe delivers the event again.  An error of
\* the completed handler leaves it queued and changes nothing.
RefundHandlerFails ==
    /\ CanFail
    /\ refundPc # "Find" /\ refundPc' = "Find"
    /\ UNCHANGED <<stripe, row, tier, events, refundCopy, poll, admin>>

-----------------------------------------------------------------------------
(* VerifyPayment, polled by the client while the browser is open.          *)

ReadRow(p) ==
    /\ pollPc[p] = "Idle"
    /\ pollPc' = [pollPc EXCEPT ![p] = "Query"]
    /\ pollCopy' = [pollCopy EXCEPT ![p] = license]
    /\ UNCHANGED <<stripe, row, tier, events, refundRun, admin, failures>>

\* The poll takes every session that is not open for a paid one.
QuerySessionLax(p) ==
    /\ pollPc[p] = "Query"
    /\ pollPc' = [pollPc EXCEPT ![p] = IF session = "open" THEN "Idle" ELSE "Create"]
    /\ UNCHANGED <<stripe, row, tier, events, refundRun, pollCopy, admin, failures>>

\* An open session, or an error of the Stripe API, ends the poll.
QuerySession(p) ==
    /\ pollPc[p] = "Query"
    /\ \/ session = "paid" /\ pollPc' = [pollPc EXCEPT ![p] = "Create"]
       \/ session = "expired" /\ pollPc' = [pollPc EXCEPT ![p] = "Cancel"]
       \/ pollPc' = [pollPc EXCEPT ![p] = "Idle"]
    /\ UNCHANGED <<stripe, row, tier, events, refundRun, pollCopy, admin, failures>>

\* An error of the transaction is logged, and the poll answers "pending".
CreateFromPoll(p) ==
    /\ pollPc[p] = "Create"
    /\ pollPc' = [pollPc EXCEPT ![p] = "Idle"]
    /\ \/ FindOrCreate /\ UNCHANGED failures
       \/ CanFail /\ UNCHANGED <<row, tier>>
    /\ UNCHANGED <<stripe, events, refundRun, pollCopy, admin>>

\* The status of the session is stored as it is.
CancelFromPollRaw(p) ==
    /\ pollPc[p] = "Cancel"
    /\ pollPc' = [pollPc EXCEPT ![p] = "Idle"]
    /\ status' = session /\ license' = pollCopy[p]
    /\ UNCHANGED <<stripe, tier, events, refundRun, pollCopy, admin, failures>>

CancelFromPoll(p) ==
    /\ pollPc[p] = "Cancel"
    /\ pollPc' = [pollPc EXCEPT ![p] = "Idle"]
    /\ \/ status' = "cancelled" /\ license' = pollCopy[p] /\ UNCHANGED failures
       \/ CanFail /\ UNCHANGED row
    /\ UNCHANGED <<stripe, tier, events, refundRun, pollCopy, admin>>

VerifyPayment(p) ==
    ReadRow(p) \/ QuerySession(p) \/ CreateFromPoll(p) \/ CancelFromPoll(p)

-----------------------------------------------------------------------------
(* Scheduler and administrator.                                            *)

\* The cleanup does not look at the status.
CleanupAnyStatus ==
    /\ session # "open"
    /\ status' = "cancelled"
    /\ UNCHANGED <<stripe, license, tier, events, refundRun, poll, admin, failures>>

\* 48 hours after its creation; the session has been closed for a day then.
CleanupAbandoned ==
    /\ status = "pending" /\ session # "open"
    /\ status' = "cancelled"
    /\ UNCHANGED <<stripe, license, tier, events, refundRun, poll, admin, failures>>

FindRefundable ==
    /\ adminPc = "Idle" /\ status = "completed"
    /\ adminPc' = "Refund" /\ adminCopy' = license
    /\ UNCHANGED <<stripe, row, tier, events, refundRun, poll, failures>>

\* Stripe refuses a charge that is refunded already; the process may die once
\* the refund is made.
RefundAtStripe ==
    /\ adminPc = "Refund"
    /\ \/ ChargeRefunded /\ adminPc' = "Save" /\ UNCHANGED failures
       \/ ChargeRefunded /\ CanFail /\ adminPc' = "Idle"
       \/ CanFail /\ adminPc' = "Idle" /\ UNCHANGED <<refunded, refundEvent>>
       \/ refunded /\ adminPc' = "Idle" /\ UNCHANGED <<refunded, refundEvent, failures>>
    /\ UNCHANGED <<session, row, tier, completedEvent, refundRun, poll, adminCopy>>

SaveRefunded ==
    /\ adminPc = "Save"
    /\ \/ /\ status' = "refunded" /\ license' = adminCopy
          /\ adminPc' \in {"Downgrade", "Idle"}
          /\ UNCHANGED failures
       \/ CanFail /\ adminPc' = "Idle" /\ UNCHANGED row
    /\ UNCHANGED <<stripe, tier, events, refundRun, poll, adminCopy>>

\* Only when the administrator asked for it; an error is only logged.
DowngradeLicense ==
    /\ adminPc = "Downgrade" /\ adminPc' = "Idle"
    /\ \/ tier' = [tier EXCEPT ![adminCopy] = "free"] /\ UNCHANGED failures
       \/ CanFail /\ UNCHANGED tier
    /\ UNCHANGED <<stripe, row, events, refundRun, poll, adminCopy>>

RefundTransaction == FindRefundable \/ RefundAtStripe \/ SaveRefunded \/ DowngradeLicense

-----------------------------------------------------------------------------

HandleChargeRefunded == FindByPaymentIntent \/ RevokeLicense \/ StampRefunded

Next ==
    \/ CustomerPays \/ SessionExpires \/ MerchantRefunds
    \/ HandleCheckoutCompleted \/ HandleChargeRefunded \/ RefundHandlerFails
    \/ \E p \in Polls : VerifyPayment(p)
    \/ CleanupAbandoned
    \/ RefundTransaction

Spec == Init /\ [][Next]_vars

\* Stripe delivers every event until its handler has succeeded.
FairSpec ==
    /\ Spec
    /\ WF_vars(HandleCheckoutCompleted)
    /\ WF_vars(HandleChargeRefunded)

-----------------------------------------------------------------------------

TypeOK ==
    /\ session \in Session /\ refunded \in BOOLEAN
    /\ status \in Status /\ license \in MaybeLicense
    /\ tier \in [Licenses -> Tier]
    /\ completedEvent \in EventState /\ refundEvent \in EventState
    /\ refundPc \in {"Find", "Revoke", "Stamp"} /\ refundCopy \in MaybeLicense
    /\ pollPc \in [Polls -> {"Idle", "Query", "Create", "Cancel"}]
    /\ pollCopy \in [Polls -> MaybeLicense]
    /\ adminPc \in {"Idle", "Refund", "Save", "Downgrade"} /\ adminCopy \in MaybeLicense
    /\ failures \in 0 .. MaxFailures

\* The row is linked to the only licence of the payment: no Save of an older
\* copy takes the link away or brings another one back.
RowLinksLicense ==
    Issued = IF license = NoLicense THEN {} ELSE {license}

\* The checkout keeps the promise of LicenseGrant: one licence for one payment,
\* though the poll and the webhook create it at the same time.
Grant == INSTANCE LicenseGrant WITH paid <- session = "paid", issued <- Issued

GrantKept == Grant!Spec

\* A refunded row stays refunded: no poll, cleanup or late Save reopens it.
RefundedIsFinal == [][status = "refunded" => status' = "refunded"]_vars

\* Whoever paid gets a licence in the end, also if the client never polls and
\* the row was cancelled as abandoned.
PaidGetsLicense == session = "paid" ~> Issued # {}

\* A licence whose charge is refunded is revoked in the end.
RefundRevokes ==
    \A l \in Licenses : (license = l /\ refundEvent = "queued") ~> tier[l] = "free"
=============================================================================
