---------------------------- MODULE Subscription ----------------------------
(***************************************************************************)
(* The life of one licence that a Stripe subscription pays for: the        *)
(* webhook handlers that renew, cancel, revoke and restore it, the client  *)
(* and the administrator who edit it, the daily warning and the daily      *)
(* expiry job.  All of them but the expiry job read the row and save all   *)
(* of its columns later.  Time is counted in ticks; invoice k bills the    *)
(* period that ends at k * Cycle, and MaxTime bounds the clock.            *)
(***************************************************************************)
EXTENDS Naturals

CONSTANTS
    Cycle,        \* ticks of a billing period
    Grace,        \* PostExpiryGraceDays: what a licence lives on unpaid
    Dunning,      \* how long Stripe retries a failed payment
    WarnAhead,    \* the warning is sent so long before the expiry
    Invoices,     \* bound: invoices the subscription gets
    MaxTime,      \* bound: the clock
    MaxIncidents, \* bound: refunds, disputes, cancellations, edits, failures
    NoCopy        \* a process that holds no copy of the row

\* Stripe gives up on a payment, and on the delivery of an event, early enough
\* for an event never to be handled after the period that it is about.
ASSUME SubscriptionAssumption ==
    /\ Cycle \in Nat /\ Grace \in Nat /\ Dunning \in Nat /\ WarnAhead \in Nat
    /\ Invoices \in Nat \ {0} /\ MaxTime \in Nat /\ MaxIncidents \in Nat
    /\ Dunning + 1 < Cycle

VARIABLES
    now,
    paid,        \* at Stripe: invoices paid so far
    agreement,   \* at Stripe: the subscription
    charge,      \* at Stripe: what became of the payment of each invoice
    event,       \* each event, from its cause to its acknowledgement
    aged,        \* the unacknowledged events of the tick before
    license,     \* the row
    recorded,    \* invoices with a row that has their payment intent
    copy,        \* the row that a process read, and the one it will save
    jobPc, jobDue,   \* checkLicenseExpiry, and whether it collected the id
    incidents,
    stale        \* a Save has replaced a row that was not the one read

stripe == <<paid, agreement, charge>>
job == <<jobPc, jobDue>>
vars == <<now, stripe, event, aged, license, recorded, copy, job, incidents, stale>>

Invoice == 1 .. Invoices
Event == {"paid", "failed", "refunded", "disputed", "won"} \X Invoice
         \union {<<"deleted", 1>>, <<"scheduled", 1>>, <<"reactivated", 1>>}
\* "save" and "record" are steps of the handler.
EventState == {"unsent", "queued", "save", "record", "done", "lost"}
User == {"client", "admin", "warning"} \X {1}
Row == [tier : {"free", "premium"}, expiresAt : Nat, autoRenew : BOOLEAN,
        cancelled : BOOLEAN, notified : BOOLEAN]
Copy == [read : Row, write : Row]

\* FindOrCreateLicenseForSession has created the licence for the first period.
Init ==
    /\ now = 0 /\ paid = 1 /\ agreement = "active"
    /\ charge = [k \in Invoice |-> IF k = 1 THEN "paid" ELSE "open"]
    /\ event = [e \in Event |->
                  IF e = <<"paid", 1>> THEN "queued" ELSE "unsent"]
    /\ aged = {}
    /\ license = [tier |-> "premium", expiresAt |-> Cycle, autoRenew |-> TRUE,
                  cancelled |-> FALSE, notified |-> FALSE]
    /\ recorded = {}
    /\ copy = [p \in Event \union User |-> NoCopy]
    /\ jobPc = "idle" /\ jobDue = FALSE
    /\ incidents = 0 /\ stale = FALSE

Incident == incidents < MaxIncidents /\ incidents' = incidents + 1

-----------------------------------------------------------------------------
(* Stripe.                                                                 *)

Send(events) ==
    event' = [e \in Event |-> IF e \in events THEN "queued" ELSE event[e]]

Renew(k) ==
    /\ k = paid + 1 /\ agreement \in {"active", "past_due"}
    /\ now \in paid * Cycle .. paid * Cycle + Dunning
    /\ paid' = k /\ charge' = [charge EXCEPT ![k] = "paid"] /\ agreement' = "active"
    /\ Send({<<"paid", k>>})
    /\ UNCHANGED <<now, aged, license, recorded, copy, job, incidents, stale>>

PaymentFails(k) ==
    /\ k = paid + 1 /\ agreement = "active" /\ now = paid * Cycle
    /\ Incident
    /\ agreement' = "past_due"
    /\ Send({<<"failed", k>>})
    /\ UNCHANGED <<now, aged, paid, charge, license, recorded, copy, job, stale>>

\* The charge of a paid invoice is refunded or disputed, a dispute is closed.
ChargeTurns(k, from, to) ==
    /\ charge[k] = from
    /\ Incident
    /\ charge' = [charge EXCEPT ![k] = to]
    /\ Send({<<to, k>>})
    /\ UNCHANGED <<now, aged, paid, agreement, license, recorded, copy, job, stale>>

\* The customer uses the Billing Portal; each of the two happens once.
PortalEdits(from, to, name) ==
    /\ agreement = from /\ event[<<name, 1>>] = "unsent"
    /\ Incident
    /\ agreement' = to
    /\ Send({<<name, 1>>})
    /\ UNCHANGED <<now, aged, paid, charge, license, recorded, copy, job, stale>>

SubscriptionEnds ==
    /\ \/ agreement = "ending" /\ now >= paid * Cycle
       \/ agreement = "past_due" /\ now > paid * Cycle + Dunning
    /\ agreement' = "deleted"
    /\ Send({<<"deleted", 1>>})
    /\ UNCHANGED <<now, aged, paid, charge, license, recorded, copy, job, incidents, stale>>

\* Stripe delivers an event again for three days, less than a tick, and then
\* gives up.
GiveUp(e) ==
    /\ e \in aged /\ event[e] = "queued"
    /\ Incident
    /\ event' = [event EXCEPT ![e] = "lost"]
    /\ UNCHANGED <<now, stripe, aged, license, recorded, copy, job, stale>>

\* Requests and jobs are much shorter than a tick.
Tick ==
    /\ now < MaxTime
    /\ \A p \in DOMAIN copy : copy[p] = NoCopy
    /\ \A e \in Event : event[e] \notin {"save", "record"}
    /\ \A e \in aged : event[e] # "queued"
    /\ jobPc = "idle"
    /\ now' = now + 1
    /\ aged' = {e \in Event : event[e] = "queued"}
    /\ UNCHANGED <<stripe, event, license, recorded, copy, job, incidents, stale>>

-----------------------------------------------------------------------------
(* The row.                                                                *)

\* AddBillingCycleToTime, from the expiry or, once expired, from now.
Renewed(row) ==
    [row EXCEPT !.expiresAt = (IF now > @ THEN now ELSE @) + Cycle,
                !.tier = "premium", !.autoRenew = TRUE, !.notified = FALSE]

\* The increment without a look at what is covered already, or with a look at
\* the start of the period.
CoversNothing(row, k) == FALSE
CoversStart(row, k) == row.expiresAt >= (k - 1) * Cycle

Covers(row, k) == row.expiresAt >= k * Cycle

Revoked(row) ==
    [row EXCEPT !.tier = "free", !.autoRenew = FALSE, !.cancelled = TRUE]

Restored(row) ==
    [row EXCEPT !.tier = "premium", !.autoRenew = TRUE, !.cancelled = FALSE]

PastGrace == license.expiresAt + Grace < now

\* A query that takes a failed payment, which stops the renewal, for an end.
ExpiredRenewing == license.tier = "premium" /\ license.autoRenew /\ PastGrace

\* What the expiry job collects in its phases 1 and 2.
ExpiredActive == license.tier = "premium" /\ ~license.cancelled /\ PastGrace
ExpiredCancelled == license.tier = "premium" /\ license.cancelled /\ license.expiresAt < now

-----------------------------------------------------------------------------
(* Webhook handlers.  The inbox runs an event's handler once at a time and *)
(* again after an error.                                                   *)

Delivered(e) == event[e] = "queued"

Goto(e, state) == event' = [event EXCEPT ![e] = state]

ReadToSave(p, row) == copy' = [copy EXCEPT ![p] = [read |-> license, write |-> row]]

HandlerFrame == UNCHANGED <<now, stripe, aged, license, recorded, job, incidents, stale>>

\* The first invoice was granted by the checkout.
HandleInvoicePaid(k) ==
    LET e == <<"paid", k>> IN
    /\ Delivered(e)
    /\ \/ /\ k = 1 \/ Covers(license, k)
          /\ Goto(e, "record") /\ UNCHANGED copy
       \/ /\ k # 1 /\ ~Covers(license, k)
          /\ ReadToSave(e, Renewed(license)) /\ Goto(e, "save")
    /\ HandlerFrame

HandleInvoicePaymentFailed(k) ==
    LET e == <<"failed", k>> IN
    /\ Delivered(e)
    /\ ReadToSave(e, [license EXCEPT !.autoRenew = FALSE]) /\ Goto(e, "save")
    /\ HandlerFrame

\* invoice.finalized and its like, which may as well never come: the record only.
HandleInvoiceStatusChange(k) ==
    /\ k \notin recorded /\ charge[k] # "open"
    /\ recorded' = recorded \union {k}
    /\ UNCHANGED <<now, stripe, event, aged, license, copy, job, incidents, stale>>

HandleSubscriptionDeleted ==
    LET e == <<"deleted", 1>> IN
    /\ Delivered(e)
    /\ \/ license.cancelled /\ Goto(e, "done") /\ UNCHANGED copy
       \/ /\ ~license.cancelled
          /\ ReadToSave(e, [license EXCEPT !.cancelled = TRUE, !.autoRenew = FALSE])
          /\ Goto(e, "save")
    /\ HandlerFrame

\* The event has the cancel_at_period_end of its cause.
HandleSubscriptionUpdated(name, renews) ==
    LET e == <<name, 1>> IN
    /\ Delivered(e)
    /\ \/ license.autoRenew = renews /\ Goto(e, "done") /\ UNCHANGED copy
       \/ /\ license.autoRenew # renews
          /\ ReadToSave(e, [license EXCEPT !.autoRenew = renews]) /\ Goto(e, "save")
    /\ HandlerFrame

\* The charge of a subscription has no transaction: the licence is found through
\* the invoice.  Without a row of the invoice the event is dropped.
ThroughInvoice(e, row) ==
    /\ Delivered(e)
    /\ \/ e[2] \notin recorded /\ Goto(e, "done") /\ UNCHANGED copy
       \/ e[2] \in recorded /\ ReadToSave(e, row) /\ Goto(e, "save")
    /\ HandlerFrame

HandleChargeRefunded(k) == ThroughInvoice(<<"refunded", k>>, Revoked(license))
HandleChargeDispute(k) == ThroughInvoice(<<"disputed", k>>, Revoked(license))
HandleDisputeWon(k) == ThroughInvoice(<<"won", k>>, Restored(license))

\* repository.Update: every column, whatever the row has become.
Save(p) ==
    /\ license' = copy[p].write
    /\ stale' = (stale \/ license # copy[p].read)
    /\ copy' = [copy EXCEPT ![p] = NoCopy]

SaveHandled(e) ==
    /\ event[e] = "save"
    /\ Save(e)
    /\ Goto(e, IF e[1] \in {"paid", "failed"} THEN "record" ELSE "done")
    /\ UNCHANGED <<now, stripe, aged, recorded, job, incidents>>

\* persistInvoiceRecord: an error is only logged.
PersistInvoiceRecord(e) ==
    /\ event[e] = "record" /\ Goto(e, "done")
    /\ \/ recorded' = recorded \union {e[2]} /\ UNCHANGED incidents
       \/ Incident /\ UNCHANGED recorded
    /\ UNCHANGED <<now, stripe, aged, license, copy, job, stale>>

\* A database error, or a crash before or after the Save: Stripe repeats.
HandlerFails(e) ==
    /\ event[e] \in {"save", "record"}
    /\ Incident
    /\ Goto(e, "queued")
    /\ copy' = [copy EXCEPT ![e] = NoCopy]
    /\ UNCHANGED <<now, stripe, aged, license, recorded, job, stale>>

Handler ==
    \/ \E k \in Invoice :
          \/ HandleInvoicePaid(k) \/ HandleInvoicePaymentFailed(k)
          \/ HandleInvoiceStatusChange(k)
          \/ HandleChargeRefunded(k) \/ HandleChargeDispute(k) \/ HandleDisputeWon(k)
    \/ HandleSubscriptionDeleted
    \/ HandleSubscriptionUpdated("scheduled", FALSE)
    \/ HandleSubscriptionUpdated("reactivated", TRUE)
    \/ \E e \in Event : SaveHandled(e) \/ PersistInvoiceRecord(e)

-----------------------------------------------------------------------------
(* Client, administrator and the daily warning.                            *)

Reads(user, row) ==
    /\ copy[user] = NoCopy
    /\ ReadToSave(user, row)
    /\ UNCHANGED <<now, aged, charge, paid, license, recorded, job, stale>>

\* The subscription is told to end with its period before the row is saved.
CancelSubscription ==
    /\ ~license.cancelled /\ agreement \in {"active", "ending"}
    /\ Incident
    /\ Reads(<<"client", 1>>, [license EXCEPT !.autoRenew = FALSE])
    /\ agreement' = "ending"
    /\ IF agreement = "active" /\ event[<<"scheduled", 1>>] = "unsent"
       THEN Send({<<"scheduled", 1>>}) ELSE UNCHANGED event

\* One field a request; an edited expiry is one that a later invoice counts from.
UpdateLicense ==
    /\ Incident
    /\ \/ \E t \in {"free", "premium"} : Reads(<<"admin", 1>>, [license EXCEPT !.tier = t])
       \/ Reads(<<"admin", 1>>, [license EXCEPT !.autoRenew = ~@])
       \/ Reads(<<"admin", 1>>, [license EXCEPT !.cancelled = ~@])
    /\ UNCHANGED <<agreement, event>>

\* The row is read, an email is sent, the row is saved.
SendExpiryWarning ==
    /\ license.tier = "premium" /\ ~license.cancelled /\ ~license.notified
    /\ license.expiresAt = now + WarnAhead
    /\ Reads(<<"warning", 1>>, [license EXCEPT !.notified = TRUE])
    /\ UNCHANGED <<agreement, event, incidents>>

SaveEdited(user) ==
    /\ copy[user] # NoCopy
    /\ Save(user)
    /\ UNCHANGED <<now, stripe, event, aged, recorded, job, incidents>>

-----------------------------------------------------------------------------
(* checkLicenseExpiry.                                                     *)

CollectExpired ==
    /\ jobPc = "idle" /\ ExpiredActive
    /\ jobPc' = "cancelled" /\ jobDue' = TRUE
    /\ UNCHANGED <<now, stripe, event, aged, license, recorded, copy, incidents, stale>>

CollectNothing ==
    /\ jobPc = "idle" /\ ~ExpiredActive /\ license.cancelled
    /\ jobPc' = "cancelled" /\ jobDue' = FALSE
    /\ UNCHANGED <<now, stripe, event, aged, license, recorded, copy, incidents, stale>>

CollectCancelled ==
    /\ jobPc = "cancelled"
    /\ jobDue' = (jobDue \/ ExpiredCancelled)
    /\ jobPc' = IF jobDue' THEN "downgrade" ELSE "idle"
    /\ UNCHANGED <<now, stripe, event, aged, license, recorded, copy, incidents, stale>>

\* One UPDATE of two columns of the rows with the collected ids.
Downgrade ==
    /\ jobPc = "downgrade" /\ jobPc' = "idle" /\ jobDue' = FALSE
    /\ license' = [license EXCEPT !.tier = "free", !.autoRenew = FALSE]
    /\ UNCHANGED <<now, stripe, event, aged, recorded, copy, incidents, stale>>

DowngradeFails ==
    /\ jobPc = "downgrade" /\ jobPc' = "idle" /\ jobDue' = FALSE
    /\ Incident
    /\ UNCHANGED <<now, stripe, event, aged, license, recorded, copy, stale>>

ExpiryJob == CollectExpired \/ CollectNothing \/ CollectCancelled \/ Downgrade

-----------------------------------------------------------------------------

Next ==
    \/ \E k \in Invoice :
          \/ Renew(k) \/ PaymentFails(k)
          \/ ChargeTurns(k, "paid", "refunded") \/ ChargeTurns(k, "paid", "disputed")
          \/ ChargeTurns(k, "disputed", "won")
    \/ PortalEdits("active", "ending", "scheduled")
    \/ PortalEdits("ending", "active", "reactivated")
    \/ SubscriptionEnds
    \/ \E e \in Event : GiveUp(e) \/ HandlerFails(e)
    \/ Tick
    \/ Handler
    \/ CancelSubscription \/ UpdateLicense \/ SendExpiryWarning
    \/ \E user \in User : SaveEdited(user)
    \/ ExpiryJob \/ DowngradeFails

Spec == Init /\ [][Next]_vars

\* The job runs every day, after a panic and a restart too.
FairSpec == Spec /\ WF_vars(ExpiryJob)

-----------------------------------------------------------------------------
(* Properties.                                                             *)

\* Every variable has its type.
TypeOK ==
    /\ now \in 0 .. MaxTime /\ paid \in Invoice
    /\ agreement \in {"active", "past_due", "ending", "deleted"}
    /\ charge \in [Invoice -> {"open", "paid", "refunded", "disputed", "won"}]
    /\ event \in [Event -> EventState] /\ aged \subseteq Event
    /\ license \in Row /\ recorded \subseteq Invoice
    /\ DOMAIN copy = Event \union User
    /\ \A p \in DOMAIN copy : copy[p] = NoCopy \/ copy[p] \in Copy
    /\ jobPc \in {"idle", "cancelled", "downgrade"} /\ jobDue \in BOOLEAN
    /\ incidents \in 0 .. MaxIncidents /\ stale \in BOOLEAN

\* However often invoice.paid is repeated, in whatever order the events of two
\* invoices come, and whoever saves an old copy of the row, a licence never
\* runs longer than one period more than what was paid.
NeverAnExtraPeriod == license.expiresAt < (paid + 1) * Cycle

\* Unless a Save replaced a row it had not read, the expiry covers the period
\* of every invoice whose event was handled.
PaidPeriodGranted ==
    stale \/ \A k \in Invoice : event[<<"paid", k>>] = "done" => license.expiresAt >= k * Cycle

\* Once past its grace a licence is downgraded, or renewed.
Due == license.tier = "premium" /\ license.expiresAt + Grace < now
DueIsDowngraded == Due ~> ~Due
=============================================================================
