------------------------- MODULE SubscriptionProofs -------------------------
(***************************************************************************)
(* For any number of invoices, any length of a period and any bound on     *)
(* what goes wrong: a licence never runs a period longer than what was     *)
(* paid.  The argument has two halves.  An event of an invoice is handled  *)
(* at most Dunning + 1 ticks into its period (Timely), so an expiry that   *)
(* is counted from now ends before the next period does.  An expiry that   *)
(* is counted from itself is not Covered by the invoice, so it too ends    *)
(* before the next period does.  Every copy of the row that may still be   *)
(* saved was computed that way (CopiesBounded).                            *)
(*                                                                         *)
(* And what was paid is granted: the expiry covers the period of every     *)
(* invoice that was handled.  Every writer lengthens the expiry it has     *)
(* read or covers its own invoice (CopiesLengthen, RenewalsCover), so      *)
(* that only a Save over a row it has not read takes a period away.        *)
(***************************************************************************)
EXTENDS Subscription, Integers, TLAPS

Working == {"queued", "save", "record"}
Limit == (paid + 1) * Cycle
Bounded(row) == row \in Row /\ row.expiresAt < Limit

Types ==
    /\ now \in Nat /\ paid \in Nat
    /\ event \in [Event -> EventState]
    /\ copy \in [Event \union User -> Copy \union {NoCopy}]

\* Only of a paid invoice is there an invoice.paid event.
SentWhenPaid == \A k \in Invoice : event[<<"paid", k>>] # "unsent" => k <= paid

\* The event of an invoice is handled early in the period of the invoice.
Timely ==
    \A k \in Invoice : event[<<"paid", k>>] \in Working =>
        now <= (k - 1) * Cycle + Dunning + (IF <<"paid", k>> \in aged THEN 1 ELSE 0)

\* Whatever may be saved later is bounded as the row itself.
CopiesBounded ==
    /\ \A p \in Event \union User : copy[p] # NoCopy => Bounded(copy[p].write)
    /\ \A e \in Event : event[e] = "save" => Bounded(copy[e].write)

IInv == Types /\ SentWhenPaid /\ Timely /\ CopiesBounded /\ Bounded(license)

-----------------------------------------------------------------------------
(* Arithmetic of periods.                                                  *)

\* More periods are not shorter.
LEMMA Periods ==
    ASSUME SubscriptionAssumption, NEW k \in Nat, NEW n \in Nat, k <= n
    PROVE  /\ k * Cycle \in Nat
           /\ (k + 1) * Cycle = k * Cycle + Cycle
           /\ (k + 1) * Cycle <= (n + 1) * Cycle
  <1>1. Cycle \in Nat
    BY DEF SubscriptionAssumption
  <1>2. (n - k) * Cycle \in Nat
    <2>1. n - k \in Nat
      OBVIOUS
    <2> QED
      BY <1>1, <2>1
  <1>3. (n + 1) * Cycle = (k + 1) * Cycle + (n - k) * Cycle
    BY <1>1
  <1> QED
    BY <1>1, <1>2, <1>3

\* A row renewed for an invoice that it does not cover ends within the limit.
LEMMA RenewalBounded ==
    ASSUME SubscriptionAssumption, IInv, NEW k \in Invoice,
           event[<<"paid", k>>] \in Working, ~Covers(license, k)
    PROVE  Bounded(Renewed(license))
  <1> USE DEF IInv
  <1>1. k \in Nat /\ k - 1 \in Nat /\ k <= paid /\ now \in Nat /\ paid \in Nat
        /\ Cycle \in Nat /\ Dunning \in Nat /\ Dunning + 1 < Cycle
    BY DEF Invoice, SentWhenPaid, Types, Working, SubscriptionAssumption
  <1>2. /\ k * Cycle \in Nat /\ (k - 1) * Cycle \in Nat
        /\ k * Cycle = (k - 1) * Cycle + Cycle
        /\ k * Cycle + Cycle <= Limit
    <2>1. (k + 1) * Cycle = k * Cycle + Cycle /\ (k + 1) * Cycle <= Limit
      BY <1>1, Periods DEF Limit
    <2>2. /\ (k - 1) * Cycle \in Nat /\ k * Cycle \in Nat
          /\ ((k - 1) + 1) * Cycle = (k - 1) * Cycle + Cycle
      BY <1>1, Periods
    <2>3. (k - 1) + 1 = k
      BY <1>1
    <2> QED
      BY <2>1, <2>2, <2>3
  <1>3. now <= (k - 1) * Cycle + Dunning + 1
    <2>1. now <= (k - 1) * Cycle + Dunning + (IF <<"paid", k>> \in aged THEN 1 ELSE 0)
      BY DEF Timely
    <2> QED
      BY <2>1, <1>1, <1>2
  <1>4. license \in Row /\ license.expiresAt \in Nat /\ license.expiresAt < k * Cycle
    BY <1>1, <1>2 DEF Bounded, Row, Covers
  <1>5. Limit \in Nat
    BY <1>1 DEF Limit
  <1> DEFINE end == (IF now > license.expiresAt THEN now ELSE license.expiresAt) + Cycle
  <1>6. end \in Nat /\ end < Limit
    BY <1>1, <1>2, <1>3, <1>4, <1>5
  <1>7. Renewed(license) \in Row /\ Renewed(license).expiresAt = end
    BY <1>4, <1>6 DEF Renewed, Row
  <1> QED
    BY <1>6, <1>7 DEF Bounded

-----------------------------------------------------------------------------
(* The kinds of steps.                                                     *)

\* Nothing but events: those that Stripe sends, and handlers that end.
LEMMA EventStep ==
    ASSUME IInv, UNCHANGED <<now, paid, aged, license, copy>>,
           event' \in [Event -> EventState],
           \A e \in Event : event'[e] = "save" => event[e] = "save",
           \A k \in Invoice :
              \/ event'[<<"paid", k>>] = event[<<"paid", k>>]
              \/ event[<<"paid", k>>] \in Working
    PROVE  IInv'
  <1> USE DEF IInv
  <1>1. Types' /\ Bounded(license)'
    BY DEF Types, Bounded, Limit
  <1>2. SentWhenPaid' /\ Timely'
    BY DEF SentWhenPaid, Timely, Working
  <1>3. CopiesBounded'
    BY DEF CopiesBounded, Bounded, Limit
  <1> QED
    BY <1>1, <1>2, <1>3

\* A process reads the row and will save a bounded one.
LEMMA ReadStep ==
    ASSUME IInv, NEW p \in Event \union User, NEW row, Bounded(row), ReadToSave(p, row),
           UNCHANGED <<now, paid, aged, license>>,
           event' \in [Event -> EventState],
           \A e \in Event : event'[e] = "save" => event[e] = "save" \/ e = p,
           \A k \in Invoice :
              \/ event'[<<"paid", k>>] = event[<<"paid", k>>]
              \/ event[<<"paid", k>>] \in Working
    PROVE  IInv'
  <1> USE DEF IInv
  <1>1. [read |-> license, write |-> row] \in Copy
    BY DEF Bounded, Copy
  <1>2. Types' /\ Bounded(license)'
    BY <1>1 DEF Types, Bounded, Limit, ReadToSave
  <1>3. SentWhenPaid' /\ Timely'
    BY DEF SentWhenPaid, Timely, Working
  <1>4. CopiesBounded'
    <2>1. /\ copy'[p].write = row
          /\ \A q \in Event \union User : q # p => copy'[q] = copy[q]
      BY DEF ReadToSave, Types
    <2> QED
      BY <2>1 DEF CopiesBounded, Bounded, Limit
  <1> QED
    BY <1>2, <1>3, <1>4

\* A row of the same expiry is bounded, too.
LEMMA SameExpiry ==
    ASSUME IInv, NEW row, row \in Row, row.expiresAt = license.expiresAt
    PROVE  Bounded(row)
  BY DEF IInv, Bounded

\* A copy is saved, or dropped, and its event, if it has one, is no longer
\* about to save it.
LEMMA DropStep ==
    ASSUME IInv, NEW p \in Event \union User,
           copy' = [copy EXCEPT ![p] = NoCopy],
           Bounded(license'),
           UNCHANGED <<now, paid, aged>>,
           event' \in [Event -> EventState],
           \A e \in Event : event'[e] = "save" => event[e] = "save" /\ e # p,
           \A k \in Invoice :
              \/ event'[<<"paid", k>>] = event[<<"paid", k>>]
              \/ event[<<"paid", k>>] \in Working
    PROVE  IInv'
  <1> USE DEF IInv
  <1>1. Types' /\ Bounded(license)'
    BY DEF Types, Bounded, Limit
  <1>2. SentWhenPaid' /\ Timely'
    BY DEF SentWhenPaid, Timely, Working
  <1>3. CopiesBounded'
    <2>1. /\ copy'[p] = NoCopy
          /\ \A q \in Event \union User : q # p => copy'[q] = copy[q]
      BY DEF Types
    <2> QED
      BY <2>1 DEF CopiesBounded, Bounded, Limit
  <1> QED
    BY <1>1, <1>2, <1>3

-----------------------------------------------------------------------------

\* Event names: the events of an invoice, and what is no event.
LEMMA Names ==
    /\ \A k \in Invoice :
          /\ <<"paid", k>> \in Event /\ <<"failed", k>> \in Event /\ <<"refunded", k>> \in Event
          /\ <<"disputed", k>> \in Event /\ <<"won", k>> \in Event
    /\ <<"deleted", 1>> \in Event /\ <<"scheduled", 1>> \in Event /\ <<"reactivated", 1>> \in Event
    /\ User \intersect Event = {}
    /\ User = {<<"client", 1>>, <<"admin", 1>>, <<"warning", 1>>}
  BY DEF Event, User

\* At first a licence has the period of the first invoice.
LEMMA InitInvariant == ASSUME SubscriptionAssumption, Init PROVE IInv
  <1>1. Cycle \in Nat /\ Dunning \in Nat /\ Dunning + 1 < Cycle
    BY DEF SubscriptionAssumption
  <1>2. Types
    BY DEF Init, Types, EventState
  <1>3. license \in Row /\ license.expiresAt = Cycle
    BY <1>1 DEF Init, Row
  <1>4. Bounded(license)
    BY <1>1, <1>3 DEF Init, Bounded, Limit
  <1>5. \A k \in Invoice : event[<<"paid", k>>] # "unsent" => k = 1
    BY Names DEF Init, Event
  <1>6. SentWhenPaid /\ Timely
    BY <1>1, <1>5 DEF Init, SentWhenPaid, Timely, Working, Invoice
  <1>7. CopiesBounded
    BY DEF Init, CopiesBounded
  <1> QED
    BY <1>2, <1>4, <1>6, <1>7 DEF IInv

\* A new invoice is paid, at most Dunning into its period.
LEMMA RenewStep ==
    ASSUME SubscriptionAssumption, IInv, NEW k \in Invoice, Renew(k)
    PROVE  IInv'
  <1> USE DEF IInv
  <1>1. /\ paid' = paid + 1 /\ k = paid + 1 /\ paid \in Nat /\ now \in Nat /\ k - 1 = paid
        /\ now <= (k - 1) * Cycle + Dunning
        /\ Cycle \in Nat /\ Dunning \in Nat
        /\ UNCHANGED <<now, aged, license, copy>>
    BY DEF Renew, Types, job, SubscriptionAssumption
  <1>2. Limit <= Limit' /\ Limit \in Nat /\ Limit' \in Nat
    <2>1. (paid + 1) * Cycle \in Nat /\ (paid' + 1) * Cycle \in Nat
      BY <1>1
    <2>2. (paid + 1) * Cycle <= (paid' + 1) * Cycle
      BY <1>1, Periods
    <2> QED
      BY <2>1, <2>2 DEF Limit
  <1>3. /\ event' \in [Event -> EventState]
        /\ event'[<<"paid", k>>] = "queued"
        /\ \A e \in Event : e # <<"paid", k>> => event'[e] = event[e]
        /\ <<"paid", k>> \in Event
    BY Names DEF Renew, Send, Types, EventState
  <1>4. \A row : Bounded(row) => Bounded(row)'
    BY <1>2 DEF Bounded, Row
  <1>5. Types' /\ Bounded(license)'
    BY <1>1, <1>3, <1>4 DEF Types
  <1>6. SentWhenPaid'
    <2> SUFFICES ASSUME NEW j \in Invoice, event'[<<"paid", j>>] # "unsent"
                 PROVE  j <= paid'
      BY DEF SentWhenPaid
    <2>1. CASE j = k
      BY <1>1, <2>1
    <2>2. CASE j # k
      <3>1. <<"paid", j>> # <<"paid", k>> /\ <<"paid", j>> \in Event
        BY <2>2, Names
      <3>2. j <= paid /\ j \in Nat
        BY <1>3, <3>1 DEF SentWhenPaid, Invoice
      <3> QED
        BY <1>1, <3>2
    <2> QED
      BY <2>1, <2>2
  <1>7. Timely'
    <2> SUFFICES ASSUME NEW j \in Invoice, event'[<<"paid", j>>] \in Working
                 PROVE  now <= (j - 1) * Cycle + Dunning + (IF <<"paid", j>> \in aged THEN 1 ELSE 0)
      BY <1>1 DEF Timely
    <2>1. CASE j = k
      <3>1. now <= (j - 1) * Cycle + Dunning /\ (j - 1) * Cycle \in Nat
        BY <1>1, <2>1
      <3> QED
        BY <1>1, <3>1
    <2>2. CASE j # k
      BY <1>3, <2>2, Names DEF Timely
    <2> QED
      BY <2>1, <2>2
  <1>8. CopiesBounded'
    <2>1. \A e \in Event : event'[e] = "save" => event[e] = "save"
      BY <1>3
    <2> QED
      BY <1>1, <1>4, <2>1 DEF CopiesBounded
  <1> QED
    BY <1>5, <1>6, <1>7, <1>8

\* Stripe's other steps.
LEMMA StripeStep ==
    ASSUME IInv,
           \/ \E k \in Invoice : \/ PaymentFails(k) \/ ChargeTurns(k, "paid", "refunded")
                                 \/ ChargeTurns(k, "paid", "disputed")
                                 \/ ChargeTurns(k, "disputed", "won")
           \/ PortalEdits("active", "ending", "scheduled")
           \/ PortalEdits("ending", "active", "reactivated")
           \/ SubscriptionEnds
    PROVE  IInv'
  <1>1. UNCHANGED <<now, paid, aged, license, copy>>
    BY DEF PaymentFails, ChargeTurns, PortalEdits, SubscriptionEnds
  <1>2. PICK e \in Event : Send({e}) /\ \A k \in Invoice : e # <<"paid", k>>
    BY Names DEF PaymentFails, ChargeTurns, PortalEdits, SubscriptionEnds
  <1>3. /\ event' \in [Event -> EventState]
        /\ \A f \in Event : event'[f] = "save" => event[f] = "save"
        /\ \A k \in Invoice : event'[<<"paid", k>>] = event[<<"paid", k>>]
    BY <1>2, Names DEF IInv, Types, Send, EventState
  <1> QED
    BY <1>1, <1>3, EventStep

\* An event leaves the state it was in for one in which nothing is saved.
LEMMA GotoStep ==
    ASSUME IInv, NEW e \in Event, NEW to \in {"record", "done", "lost"},
           event[e] \in Working, event' = [event EXCEPT ![e] = to],
           UNCHANGED <<now, paid, aged, license, copy>>
    PROVE  IInv'
  <1>1. /\ event' \in [Event -> EventState]
        /\ \A f \in Event : event'[f] = "save" => event[f] = "save"
        /\ \A k \in Invoice : \/ event'[<<"paid", k>>] = event[<<"paid", k>>]
                              \/ event[<<"paid", k>>] \in Working
    BY Names DEF IInv, Types, EventState
  <1> QED
    BY <1>1, EventStep

\* A handler that is about to save a bounded row.
LEMMA GotoSave ==
    ASSUME IInv, NEW e \in Event, NEW row, Bounded(row),
           Delivered(e), Goto(e, "save"), ReadToSave(e, row),
           UNCHANGED <<now, paid, aged, license>>
    PROVE  IInv'
  <1>1. /\ event' \in [Event -> EventState]
        /\ \A f \in Event : event'[f] = "save" => event[f] = "save" \/ f = e
        /\ \A k \in Invoice : \/ event'[<<"paid", k>>] = event[<<"paid", k>>]
                              \/ event[<<"paid", k>>] \in Working
    BY Names DEF IInv, Types, EventState, Goto, Delivered, Working
  <1> QED
    BY <1>1, ReadStep

\* The rows that the handlers compute, but for the renewal, keep the expiry.
LEMMA EditedRows ==
    ASSUME IInv
    PROVE  /\ Bounded(Revoked(license)) /\ Bounded(Restored(license))
           /\ \A b \in BOOLEAN : Bounded([license EXCEPT !.autoRenew = b])
           /\ \A b \in BOOLEAN : Bounded([license EXCEPT !.cancelled = b])
           /\ \A t \in {"free", "premium"} : Bounded([license EXCEPT !.tier = t])
           /\ Bounded([license EXCEPT !.notified = TRUE])
           /\ Bounded([license EXCEPT !.cancelled = TRUE, !.autoRenew = FALSE])
           /\ Bounded([license EXCEPT !.tier = "free", !.autoRenew = FALSE])
  <1>1. license \in Row
    BY DEF IInv, Bounded
  <1>2. /\ Revoked(license) \in Row /\ Restored(license) \in Row
        /\ \A b \in BOOLEAN : [license EXCEPT !.autoRenew = b] \in Row
        /\ \A b \in BOOLEAN : [license EXCEPT !.cancelled = b] \in Row
        /\ \A t \in {"free", "premium"} : [license EXCEPT !.tier = t] \in Row
        /\ [license EXCEPT !.notified = TRUE] \in Row
        /\ [license EXCEPT !.cancelled = TRUE, !.autoRenew = FALSE] \in Row
        /\ [license EXCEPT !.tier = "free", !.autoRenew = FALSE] \in Row
    BY <1>1 DEF Row, Revoked, Restored
  <1>3. /\ Revoked(license).expiresAt = license.expiresAt
        /\ Restored(license).expiresAt = license.expiresAt
        /\ \A b : [license EXCEPT !.autoRenew = b].expiresAt = license.expiresAt
        /\ \A b : [license EXCEPT !.cancelled = b].expiresAt = license.expiresAt
        /\ \A t : [license EXCEPT !.tier = t].expiresAt = license.expiresAt
        /\ [license EXCEPT !.notified = TRUE].expiresAt = license.expiresAt
        /\ [license EXCEPT !.cancelled = TRUE, !.autoRenew = FALSE].expiresAt = license.expiresAt
        /\ [license EXCEPT !.tier = "free", !.autoRenew = FALSE].expiresAt = license.expiresAt
    BY <1>1 DEF Row, Revoked, Restored
  <1> QED
    BY <1>2, <1>3, SameExpiry

\* The webhook handlers.
LEMMA HandlerStep == ASSUME SubscriptionAssumption, IInv, Handler PROVE IInv'
  <1> USE Names
  <1>1. ASSUME NEW k \in Invoice, HandleInvoicePaid(k) PROVE IInv'
    <2>1. event[<<"paid", k>>] \in Working /\ UNCHANGED <<now, paid, aged, license>>
      BY <1>1 DEF HandleInvoicePaid, HandlerFrame, stripe, Delivered, Working
    <2>2. CASE Goto(<<"paid", k>>, "record") /\ UNCHANGED copy
      BY <2>1, <2>2, GotoStep DEF Goto
    <2>3. CASE /\ ~Covers(license, k) /\ ReadToSave(<<"paid", k>>, Renewed(license))
               /\ Goto(<<"paid", k>>, "save")
      <3>1. Bounded(Renewed(license))
        BY <2>1, <2>3, RenewalBounded
      <3> QED
        BY <1>1, <2>1, <2>3, <3>1, GotoSave DEF HandleInvoicePaid
    <2> QED
      BY <1>1, <2>2, <2>3 DEF HandleInvoicePaid
  <1>2. ASSUME NEW k \in Invoice, HandleInvoicePaymentFailed(k) PROVE IInv'
    BY <1>2, EditedRows, GotoSave DEF HandleInvoicePaymentFailed, HandlerFrame, stripe
  <1>3. ASSUME NEW k \in Invoice, HandleInvoiceStatusChange(k) PROVE IInv'
    BY <1>3, EventStep DEF HandleInvoiceStatusChange, stripe, IInv, Types
  <1>4. ASSUME NEW e \in Event, NEW row, Bounded(row), ThroughInvoice(e, row) PROVE IInv'
    <2>1. event[e] \in Working /\ UNCHANGED <<now, paid, aged, license>>
      BY <1>4 DEF ThroughInvoice, HandlerFrame, stripe, Delivered, Working
    <2>2. CASE Goto(e, "done") /\ UNCHANGED copy
      BY <2>1, <2>2, GotoStep DEF Goto
    <2>3. CASE ReadToSave(e, row) /\ Goto(e, "save")
      BY <1>4, <2>1, <2>3, GotoSave DEF ThroughInvoice
    <2> QED
      BY <1>4, <2>2, <2>3 DEF ThroughInvoice
  <1>5. ASSUME NEW k \in Invoice,
               HandleChargeRefunded(k) \/ HandleChargeDispute(k) \/ HandleDisputeWon(k)
        PROVE  IInv'
    BY <1>4, <1>5, EditedRows DEF HandleChargeRefunded, HandleChargeDispute, HandleDisputeWon
  <1>6. ASSUME HandleSubscriptionDeleted PROVE IInv'
    <2> DEFINE e == <<"deleted", 1>>
    <2>1. Delivered(e) /\ event[e] \in Working /\ UNCHANGED <<now, paid, aged, license>>
      BY <1>6 DEF HandleSubscriptionDeleted, HandlerFrame, stripe, Delivered, Working
    <2>2. CASE Goto(e, "done") /\ UNCHANGED copy
      BY <2>1, <2>2, GotoStep DEF Goto
    <2>3. CASE /\ ReadToSave(e, [license EXCEPT !.cancelled = TRUE, !.autoRenew = FALSE])
               /\ Goto(e, "save")
      BY <2>1, <2>3, EditedRows, GotoSave
    <2> QED
      BY <1>6, <2>2, <2>3 DEF HandleSubscriptionDeleted
  <1>7. ASSUME NEW name \in {"scheduled", "reactivated"}, NEW renews \in BOOLEAN,
               HandleSubscriptionUpdated(name, renews)
        PROVE  IInv'
    <2> DEFINE e == <<name, 1>>
    <2>1. /\ Delivered(e) /\ event[e] \in Working /\ e \in Event
          /\ UNCHANGED <<now, paid, aged, license>>
      BY <1>7 DEF HandleSubscriptionUpdated, HandlerFrame, stripe, Delivered, Working
    <2>2. CASE Goto(e, "done") /\ UNCHANGED copy
      BY <2>1, <2>2, GotoStep DEF Goto
    <2>3. CASE ReadToSave(e, [license EXCEPT !.autoRenew = renews]) /\ Goto(e, "save")
      BY <2>1, <2>3, EditedRows, GotoSave
    <2> QED
      BY <1>7, <2>2, <2>3 DEF HandleSubscriptionUpdated
  <1>8. ASSUME NEW e \in Event, SaveHandled(e) PROVE IInv'
    <2>1. /\ Bounded(license')
          /\ copy' = [copy EXCEPT ![e] = NoCopy]
          /\ UNCHANGED <<now, paid, aged>>
      BY <1>8 DEF SaveHandled, Save, IInv, CopiesBounded, stripe
    <2>2. /\ event' \in [Event -> EventState]
          /\ \A f \in Event : event'[f] = "save" => event[f] = "save" /\ f # e
          /\ \A k \in Invoice : \/ event'[<<"paid", k>>] = event[<<"paid", k>>]
                                \/ event[<<"paid", k>>] \in Working
      BY <1>8 DEF SaveHandled, Goto, IInv, Types, EventState, Working
    <2> QED
      BY <2>1, <2>2, DropStep
  <1>9. ASSUME NEW e \in Event, PersistInvoiceRecord(e) PROVE IInv'
    BY <1>9, GotoStep DEF PersistInvoiceRecord, Goto, stripe, Working
  <1> QED
    BY <1>1, <1>2, <1>3, <1>5, <1>6, <1>7, <1>8, <1>9 DEF Handler

\* Client, administrator and warning read the row.
LEMMA UserReads ==
    ASSUME IInv, CancelSubscription \/ UpdateLicense \/ SendExpiryWarning
    PROVE  IInv'
  <1> USE Names
  <1>1. UNCHANGED <<now, paid, aged, license>>
    BY DEF CancelSubscription, UpdateLicense, SendExpiryWarning, Reads
  <1>2. license \in Row /\ license.autoRenew \in BOOLEAN /\ license.cancelled \in BOOLEAN
    BY DEF IInv, Bounded, Row
  <1>3. PICK user \in User : \E row : ReadToSave(user, row) /\ Bounded(row)
    <2>1. CASE CancelSubscription
      BY <2>1, EditedRows DEF CancelSubscription, Reads
    <2>2. CASE UpdateLicense
      BY <2>2, <1>2, EditedRows DEF UpdateLicense, Reads
    <2>3. CASE SendExpiryWarning
      BY <2>3, EditedRows DEF SendExpiryWarning, Reads
    <2> QED
      BY <2>1, <2>2, <2>3
  <1>4. PICK row : ReadToSave(user, row) /\ Bounded(row)
    BY <1>3
  <1>5. event' = event \/ Send({<<"scheduled", 1>>})
    BY DEF CancelSubscription, UpdateLicense, SendExpiryWarning, Reads
  <1>6. /\ event' \in [Event -> EventState]
        /\ \A e \in Event : event'[e] = "save" => event[e] = "save"
        /\ \A k \in Invoice : event'[<<"paid", k>>] = event[<<"paid", k>>]
    BY <1>5 DEF IInv, Types, Send, EventState
  <1> QED
    BY <1>1, <1>4, <1>6, ReadStep

\* And save what they read.
LEMMA UserSaves == ASSUME IInv, NEW user \in User, SaveEdited(user) PROVE IInv'
  <1>1. /\ Bounded(license')
        /\ copy' = [copy EXCEPT ![user] = NoCopy]
        /\ UNCHANGED <<now, paid, aged, event>>
    BY DEF SaveEdited, Save, IInv, CopiesBounded, stripe
  <1>2. /\ event' \in [Event -> EventState]
        /\ \A f \in Event : event'[f] = "save" => event[f] = "save" /\ f # user
    BY <1>1, Names DEF IInv, Types
  <1> QED
    BY <1>1, <1>2, DropStep

\* A tick: an event not yet handled has been queued for less than a tick.
LEMMA TickStep == ASSUME SubscriptionAssumption, IInv, Tick PROVE IInv'
  <1> USE DEF IInv
  <1>1. /\ now' = now + 1 /\ now \in Nat /\ UNCHANGED <<paid, event, license, copy>>
        /\ Cycle \in Nat /\ Dunning \in Nat
    BY DEF Tick, stripe, Types, SubscriptionAssumption
  <1>2. Types' /\ SentWhenPaid' /\ CopiesBounded' /\ Bounded(license)'
    BY <1>1 DEF Types, SentWhenPaid, CopiesBounded, Bounded, Limit
  <1>3. Timely'
    <2> SUFFICES ASSUME NEW k \in Invoice, event[<<"paid", k>>] \in Working
                 PROVE  now + 1 <= (k - 1) * Cycle + Dunning
                                    + (IF <<"paid", k>> \in aged' THEN 1 ELSE 0)
      BY <1>1 DEF Timely
    <2>1. /\ event[<<"paid", k>>] = "queued" /\ <<"paid", k>> \notin aged
          /\ <<"paid", k>> \in aged'
      BY Names DEF Tick, Working
    <2>2. now <= (k - 1) * Cycle + Dunning + 0
      BY <2>1 DEF Timely
    <2>3. (k - 1) * Cycle \in Int
      BY <1>1 DEF Invoice
    <2> QED
      BY <1>1, <2>1, <2>2, <2>3
  <1> QED
    BY <1>2, <1>3

\* The expiry job does not touch the expiry.
LEMMA JobStep == ASSUME IInv, ExpiryJob \/ DowngradeFails PROVE IInv'
  <1>1. CASE UNCHANGED license
    <2>1. UNCHANGED <<now, paid, aged, license, copy, event>>
      BY <1>1 DEF ExpiryJob, CollectExpired, CollectNothing, CollectCancelled, Downgrade,
                  DowngradeFails, stripe
    <2> QED
      BY <2>1, EventStep DEF IInv, Types
  <1>2. CASE Downgrade
    <2>1. Bounded(license')
      BY <1>2, EditedRows DEF Downgrade
    <2>2. UNCHANGED <<now, paid, aged, copy, event>>
      BY <1>2 DEF Downgrade, stripe
    <2> QED
      BY <2>1, <2>2 DEF IInv, Types, SentWhenPaid, Timely, CopiesBounded, Bounded, Limit
  <1> QED
    BY <1>1, <1>2 DEF ExpiryJob, CollectExpired, CollectNothing, CollectCancelled, DowngradeFails

\* A handler that fails drops its copy.
LEMMA FailStep == ASSUME IInv, NEW e \in Event, HandlerFails(e) PROVE IInv'
  <1>1. /\ copy' = [copy EXCEPT ![e] = NoCopy]
        /\ Bounded(license')
        /\ UNCHANGED <<now, paid, aged>>
        /\ e \in Event \union User
    BY DEF HandlerFails, stripe, IInv, Bounded
  <1>2. /\ event \in [Event -> EventState]
        /\ event[e] \in Working
        /\ event' = [event EXCEPT ![e] = "queued"]
    BY DEF HandlerFails, Goto, IInv, Types, Working
  <1>3. /\ event' \in [Event -> EventState]
        /\ \A f \in Event : event'[f] = "save" => event[f] = "save" /\ f # e
    BY <1>2 DEF EventState
  <1>4. \A k \in Invoice : \/ event'[<<"paid", k>>] = event[<<"paid", k>>]
                           \/ event[<<"paid", k>>] \in Working
    BY <1>2, Names
  <1> QED
    BY <1>1, <1>3, <1>4, DropStep

\* Every step keeps the invariant.
LEMMA StepInvariant ==
    ASSUME SubscriptionAssumption, IInv, [Next]_vars
    PROVE  IInv'
  <1>1. ASSUME NEW e \in Event, GiveUp(e) PROVE IInv'
    BY <1>1, GotoStep DEF GiveUp, stripe, Working
  <1>2. ASSUME NEW e \in Event, HandlerFails(e) PROVE IInv'
    BY <1>2, FailStep
  <1>3. ASSUME UNCHANGED vars PROVE IInv'
    <2>1. UNCHANGED <<now, paid, aged, license, copy, event>>
      BY <1>3 DEF vars, stripe
    <2> QED
      BY <2>1, EventStep DEF IInv, Types
  <1> QED
    BY <1>1, <1>2, <1>3, RenewStep, StripeStep, HandlerStep, UserReads, UserSaves, TickStep,
       JobStep DEF Next

\* handleInvoicePaid and every other writer of the licence, for any number of
\* invoices and any schedule of repeated, reordered and stale writes: the expiry
\* stays below the end of the period after the last one that was paid.
THEOREM NoExtraPeriod == Spec => []NeverAnExtraPeriod
  <1>1. Init => IInv
    BY InitInvariant, SubscriptionAssumption
  <1>2. IInv /\ [Next]_vars => IInv'
    BY StepInvariant, SubscriptionAssumption
  <1>3. IInv => NeverAnExtraPeriod
    BY DEF IInv, Bounded, Limit, NeverAnExtraPeriod
  <1> QED
    BY <1>1, <1>2, <1>3, PTL DEF Spec
-----------------------------------------------------------------------------
(* What was paid for is granted.  A renewal counts from an expiry or from  *)
(* now, and neither is before the start of the period of an invoice that   *)
(* does not find it covered; no other writer shortens the expiry of the    *)
(* row it read.  So only a Save over a row it has not read takes a period  *)
(* away.                                                                   *)

Granting == {"record", "done"}

Lengthens(c) == c.write.expiresAt >= c.read.expiresAt

\* An invoice is not paid before its period starts.
HasStarted(k) == now >= (k - 1) * Cycle
Covering(k) == license.expiresAt >= k * Cycle
Started == \A k \in Invoice : event[<<"paid", k>>] # "unsent" => HasStarted(k)

CopiesLengthen ==
    /\ \A p \in Event \union User : copy[p] # NoCopy => Lengthens(copy[p])
    /\ \A e \in Event : event[e] = "save" => Lengthens(copy[e])

\* The row that a handler of invoice.paid is about to save covers the invoice.
RenewalsCover ==
    \A k \in Invoice :
        event[<<"paid", k>>] = "save" => copy[<<"paid", k>>].write.expiresAt >= k * Cycle

Granted ==
    stale \/ /\ license.expiresAt >= Cycle
             /\ \A k \in Invoice :
                    event[<<"paid", k>>] \in Granting => license.expiresAt >= k * Cycle

GInv == Started /\ CopiesLengthen /\ RenewalsCover /\ Granted

\* Steps that save no copy: events move, copies are dropped.
LEMMA QuietGrant ==
    ASSUME SubscriptionAssumption, IInv, GInv,
           now' \in {now, now + 1}, stale' = stale, license'.expiresAt = license.expiresAt,
           \A p \in Event \union User : copy'[p] = copy[p] \/ copy'[p] = NoCopy,
           \A e \in Event : event'[e] = "save" => event[e] = "save" /\ copy'[e] = copy[e],
           \A k \in Invoice :
              /\ event'[<<"paid", k>>] # "unsent" =>
                    event[<<"paid", k>>] # "unsent" \/ HasStarted(k)
              /\ event'[<<"paid", k>>] \in Granting =>
                    event[<<"paid", k>>] \in Granting \/ k = 1 \/ Covering(k)
    PROVE  GInv'
  <1>1. now \in Nat /\ Cycle \in Nat /\ license.expiresAt \in Nat
    BY DEF IInv, Types, SubscriptionAssumption, Bounded, Row
  <1>2. \A k \in Invoice : (k - 1) * Cycle \in Int
    BY <1>1 DEF Invoice
  <1>3. Started'
    BY <1>1, <1>2 DEF GInv, Started, HasStarted
  <1>4. CopiesLengthen'
    BY DEF GInv, CopiesLengthen, Lengthens
  <1>5. RenewalsCover'
    BY Names DEF GInv, RenewalsCover
  <1>6. Granted'
    <2> SUFFICES ASSUME ~stale PROVE Granted'
      BY DEF Granted
    <2>1. license.expiresAt >= Cycle /\ 1 * Cycle = Cycle
      BY <1>1 DEF GInv, Granted
    <2> QED
      BY <2>1 DEF GInv, Granted, Covering
  <1> QED
    BY <1>3, <1>4, <1>5, <1>6 DEF GInv

\* A process reads the row, to save one that is not shorter.
LEMMA ReadGrant ==
    ASSUME SubscriptionAssumption, IInv, GInv, NEW p \in Event \union User, NEW row,
           ReadToSave(p, row), row.expiresAt >= license.expiresAt,
           \A k \in Invoice : p = <<"paid", k>> => row.expiresAt >= k * Cycle,
           UNCHANGED <<now, stale, license>>,
           \A e \in Event : event'[e] = "save" => event[e] = "save" \/ e = p,
           \A k \in Invoice :
              /\ event'[<<"paid", k>>] # "unsent" => event[<<"paid", k>>] # "unsent"
              /\ event'[<<"paid", k>>] \in Granting => event[<<"paid", k>>] \in Granting
    PROVE  GInv'
  <1>1. /\ copy'[p] = [read |-> license, write |-> row]
        /\ \A q \in Event \union User : q # p => copy'[q] = copy[q]
    BY DEF ReadToSave, IInv, Types
  <1>2. Started' /\ Granted'
    BY DEF GInv, Started, HasStarted, Granted
  <1>3. CopiesLengthen'
    BY <1>1 DEF GInv, CopiesLengthen, Lengthens
  <1>4. RenewalsCover'
    <2> SUFFICES ASSUME NEW k \in Invoice, event'[<<"paid", k>>] = "save"
                 PROVE  copy'[<<"paid", k>>].write.expiresAt >= k * Cycle
      BY DEF RenewalsCover
    <2>1. CASE p = <<"paid", k>>
      BY <1>1, <2>1
    <2>2. CASE p # <<"paid", k>>
      BY <1>1, <2>2, Names DEF GInv, RenewalsCover
    <2> QED
      BY <2>1, <2>2
  <1> QED
    BY <1>2, <1>3, <1>4 DEF GInv

\* A copy is saved.
LEMMA SaveGrant ==
    ASSUME SubscriptionAssumption, IInv, IInv', GInv, NEW p \in Event \union User, Save(p),
           Lengthens(copy[p]), now' = now,
           \A e \in Event : event'[e] = "save" => event[e] = "save" /\ e # p,
           \A k \in Invoice :
              /\ event'[<<"paid", k>>] # "unsent" => event[<<"paid", k>>] # "unsent"
              /\ event'[<<"paid", k>>] \in Granting =>
                    \/ event[<<"paid", k>>] \in Granting
                    \/ copy[p].write.expiresAt >= k * Cycle
    PROVE  GInv'
  <1>1. /\ copy'[p] = NoCopy
        /\ \A q \in Event \union User : q # p => copy'[q] = copy[q]
    BY DEF Save, IInv, Types
  <1>2. Started'
    BY DEF GInv, Started, HasStarted
  <1>3. CopiesLengthen'
    BY <1>1 DEF GInv, CopiesLengthen, Lengthens
  <1>4. RenewalsCover'
    BY <1>1, Names DEF GInv, RenewalsCover
  <1>5. Granted'
    <2> SUFFICES ASSUME ~stale' PROVE Granted'
      BY DEF Granted
    <2>1. ~stale /\ license' = copy[p].write /\ copy[p].read = license
      BY DEF Save
    <2>2. /\ license'.expiresAt >= license.expiresAt
          /\ license'.expiresAt \in Nat /\ license.expiresAt \in Nat
      BY <2>1 DEF Lengthens, IInv, Bounded, Row
    <2>3. Cycle \in Nat /\ \A k \in Invoice : k * Cycle \in Nat
      BY DEF SubscriptionAssumption, Invoice
    <2>4. license'.expiresAt >= Cycle
      BY <2>1, <2>2, <2>3 DEF GInv, Granted
    <2>5. \A k \in Invoice : event'[<<"paid", k>>] \in Granting => license'.expiresAt >= k * Cycle
      BY <2>1, <2>2, <2>3 DEF GInv, Granted
    <2> QED
      BY <2>4, <2>5 DEF Granted
  <1> QED
    BY <1>2, <1>3, <1>4, <1>5 DEF GInv

\* A row renewed by an invoice whose period has started covers the period.
LEMMA RenewalCovers ==
    ASSUME SubscriptionAssumption, IInv, GInv, NEW k \in Invoice,
           event[<<"paid", k>>] # "unsent"
    PROVE  /\ Renewed(license).expiresAt >= license.expiresAt
           /\ Renewed(license).expiresAt >= k * Cycle
  <1>1. now \in Nat /\ Cycle \in Nat /\ license \in Row /\ license.expiresAt \in Nat
    BY DEF IInv, Types, SubscriptionAssumption, Bounded, Row
  <1>2. now >= (k - 1) * Cycle
    BY DEF GInv, Started, HasStarted
  <1>3. k * Cycle \in Int /\ (k - 1) * Cycle \in Int /\ k * Cycle = (k - 1) * Cycle + Cycle
    <2>1. k \in Nat
      BY DEF Invoice
    <2> QED
      BY <1>1, <2>1
  <1>4. Renewed(license).expiresAt
            = (IF now > license.expiresAt THEN now ELSE license.expiresAt) + Cycle
    BY <1>1 DEF Renewed, Row
  <1> QED
    BY <1>1, <1>2, <1>3, <1>4

\* At first the first period is granted, and it has started.
LEMMA InitGrant == ASSUME SubscriptionAssumption, Init PROVE GInv
  <1>1. Cycle \in Nat /\ license.expiresAt = Cycle /\ now = 0 /\ 1 \in Invoice /\ (1 - 1) * Cycle = 0
    BY DEF SubscriptionAssumption, Init, Invoice
  <1>2. \A k \in Invoice : /\ event[<<"paid", k>>] # "unsent" => k = 1
                           /\ event[<<"paid", k>>] \in {"queued", "unsent"}
    BY Names DEF Init
  <1>3. Started
    BY <1>1, <1>2 DEF Started, HasStarted
  <1>4. CopiesLengthen /\ RenewalsCover
    BY <1>2 DEF Init, CopiesLengthen, RenewalsCover
  <1>5. Granted
    BY <1>1, <1>2 DEF Granted, Granting
  <1> QED
    BY <1>3, <1>4, <1>5 DEF GInv

\* An invoice is paid, in its period.
LEMMA RenewGrant ==
    ASSUME SubscriptionAssumption, IInv, GInv, NEW k \in Invoice, Renew(k)
    PROVE  GInv'
  <1>1. now' = now /\ stale' = stale /\ license' = license /\ copy' = copy
    BY DEF Renew
  <1>2. HasStarted(k)
    <2>1. /\ k \in Nat /\ paid \in Nat /\ now \in Nat /\ Cycle \in Nat /\ Dunning \in Nat
      BY DEF IInv, Types, Invoice, SubscriptionAssumption
    <2>2. k - 1 = paid /\ paid * Cycle \in Nat /\ now \in paid * Cycle .. paid * Cycle + Dunning
      BY <2>1 DEF Renew
    <2> QED
      BY <2>1, <2>2 DEF HasStarted
  <1>3. \A e \in Event : event'[e] = (IF e = <<"paid", k>> THEN "queued" ELSE event[e])
    BY DEF Renew, Send
  <1>4. \A j \in Invoice :
           /\ event'[<<"paid", j>>] # "unsent" => event[<<"paid", j>>] # "unsent" \/ HasStarted(j)
           /\ event'[<<"paid", j>>] \in Granting => event[<<"paid", j>>] \in Granting
    BY <1>2, <1>3, Names DEF Granting
  <1>5. \A e \in Event : event'[e] = "save" => event[e] = "save" /\ copy'[e] = copy[e]
    BY <1>1, <1>3
  <1> QED
    BY <1>1, <1>4, <1>5, QuietGrant

\* Stripe's other steps.
LEMMA StripeGrant ==
    ASSUME SubscriptionAssumption, IInv, GInv,
           \/ \E k \in Invoice : \/ PaymentFails(k) \/ ChargeTurns(k, "paid", "refunded")
                                 \/ ChargeTurns(k, "paid", "disputed")
                                 \/ ChargeTurns(k, "disputed", "won")
           \/ PortalEdits("active", "ending", "scheduled")
           \/ PortalEdits("ending", "active", "reactivated")
           \/ SubscriptionEnds
    PROVE  GInv'
  <1>1. UNCHANGED <<now, stale, license, copy>>
    BY DEF PaymentFails, ChargeTurns, PortalEdits, SubscriptionEnds
  <1>2. PICK e \in Event : Send({e}) /\ \A k \in Invoice : e # <<"paid", k>>
    BY Names DEF PaymentFails, ChargeTurns, PortalEdits, SubscriptionEnds
  <1>3. /\ \A f \in Event : event'[f] = "save" => event[f] = "save"
        /\ \A k \in Invoice : event'[<<"paid", k>>] = event[<<"paid", k>>]
    BY <1>2, Names DEF Send
  <1> QED
    BY <1>1, <1>3, QuietGrant

\* An event leaves the state it was in for one in which nothing is saved.
LEMMA GotoGrant ==
    ASSUME SubscriptionAssumption, IInv, GInv, NEW e \in Event, NEW to \in {"queued", "record", "done", "lost"},
           event[e] # "unsent", Goto(e, to),
           \A k \in Invoice : e = <<"paid", k>> /\ to \in Granting =>
              event[e] \in Granting \/ k = 1 \/ Covering(k),
           copy' = copy \/ copy' = [copy EXCEPT ![e] = NoCopy],
           UNCHANGED <<now, stale, license>>
    PROVE  GInv'
  <1>1. /\ event'[e] = to
        /\ \A f \in Event : f # e => event'[f] = event[f]
        /\ \A q \in Event \union User : q # e => copy'[q] = copy[q]
        /\ copy'[e] = copy[e] \/ copy'[e] = NoCopy
    BY DEF Goto, IInv, Types
  <1>2. \A f \in Event : event'[f] = "save" => event[f] = "save" /\ copy'[f] = copy[f]
    BY <1>1
  <1>3. \A p \in Event \union User : copy'[p] = copy[p] \/ copy'[p] = NoCopy
    BY <1>1
  <1>4. \A k \in Invoice :
              /\ event'[<<"paid", k>>] # "unsent" => event[<<"paid", k>>] # "unsent"
              /\ event'[<<"paid", k>>] \in Granting =>
                    event[<<"paid", k>>] \in Granting \/ k = 1 \/ Covering(k)
    BY <1>1, Names
  <1> QED
    BY <1>2, <1>3, <1>4, QuietGrant

\* A handler of another event than an invoice.paid that is about to save.
LEMMA GotoSaveGrant ==
    ASSUME SubscriptionAssumption, IInv, GInv, NEW e \in Event, NEW row,
           event[e] # "unsent", Goto(e, "save"), ReadToSave(e, row),
           row.expiresAt >= license.expiresAt,
           \A k \in Invoice : e = <<"paid", k>> => row.expiresAt >= k * Cycle,
           UNCHANGED <<now, stale, license>>
    PROVE  GInv'
  <1>1. /\ event'[e] = "save"
        /\ \A f \in Event : f # e => event'[f] = event[f]
    BY DEF Goto, IInv, Types
  <1>2. \A k \in Invoice :
              /\ event'[<<"paid", k>>] # "unsent" => event[<<"paid", k>>] # "unsent"
              /\ event'[<<"paid", k>>] \in Granting => event[<<"paid", k>>] \in Granting
    BY <1>1, Names DEF Granting
  <1> QED
    BY <1>1, <1>2, ReadGrant

\* The rows that the handlers and the users compute, but for the renewal.
LEMMA EditedLengths ==
    ASSUME IInv
    PROVE  /\ license.expiresAt \in Nat
           /\ Revoked(license).expiresAt = license.expiresAt
           /\ Restored(license).expiresAt = license.expiresAt
           /\ \A b : [license EXCEPT !.autoRenew = b].expiresAt = license.expiresAt
           /\ \A b : [license EXCEPT !.cancelled = b].expiresAt = license.expiresAt
           /\ \A t : [license EXCEPT !.tier = t].expiresAt = license.expiresAt
           /\ [license EXCEPT !.notified = TRUE].expiresAt = license.expiresAt
           /\ [license EXCEPT !.cancelled = TRUE, !.autoRenew = FALSE].expiresAt = license.expiresAt
           /\ [license EXCEPT !.tier = "free", !.autoRenew = FALSE].expiresAt = license.expiresAt
  <1>1. license \in Row
    BY DEF IInv, Bounded
  <1> QED
    BY <1>1 DEF Row, Revoked, Restored

\* The webhook handlers.
LEMMA HandlerGrant ==
    ASSUME SubscriptionAssumption, IInv, IInv', GInv, Handler
    PROVE  GInv'
  <1> USE Names
  <1>0. /\ license.expiresAt \in Nat /\ license.expiresAt >= license.expiresAt
        /\ "save" # "unsent" /\ "record" # "unsent" /\ "queued" # "unsent"
    BY EditedLengths
  <1>1. ASSUME NEW k \in Invoice, HandleInvoicePaid(k) PROVE GInv'
    <2> DEFINE e == <<"paid", k>>
    <2>1. e \in Event /\ event[e] # "unsent" /\ UNCHANGED <<now, stale, license>>
      BY <1>1 DEF HandleInvoicePaid, HandlerFrame, Delivered
    <2>2. CASE /\ k = 1 \/ Covers(license, k)
               /\ Goto(e, "record") /\ UNCHANGED copy
      <3>1. \A j \in Invoice : e = <<"paid", j>> => j = 1 \/ Covering(j)
        BY <2>2 DEF Covers, Covering
      <3> QED
        BY <2>1, <2>2, <3>1, GotoGrant
    <2>3. CASE ReadToSave(e, Renewed(license)) /\ Goto(e, "save")
      <3>1. /\ Renewed(license).expiresAt >= license.expiresAt
            /\ \A j \in Invoice : e = <<"paid", j>> => Renewed(license).expiresAt >= j * Cycle
        BY <2>1, RenewalCovers
      <3> QED
        BY <2>1, <2>3, <3>1, GotoSaveGrant
    <2> QED
      BY <1>1, <2>2, <2>3 DEF HandleInvoicePaid
  <1>2. ASSUME NEW e \in Event, \A k \in Invoice : e # <<"paid", k>>,
               NEW row, row.expiresAt = license.expiresAt, Delivered(e),
               \/ Goto(e, "done") /\ UNCHANGED copy
               \/ Goto(e, "save") /\ ReadToSave(e, row),
               UNCHANGED <<now, stale, license>>
        PROVE  GInv'
    <2>1. event[e] # "unsent" /\ row.expiresAt >= license.expiresAt
      BY <1>0, <1>2 DEF Delivered
    <2>2. CASE Goto(e, "done") /\ UNCHANGED copy
      BY <1>2, <2>1, <2>2, GotoGrant
    <2>3. CASE Goto(e, "save") /\ ReadToSave(e, row)
      BY <1>2, <2>1, <2>3, GotoSaveGrant
    <2> QED
      BY <1>2, <2>2, <2>3
  <1>3. ASSUME NEW k \in Invoice, HandleInvoicePaymentFailed(k) PROVE GInv'
    <2>1. /\ Delivered(<<"failed", k>>) /\ Goto(<<"failed", k>>, "save")
          /\ ReadToSave(<<"failed", k>>, [license EXCEPT !.autoRenew = FALSE])
          /\ UNCHANGED <<now, stale, license>>
      BY <1>3 DEF HandleInvoicePaymentFailed, HandlerFrame
    <2>2. /\ <<"failed", k>> \in Event /\ \A j \in Invoice : <<"failed", k>> # <<"paid", j>>
          /\ [license EXCEPT !.autoRenew = FALSE].expiresAt = license.expiresAt
      BY EditedLengths
    <2> QED
      BY <1>2, <2>1, <2>2
  <1>4. ASSUME NEW k \in Invoice, HandleInvoiceStatusChange(k) PROVE GInv'
    BY <1>4, QuietGrant DEF HandleInvoiceStatusChange
  <1>5. ASSUME NEW e \in Event, \A k \in Invoice : e # <<"paid", k>>,
               NEW row, row.expiresAt = license.expiresAt, ThroughInvoice(e, row)
        PROVE  GInv'
    BY <1>2, <1>5 DEF ThroughInvoice, HandlerFrame
  <1>6. ASSUME NEW k \in Invoice,
               HandleChargeRefunded(k) \/ HandleChargeDispute(k) \/ HandleDisputeWon(k)
        PROVE  GInv'
    BY <1>5, <1>6, EditedLengths DEF HandleChargeRefunded, HandleChargeDispute, HandleDisputeWon
  <1>7. ASSUME HandleSubscriptionDeleted PROVE GInv'
    BY <1>2, <1>7, EditedLengths DEF HandleSubscriptionDeleted, HandlerFrame
  <1>8. ASSUME NEW name \in {"scheduled", "reactivated"}, NEW renews \in BOOLEAN,
               HandleSubscriptionUpdated(name, renews)
        PROVE  GInv'
    BY <1>2, <1>8, EditedLengths DEF HandleSubscriptionUpdated, HandlerFrame
  <1>9. ASSUME NEW e \in Event, SaveHandled(e) PROVE GInv'
    <2>1. event[e] = "save" /\ Save(e) /\ now' = now /\ Lengthens(copy[e])
      BY <1>9 DEF SaveHandled, GInv, CopiesLengthen
    <2>2. /\ event'[e] \in {"record", "done"}
          /\ \A f \in Event : f # e => event'[f] = event[f]
      BY <1>9 DEF SaveHandled, Goto, IInv, Types
    <2>3. \A k \in Invoice : e = <<"paid", k>> => copy[e].write.expiresAt >= k * Cycle
      BY <2>1 DEF GInv, RenewalsCover
    <2>4. \A k \in Invoice :
              /\ event'[<<"paid", k>>] # "unsent" => event[<<"paid", k>>] # "unsent"
              /\ event'[<<"paid", k>>] \in Granting =>
                    \/ event[<<"paid", k>>] \in Granting
                    \/ copy[e].write.expiresAt >= k * Cycle
      BY <2>1, <2>2, <2>3
    <2> QED
      BY <2>1, <2>2, <2>4, SaveGrant
  <1>10. ASSUME NEW e \in Event, PersistInvoiceRecord(e) PROVE GInv'
    BY <1>10, GotoGrant DEF PersistInvoiceRecord, Granting
  <1> QED
    BY <1>1, <1>3, <1>4, <1>6, <1>7, <1>8, <1>9, <1>10 DEF Handler

\* Client, administrator and warning read the row, and save what they read.
LEMMA UserGrant ==
    ASSUME SubscriptionAssumption, IInv, IInv', GInv,
           \/ CancelSubscription \/ UpdateLicense \/ SendExpiryWarning
           \/ \E user \in User : SaveEdited(user)
    PROVE  GInv'
  <1> USE Names
  <1>1. CASE CancelSubscription \/ UpdateLicense \/ SendExpiryWarning
    <2>0. \E user \in User : \E row : ReadToSave(user, row) /\ row.expiresAt = license.expiresAt
      BY <1>1, EditedLengths DEF CancelSubscription, UpdateLicense, SendExpiryWarning, Reads
    <2>a. PICK user \in User :
                 \E row : ReadToSave(user, row) /\ row.expiresAt = license.expiresAt
      BY <2>0
    <2>1. PICK row : ReadToSave(user, row) /\ row.expiresAt = license.expiresAt
      BY <2>a
    <2>2. UNCHANGED <<now, stale, license>> /\ row.expiresAt >= license.expiresAt
      <3>1. UNCHANGED <<now, stale, license>>
        BY <1>1 DEF CancelSubscription, UpdateLicense, SendExpiryWarning, Reads
      <3>2. license.expiresAt \in Nat
        BY EditedLengths
      <3> QED
        BY <2>1, <3>1, <3>2
    <2>3. event' = event \/ Send({<<"scheduled", 1>>})
      BY <1>1 DEF CancelSubscription, UpdateLicense, SendExpiryWarning, Reads
    <2>4. /\ \A e \in Event : event'[e] = "save" => event[e] = "save"
          /\ \A k \in Invoice : event'[<<"paid", k>>] = event[<<"paid", k>>]
      <3>1. \A e \in Event : event'[e] = event[e] \/ (e = <<"scheduled", 1>> /\ event'[e] = "queued")
        BY <2>3 DEF Send
      <3> QED
        BY <3>1
    <2>5. \A k \in Invoice : user # <<"paid", k>>
      OBVIOUS
    <2> QED
      BY <2>1, <2>2, <2>4, <2>5, ReadGrant
  <1>2. ASSUME NEW user \in User, SaveEdited(user) PROVE GInv'
    <2>1. copy[user] # NoCopy /\ Save(user) /\ now' = now /\ event' = event
      BY <1>2 DEF SaveEdited
    <2>2. Lengthens(copy[user]) /\ \A e \in Event : e # user
      BY <2>1 DEF GInv, CopiesLengthen
    <2> QED
      BY <2>1, <2>2, SaveGrant
  <1> QED
    BY <1>1, <1>2

\* Every step keeps what was granted.
LEMMA StepGrant ==
    ASSUME SubscriptionAssumption, IInv, IInv', GInv, [Next]_vars
    PROVE  GInv'
  <1>1. ASSUME NEW e \in Event, GiveUp(e) PROVE GInv'
    BY <1>1, GotoGrant DEF GiveUp, Goto, Granting
  <1>2. ASSUME NEW e \in Event, HandlerFails(e) PROVE GInv'
    BY <1>2, GotoGrant DEF HandlerFails, Granting
  <1>3. ASSUME Tick PROVE GInv'
    <2>1. now' = now + 1 /\ UNCHANGED <<event, copy, license, stale>>
      BY <1>3 DEF Tick
    <2> QED
      BY <2>1, QuietGrant
  <1>4. ASSUME ExpiryJob \/ DowngradeFails PROVE GInv'
    <2>1. /\ UNCHANGED <<now, event, copy, stale>>
          /\ license'.expiresAt = license.expiresAt
      BY <1>4, EditedLengths DEF ExpiryJob, CollectExpired, CollectNothing, CollectCancelled,
                                 Downgrade, DowngradeFails
    <2> QED
      BY <2>1, QuietGrant
  <1>5. ASSUME UNCHANGED vars PROVE GInv'
    BY <1>5, QuietGrant DEF vars
  <1> QED
    BY <1>1, <1>2, <1>3, <1>4, <1>5, RenewGrant, StripeGrant, HandlerGrant, UserGrant DEF Next

\* handleInvoicePaid with the check of what is covered, and every writer that
\* saves a whole row: once the event of an invoice is handled its period is in
\* the expiry, unless a Save has replaced a row that it had not read.
THEOREM PeriodGranted == Spec => []PaidPeriodGranted
  <1>1. Init => IInv /\ GInv
    BY InitInvariant, InitGrant, SubscriptionAssumption
  <1>2. IInv /\ GInv /\ [Next]_vars => IInv' /\ GInv'
    BY StepInvariant, StepGrant, SubscriptionAssumption
  <1>3. GInv => PaidPeriodGranted
    BY DEF GInv, Granted, Granting, PaidPeriodGranted
  <1> QED
    BY <1>1, <1>2, <1>3, PTL DEF Spec
=============================================================================
