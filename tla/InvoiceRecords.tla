--------------------------- MODULE InvoiceRecords ---------------------------
(***************************************************************************)
(* The row that the webhook handlers keep of one Stripe invoice, through   *)
(* which a refund of its payment finds the licence, and the audit that     *)
(* deletes the rows of other products.  A handler reads the row, then      *)
(* creates it or saves all of its columns; a database that fails either is *)
(* only logged, and the event is acknowledged all the same.                *)
(***************************************************************************)
EXTENDS Naturals, FiniteSets

CONSTANTS
    Foreign,      \* rows of other products on the same Stripe account
    Audit,        \* concurrent runs of the audit
    NoRow

InvoiceRecordsAssumption ==
    /\ NoRow \notin Foreign
    /\ NoRow \notin [status : {"open", "paid"}, license : BOOLEAN, pi : BOOLEAN]

VARIABLES
    license,      \* the licence of the subscription exists
    row,          \* the row of our invoice
    event,        \* the events of our invoice
    read,         \* what the handler of an event read before it writes
    raced,        \* history: a save overwrote a row other than the one it read
    recorded,     \* history: a write of the paid event has succeeded
    foreign,      \* the other rows that are left
    pc, found, verdict   \* audits: the rows loaded, what was found of each

vars == <<license, row, event, read, raced, recorded, foreign, pc, found, verdict>>
records == <<license, row, event, read, raced, recorded>>
audit == <<pc, found, verdict>>

Event == {"finalized", "paid", "failed"}
\* license and pi: whether license_id and stripe_payment_intent_id are set;
\* stripe_subscription_id always is.
Row == [status : {"open", "paid"}, license : BOOLEAN, pi : BOOLEAN]
Ours == "ours"

Init ==
    /\ license \in BOOLEAN /\ row = NoRow
    /\ event = [e \in Event |-> "queued"] /\ read = [e \in Event |-> NoRow]
    /\ raced = FALSE /\ recorded = FALSE /\ foreign = Foreign
    /\ pc = [a \in Audit |-> "idle"]
    /\ found = [a \in Audit |-> {}]
    /\ verdict = [a \in Audit |-> {}]

FindOrCreateLicense ==
    /\ ~license /\ license' = TRUE
    /\ UNCHANGED <<row, event, read, raced, recorded, foreign, audit>>

-----------------------------------------------------------------------------
(* The handlers.                                                           *)

\* Paid and failed are only for a known licence: without one the event is
\* acknowledged, and with a failed lookup it is delivered again.
SkipUnlicensed(e) ==
    /\ event[e] = "queued" /\ e # "finalized" /\ ~license
    /\ event' = [event EXCEPT ![e] = "done"]
    /\ UNCHANGED <<license, row, read, raced, recorded, foreign, audit>>

\* Finalized takes a failed lookup of the licence for a missing one, and every
\* handler a failed lookup of the row.
ReadRecord(e) ==
    /\ event[e] = "queued" /\ (e = "finalized" \/ license)
    /\ \/ license /\ event' = [event EXCEPT ![e] = "linked"]
       \/ e = "finalized" /\ event' = [event EXCEPT ![e] = "orphan"]
    /\ read' \in {[read EXCEPT ![e] = row], [read EXCEPT ![e] = NoRow]}
    /\ UNCHANGED <<license, row, raced, recorded, foreign, audit>>

\* An update that takes the payment intent of the event, an empty one too.
Overwritten(e, pi) ==
    LET status == IF e = "paid" THEN "paid" ELSE "open" IN
    IF read[e] = NoRow
    THEN [status |-> status, license |-> event[e] = "linked", pi |-> pi]
    ELSE [read[e] EXCEPT !.status = status, !.pi = pi]

\* An update takes the status of the event and adds a payment intent, but
\* leaves license_id as it is.
Upserted(e, pi) ==
    LET status == IF e = "paid" THEN "paid" ELSE "open" IN
    IF read[e] = NoRow
    THEN [status |-> status, license |-> event[e] = "linked", pi |-> pi]
    ELSE [read[e] EXCEPT !.status = status, !.pi = @ \/ pi]

\* What is read as missing is created, which the unique index fails if there
\* is a row; anything else is saved over whatever the row is by now.
WriteRecord(e) ==
    /\ read[e] # NoRow \/ row = NoRow
    /\ \E pi \in IF e = "paid" THEN {TRUE} ELSE BOOLEAN : row' = Upserted(e, pi)
    /\ raced' = (raced \/ row # read[e])
    /\ recorded' = (recorded \/ e = "paid")

\* A paid invoice has its payment intent, others may.  The write may fail: that
\* is logged, and the event is done.
PersistInvoiceRecord(e) ==
    /\ event[e] \in {"linked", "orphan"}
    /\ WriteRecord(e) \/ UNCHANGED <<row, raced, recorded>>
    /\ event' = [event EXCEPT ![e] = "done"] /\ read' = [read EXCEPT ![e] = NoRow]
    /\ UNCHANGED <<license, foreign, audit>>

\* The handler died, or its event could not be marked as completed: the stale
\* claim is taken over and the event is handled again from the start.
Redeliver(e) ==
    /\ event[e] # "queued"
    /\ event' = [event EXCEPT ![e] = "queued"] /\ read' = [read EXCEPT ![e] = NoRow]
    /\ UNCHANGED <<license, row, raced, recorded, foreign, audit>>

-----------------------------------------------------------------------------
(* AuditInvoices.                                                          *)

LoadInvoices(a) ==
    /\ pc[a] = "idle"
    /\ found' = [found EXCEPT ![a] = foreign \union (IF row = NoRow THEN {} ELSE {Ours})]
    /\ verdict' = [verdict EXCEPT ![a] = {}]
    /\ pc' = [pc EXCEPT ![a] = "classify"]
    /\ UNCHANGED <<records, foreign>>

\* An audit that takes a row it could not look up for a foreign one.
ClassifyMissing(a) ==
    /\ pc[a] = "classify" /\ found[a] # {}
    /\ \E i \in found[a] :
          /\ found' = [found EXCEPT ![a] = @ \ {i}]
          /\ verdict' = [verdict EXCEPT ![a] = @ \union {i}]
    /\ UNCHANGED <<records, foreign, pc>>

\* A row whose price is not one of ours is FOREIGN.  Stripe may fail, or not
\* know the invoice: such a row is left alone.
Classify(a) ==
    /\ pc[a] = "classify" /\ found[a] # {}
    /\ \E i \in found[a] :
          /\ found' = [found EXCEPT ![a] = @ \ {i}]
          /\ \/ i # Ours /\ verdict' = [verdict EXCEPT ![a] = @ \union {i}]
             \/ UNCHANGED verdict
    /\ UNCHANGED <<records, foreign, pc>>

\* One transaction, rolled back unless it deletes as many rows as it named.
DeleteForeign(a) ==
    /\ pc[a] = "classify" /\ found[a] = {}
    /\ pc' = [pc EXCEPT ![a] = "idle"] /\ verdict' = [verdict EXCEPT ![a] = {}]
    /\ LET rows == foreign \union (IF row = NoRow THEN {} ELSE {Ours}) IN
       IF verdict[a] \subseteq rows
       THEN /\ foreign' = foreign \ verdict[a]
            /\ row' = IF Ours \in verdict[a] THEN NoRow ELSE row
       ELSE UNCHANGED <<foreign, row>>
    /\ UNCHANGED <<license, event, read, raced, recorded, found>>

Next ==
    \/ FindOrCreateLicense
    \/ \E e \in Event :
          SkipUnlicensed(e) \/ ReadRecord(e) \/ PersistInvoiceRecord(e) \/ Redeliver(e)
    \/ \E a \in Audit : LoadInvoices(a) \/ Classify(a) \/ DeleteForeign(a)

Spec == Init /\ [][Next]_vars

-----------------------------------------------------------------------------

\* Every variable has its type.
TypeOK ==
    /\ {license, raced, recorded} \subseteq BOOLEAN
    /\ row \in Row \union {NoRow}
    /\ event \in [Event -> {"queued", "linked", "orphan", "done"}]
    /\ read \in [Event -> Row \union {NoRow}]
    /\ foreign \subseteq Foreign
    /\ pc \in [Audit -> {"idle", "classify"}]
    /\ found \in [Audit -> SUBSET (Foreign \union {Ours})]
    /\ verdict \in [Audit -> SUBSET (Foreign \union {Ours})]

\* RevokeLicenseByInvoicePaymentIntent: by the payment intent, then by
\* license_id or by the subscription.
Resolves == row # NoRow /\ row.pi /\ (row.license \/ license)

\* Once the row of a paid invoice was written a refund of its payment finds the
\* licence, whatever other events of the invoice come after, fail to read or to
\* write the row or are handled again, unless two handlers wrote it at the same
\* time.  A paid event that came before its licence, or whose write failed, is
\* acknowledged without the row: nothing is claimed of its refund.
RefundFindsLicense == recorded => raced \/ Resolves
=============================================================================
