---------------------------- MODULE WebhookInbox ----------------------------
(***************************************************************************)
(* Deduplication of one Stripe event: StripeWebhook of                     *)
(* premium/handler/webhook_handler.go over the webhook_events row that     *)
(* MarkProcessing, MarkCompleted and MarkFailed of                         *)
(* premium/repository/webhook_event_repository.go keep.  Every delivery of *)
(* the event is a request of its own, on any of the API processes; Stripe  *)
(* repeats a delivery that was not answered with 2xx, and may send two at  *)
(* once.  Events are independent, so one event stands for all.             *)
(***************************************************************************)
EXTENDS Naturals

CONSTANTS
    Nobody,       \* no delivery: the holder before the first claim
    Deliveries,   \* request slots of the event; a slot is used again on a retry
    MaxFailures   \* bound: crashes, database errors and failed handler runs

ASSUME WebhookAssumption ==
    /\ Nobody \notin Deliveries
    /\ MaxFailures \in Nat

VARIABLES
    status,    \* status of the row; "absent" before it exists
    fresh,     \* created_at is less than 5 minutes ago
    holder,    \* delivery whose claim wrote created_at (not in the code)
    pc,        \* program point of each delivery
    handled,   \* successful runs of the handler
    overrun,   \* a handler has run longer than the 5 minutes of
               \* staleProcessingThreshold (not in the code)
    failures   \* bounded count of what went wrong

row == <<status, fresh, holder>>
vars == <<row, pc, handled, overrun, failures>>

Status == {"absent", "processing", "processed", "failed"}
Claimed == {"Handle", "MarkCompleted", "MarkFailed"}
InProgress == {"Insert", "Lock", "Respond"} \union Claimed
Answered == {"Acked", "Refused"}

Init ==
    /\ status = "absent" /\ fresh = FALSE /\ holder = Nobody
    /\ pc = [d \in Deliveries |-> "Unsent"]
    /\ handled = 0 /\ overrun = FALSE
    /\ failures = 0

Goto(d, from, to) == pc[d] = from /\ pc' = [pc EXCEPT ![d] = to]
CanFail == failures < MaxFailures /\ failures' = failures + 1

\* The row becomes d's claim.
Claim(d) ==
    /\ status' = "processing"
    /\ fresh' = TRUE
    /\ holder' = d

-----------------------------------------------------------------------------
(* Stripe and time. *)

\* Stripe sends the event, or sends it again after anything but a 2xx.
Deliver(d) ==
    /\ pc[d] \in {"Unsent", "Refused"}
    /\ pc' = [pc EXCEPT ![d] = "Insert"]
    /\ UNCHANGED <<row, handled, overrun, failures>>

\* Five minutes pass since the last claim.
ClaimExpires ==
    /\ fresh /\ fresh' = FALSE
    /\ overrun' = (overrun \/ \E d \in Deliveries : pc[d] \in Claimed)
    /\ UNCHANGED <<status, holder, pc, handled, failures>>

\* A refused request is dropped: no state of its own for it.
CrashUnanswered(d) ==
    /\ CanFail
    /\ pc[d] \in InProgress
    /\ pc' = [pc EXCEPT ![d] = "Lost"]
    /\ UNCHANGED <<row, handled, overrun>>

\* The process dies, or the answer does not reach Stripe.
Crash(d) ==
    /\ CanFail
    /\ pc[d] \in InProgress
    /\ pc' = [pc EXCEPT ![d] = "Refused"]
    /\ UNCHANGED <<row, handled, overrun>>

-----------------------------------------------------------------------------
(* MarkProcessing. *)

\* The INSERT of a new row claims the event; a duplicate key goes on to the
\* transaction; any other database error is answered with 500.
InsertRow(d) ==
    \/ /\ status = "absent"
       /\ Goto(d, "Insert", "Handle")
       /\ Claim(d)
       /\ UNCHANGED <<handled, overrun, failures>>
    \/ /\ status # "absent"
       /\ Goto(d, "Insert", "Lock")
       /\ UNCHANGED <<row, handled, overrun, failures>>
    \/ /\ CanFail
       /\ Goto(d, "Insert", "Refused")
       /\ UNCHANGED <<row, handled, overrun>>

Skip(d) ==
    /\ status = "processed"
    /\ Goto(d, "Lock", "Respond")
    /\ UNCHANGED <<row, handled, overrun, failures>>

\* A fresh claim of another worker: 409.
Retry(d) ==
    /\ status = "processing" /\ fresh
    /\ Goto(d, "Lock", "Refused")
    /\ UNCHANGED <<row, handled, overrun, failures>>

\* Only a failed event is reclaimed.
ReclaimFailedOnly(d) ==
    /\ status = "failed"
    /\ Goto(d, "Lock", "Handle")
    /\ Claim(d)
    /\ UNCHANGED <<handled, overrun, failures>>

\* The freshness of a claim is not looked at.
ReclaimAny(d) ==
    /\ status \in {"failed", "processing"}
    /\ Goto(d, "Lock", "Handle")
    /\ Claim(d)
    /\ UNCHANGED <<handled, overrun, failures>>

\* A failed event or a stale claim.
Reclaim(d) ==
    /\ status = "failed" \/ (status = "processing" /\ ~fresh)
    /\ Goto(d, "Lock", "Handle")
    /\ Claim(d)
    /\ UNCHANGED <<handled, overrun, failures>>

\* The transaction holds the row lock from its read to its commit.
LockRow(d) ==
    \/ Skip(d) \/ Retry(d) \/ Reclaim(d)
    \/ CanFail /\ Goto(d, "Lock", "Refused") /\ UNCHANGED <<row, handled, overrun>>

-----------------------------------------------------------------------------
(* The rest of StripeWebhook. *)

RunHandler(d) ==
    \/ /\ Goto(d, "Handle", "MarkCompleted")
       /\ handled' = handled + 1
       /\ UNCHANGED <<row, overrun, failures>>
    \/ /\ CanFail
       /\ Goto(d, "Handle", "MarkFailed")
       /\ UNCHANGED <<row, handled, overrun>>

\* The row of the event is also marked processed when its handler failed.
MarkFailedAsProcessed(d) ==
    /\ Goto(d, "MarkFailed", "Refused")
    /\ status' = "processed"
    /\ UNCHANGED <<fresh, holder, handled, overrun, failures>>

\* Updates the row by event id alone; an error of the update is only logged.
MarkCompleted(d) ==
    /\ Goto(d, "MarkCompleted", "Respond")
    /\ \/ status' = "processed" /\ UNCHANGED failures
       \/ CanFail /\ UNCHANGED status
    /\ UNCHANGED <<fresh, holder, handled, overrun>>

\* Updates the row by event id alone and answers 500.
MarkFailed(d) ==
    /\ Goto(d, "MarkFailed", "Refused")
    /\ \/ status' = "failed" /\ UNCHANGED failures
       \/ CanFail /\ UNCHANGED status
    /\ UNCHANGED <<fresh, holder, handled, overrun>>

Respond(d) ==
    /\ Goto(d, "Respond", "Acked")
    /\ UNCHANGED <<row, handled, overrun, failures>>

StripeWebhook(d) ==
    \/ InsertRow(d) \/ LockRow(d) \/ RunHandler(d)
    \/ MarkCompleted(d) \/ MarkFailed(d) \/ Respond(d)

Next ==
    \/ \E d \in Deliveries : Deliver(d) \/ StripeWebhook(d) \/ Crash(d)
    \/ ClaimExpires

Spec == Init /\ [][Next]_vars

\* Stripe repeats refused deliveries for three days, requests run to their
\* end, and time passes.
FairSpec ==
    /\ Spec
    /\ WF_vars(ClaimExpires)
    /\ \A d \in Deliveries : WF_vars(Deliver(d)) /\ WF_vars(StripeWebhook(d))

-----------------------------------------------------------------------------

TypeOK ==
    /\ status \in Status /\ fresh \in BOOLEAN
    /\ holder \in Deliveries \union {Nobody}
    /\ pc \in [Deliveries -> {"Unsent"} \union InProgress \union Answered]
    /\ handled \in Nat /\ overrun \in BOOLEAN /\ failures \in 0 .. MaxFailures

\* Until a handler overruns its five minutes, two deliveries of the event never
\* run its handler at the same time, across processes, crashes and reclaims.
OneHandlerAtATime ==
    ~overrun => \A d, e \in Deliveries :
                    pc[d] \in Claimed /\ pc[e] \in Claimed => d = e

\* Until a handler overruns its five minutes, a processed event stays
\* processed: no late worker opens it again.
ProcessedIsPermanent ==
    [][~overrun => (status = "processed" => status' = "processed")]_vars

\* The inbox keeps the promise of AtLeastOnce: no delivery is acknowledged
\* before a handler run succeeded, so a crash never loses the event.
Promise == INSTANCE AtLeastOnce
              WITH acked <- \E d \in Deliveries : pc[d] = "Acked"

PromiseKept == Promise!Spec

\* Every delivery is acknowledged in the end, whatever crashed on the way.
EveryDeliveryAcked == \A d \in Deliveries : <>(pc[d] = "Acked")
=============================================================================
