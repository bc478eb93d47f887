------------------------- MODULE WebhookInboxProofs -------------------------
(* Proofs about WebhookInbox for any set of deliveries and any number of     *)
(* failures: typing, one handler at a time, permanence, refinement.          *)
EXTENDS WebhookInbox, TLAPS

\* Who runs the handler owns the row: it holds the last claim, still fresh.
ClaimInv ==
    ~overrun => \A d \in Deliveries :
                    pc[d] \in Claimed => status = "processing" /\ fresh /\ holder = d

\* What tells that a handler run succeeded.
Evidence(p) == p \in {"MarkCompleted", "Respond", "Acked"}

HandledInv ==
    /\ status = "processed" => handled > 0
    /\ \A d \in Deliveries : Evidence(pc[d]) => handled > 0

IInv == TypeOK /\ ClaimInv /\ HandledInv

-----------------------------------------------------------------------------

LEMMA InitIInv == Init => IInv
<1> SUFFICES ASSUME Init PROVE IInv
  OBVIOUS
<1>1. TypeOK
  <2>1. pc \in [Deliveries -> {"Unsent"} \union InProgress \union Answered]
    BY DEF Init
  <2>2. handled \in Nat /\ failures \in 0 .. MaxFailures
    BY WebhookAssumption DEF Init
  <2>3. status \in Status /\ {fresh, overrun} \subseteq BOOLEAN /\ holder \in Deliveries \union {Nobody}
    BY DEF Init, Status
  <2> QED
    BY <2>1, <2>2, <2>3 DEF TypeOK
<1>2. ClaimInv /\ HandledInv
  BY DEF Init, ClaimInv, HandledInv, Evidence, Claimed
<1> QED
  BY <1>1, <1>2 DEF IInv

\* A claim, and a counted failure, keep the types of what they change.
LEMMA ClaimTypes ==
    ASSUME TypeOK, NEW d \in Deliveries, Claim(d)
    PROVE  status' \in Status /\ fresh' \in BOOLEAN /\ holder' \in Deliveries \union {Nobody}
BY DEF Claim, Status

LEMMA CanFailTypes == TypeOK /\ CanFail => failures' \in 0 .. MaxFailures
BY WebhookAssumption DEF TypeOK, CanFail

LEMMA StepTypeOK == TypeOK /\ [Next]_vars => TypeOK'
<1> SUFFICES ASSUME TypeOK, [Next]_vars PROVE TypeOK'
  OBVIOUS
<1> USE DEF TypeOK
<1>1. ASSUME NEW d \in Deliveries, Deliver(d) PROVE TypeOK'
  BY <1>1 DEF Deliver, row, InProgress
<1>2. ASSUME NEW d \in Deliveries, StripeWebhook(d) PROVE TypeOK'
  <2> USE DEF Goto, Claim, CanFail, row, InProgress, Claimed, Answered, Status
  <2>a. pc' \in [Deliveries -> {"Unsent"} \union InProgress \union Answered]
    BY <1>2 DEF StripeWebhook, InsertRow, LockRow, Skip, Retry, Reclaim, RunHandler,
                MarkCompleted, MarkFailed, Respond
  <2> HIDE DEF Claim, CanFail, Goto
  <2>1. CASE InsertRow(d)
    BY <2>1, <2>a, ClaimTypes, CanFailTypes DEF InsertRow
  <2>2. CASE LockRow(d)
    BY <2>2, <2>a, ClaimTypes, CanFailTypes DEF LockRow, Skip, Retry, Reclaim
  <2>3. CASE RunHandler(d)
    BY <2>3, <2>a, CanFailTypes DEF RunHandler
  <2>4. CASE MarkCompleted(d)
    BY <2>4, <2>a, CanFailTypes DEF MarkCompleted
  <2>5. CASE MarkFailed(d)
    BY <2>5, <2>a, CanFailTypes DEF MarkFailed
  <2>6. CASE Respond(d)
    BY <2>6, <2>a DEF Respond
  <2> QED
    BY <1>2, <2>1, <2>2, <2>3, <2>4, <2>5, <2>6 DEF StripeWebhook
<1>3. ASSUME NEW d \in Deliveries, Crash(d) PROVE TypeOK'
  BY <1>3, WebhookAssumption DEF Crash, CanFail, row, Answered
<1>4. CASE ClaimExpires
  BY <1>4 DEF ClaimExpires
<1>5. CASE UNCHANGED vars
  BY <1>5 DEF vars, row
<1> QED
  BY <1>1, <1>2, <1>3, <1>4, <1>5 DEF Next

LEMMA StepClaimInv == TypeOK /\ ClaimInv /\ [Next]_vars => ClaimInv'
<1> SUFFICES ASSUME TypeOK, ClaimInv, [Next]_vars, ~overrun' PROVE ClaimInv'
  BY DEF ClaimInv
<1> USE DEF TypeOK, ClaimInv, Claimed, InProgress
<1>1. ASSUME NEW d \in Deliveries, Deliver(d) PROVE ClaimInv'
  BY <1>1 DEF Deliver, row
<1>2. ASSUME NEW d \in Deliveries, StripeWebhook(d) PROVE ClaimInv'
  <2> USE DEF Goto, Claim, row
  <2>1. CASE InsertRow(d)
    BY <2>1 DEF InsertRow
  <2>2. CASE LockRow(d)
    BY <2>2 DEF LockRow, Skip, Retry, Reclaim
  <2>3. CASE RunHandler(d)
    BY <2>3 DEF RunHandler
  <2>4. CASE MarkCompleted(d)
    BY <2>4 DEF MarkCompleted
  <2>5. CASE MarkFailed(d)
    BY <2>5 DEF MarkFailed
  <2>6. CASE Respond(d)
    BY <2>6 DEF Respond
  <2> QED
    BY <1>2, <2>1, <2>2, <2>3, <2>4, <2>5, <2>6 DEF StripeWebhook
<1>3. ASSUME NEW d \in Deliveries, Crash(d) PROVE ClaimInv'
  BY <1>3 DEF Crash, row
<1>4. CASE ClaimExpires
  BY <1>4 DEF ClaimExpires
<1>5. CASE UNCHANGED vars
  BY <1>5 DEF vars, row
<1> QED
  BY <1>1, <1>2, <1>3, <1>4, <1>5 DEF Next

LEMMA StepHandledInv == TypeOK /\ HandledInv /\ [Next]_vars => HandledInv'
<1> SUFFICES ASSUME TypeOK, HandledInv, [Next]_vars PROVE HandledInv'
  OBVIOUS
<1> USE DEF TypeOK, HandledInv, Evidence
<1>1. ASSUME NEW d \in Deliveries, Deliver(d) PROVE HandledInv'
  BY <1>1 DEF Deliver, row
<1>2. ASSUME NEW d \in Deliveries, StripeWebhook(d) PROVE HandledInv'
  <2> USE DEF Goto, Claim, row
  <2>1. CASE InsertRow(d)
    BY <2>1 DEF InsertRow
  <2>2. CASE LockRow(d)
    BY <2>2 DEF LockRow, Skip, Retry, Reclaim
  <2>3. CASE RunHandler(d)
    BY <2>3 DEF RunHandler
  <2>4. CASE MarkCompleted(d)
    BY <2>4 DEF MarkCompleted
  <2>5. CASE MarkFailed(d)
    BY <2>5 DEF MarkFailed
  <2>6. CASE Respond(d)
    BY <2>6 DEF Respond
  <2> QED
    BY <1>2, <2>1, <2>2, <2>3, <2>4, <2>5, <2>6 DEF StripeWebhook
<1>3. ASSUME NEW d \in Deliveries, Crash(d) PROVE HandledInv'
  BY <1>3 DEF Crash, row
<1>4. CASE ClaimExpires
  BY <1>4 DEF ClaimExpires
<1>5. CASE UNCHANGED vars
  BY <1>5 DEF vars, row
<1> QED
  BY <1>1, <1>2, <1>3, <1>4, <1>5 DEF Next

LEMMA Always == Spec => []IInv
<1>1. IInv /\ [Next]_vars => IInv'
  BY StepTypeOK, StepClaimInv, StepHandledInv DEF IInv
<1> QED
  BY <1>1, InitIInv, PTL DEF Spec

-----------------------------------------------------------------------------

\* The rows and program points of the inbox have their types.
THEOREM TypeCorrect == Spec => []TypeOK
<1>1. IInv => TypeOK
  BY DEF IInv
<1> QED
  BY <1>1, Always, PTL

\* Until a handler overruns five minutes, no two run for the same event.
THEOREM OneHandler == Spec => []OneHandlerAtATime
<1>1. IInv => OneHandlerAtATime
  BY DEF IInv, ClaimInv, OneHandlerAtATime
<1> QED
  BY <1>1, Always, PTL

\* Until a handler overruns five minutes, a processed event stays processed.
THEOREM Permanence == Spec => ProcessedIsPermanent
<1>1. IInv /\ [Next]_vars =>
         [~overrun => (status = "processed" => status' = "processed")]_vars
  <2> SUFFICES ASSUME IInv, [Next]_vars, ~overrun, status = "processed"
               PROVE  status' = "processed"
    OBVIOUS
  <2>1. \A d \in Deliveries : pc[d] \notin Claimed
    BY DEF IInv, ClaimInv
  <2> USE DEF Goto, row, vars, Claimed
  <2>2. ASSUME NEW d \in Deliveries, StripeWebhook(d) PROVE status' = "processed"
    BY <2>1, <2>2 DEF StripeWebhook, InsertRow, LockRow, Skip, Retry, Reclaim,
                      RunHandler, MarkCompleted, MarkFailed, Respond
  <2> QED
    BY <2>2 DEF Next, Deliver, Crash, ClaimExpires
<1> QED
  BY <1>1, Always, PTL DEF Spec, ProcessedIsPermanent

\* The inbox implements AtLeastOnce: an event is acknowledged only after a
\* successful handler run, whatever crashes, repeats and stale claims there are.
THEOREM InboxKeepsPromise == Spec => PromiseKept
<1> DEFINE acked == \E d \in Deliveries : pc[d] = "Acked"
<1>1. Init => Promise!Init
  BY DEF Init, Promise!Init
<1>2. IInv /\ [Next]_vars => [Promise!Next]_(Promise!vars)
  <2> SUFFICES ASSUME IInv, [Next]_vars PROVE [Promise!Next]_(Promise!vars)
    OBVIOUS
  <2> USE DEF Promise!Next, Promise!vars, Promise!Handle, Promise!Acknowledge,
              IInv, TypeOK
  <2>1. ASSUME NEW d \in Deliveries, Respond(d) PROVE Promise!Acknowledge
    <3>1. handled > 0
      BY <2>1 DEF HandledInv, Evidence, Respond, Goto
    <3>2. pc'[d] = "Acked" /\ handled' = handled
      BY <2>1 DEF Respond, Goto
    <3> QED
      BY <3>1, <3>2
  <2>2. ASSUME pc' = pc, handled' = handled PROVE UNCHANGED Promise!vars
    BY <2>2
  <2>3. ASSUME NEW d \in Deliveries, NEW from, NEW to, Goto(d, from, to),
               from # "Acked", to # "Acked"
        PROVE  acked' = acked
    <3>1. pc'[d] # "Acked" /\ pc[d] # "Acked"
      BY <2>3 DEF Goto
    <3>2. \A e \in Deliveries : e # d => pc'[e] = pc[e]
      BY <2>3 DEF Goto
    <3> QED
      BY <3>1, <3>2
  <2>4. ASSUME NEW d \in Deliveries, Deliver(d)
        PROVE  UNCHANGED Promise!vars
    <3>1. PICK from \in {"Unsent", "Refused"} : Goto(d, from, "Insert")
      BY <2>4 DEF Deliver, Goto
    <3> QED
      BY <3>1, <2>3, <2>4 DEF Deliver
  <2>5. ASSUME NEW d \in Deliveries, Crash(d)
        PROVE  UNCHANGED Promise!vars
    <3>1. PICK from \in InProgress : Goto(d, from, "Refused")
      BY <2>5 DEF Crash, Goto
    <3> QED
      BY <3>1, <2>3, <2>5 DEF Crash, InProgress, Claimed
  <2>6. ASSUME NEW d \in Deliveries, InsertRow(d) \/ LockRow(d) \/ MarkCompleted(d) \/ MarkFailed(d)
        PROVE  UNCHANGED Promise!vars
    <3>1. handled' = handled
      BY <2>6 DEF InsertRow, LockRow, Skip, Retry, Reclaim, MarkCompleted, MarkFailed
    <3>2. \E from, to \in InProgress \union {"Refused"} :
              from # "Acked" /\ to # "Acked" /\ Goto(d, from, to)
      BY <2>6 DEF InsertRow, LockRow, Skip, Retry, Reclaim, MarkCompleted, MarkFailed,
                  InProgress, Claimed
    <3> QED
      BY <3>1, <3>2, <2>3
  <2>7. ASSUME NEW d \in Deliveries, RunHandler(d)
        PROVE  Promise!Handle \/ UNCHANGED Promise!vars
    <3>1. PICK to \in {"MarkCompleted", "MarkFailed"} : Goto(d, "Handle", to)
      BY <2>7 DEF RunHandler
    <3>2. acked' = acked
      BY <3>1, <2>3
    <3> QED
      BY <3>2, <2>7 DEF RunHandler
  <2> QED
    BY <2>1, <2>2, <2>4, <2>5, <2>6, <2>7
       DEF Next, StripeWebhook, ClaimExpires, vars
<1> QED
  BY <1>1, <1>2, Always, PTL DEF Spec, PromiseKept, Promise!Spec
=============================================================================
