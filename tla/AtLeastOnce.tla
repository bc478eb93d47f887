---------------------------- MODULE AtLeastOnce ----------------------------
(* What the webhook inbox promises the payment provider about one event:    *)
(* it is acknowledged only after its handler has succeeded at least once,   *)
(* and an acknowledgement is never taken back.                              *)
EXTENDS Naturals

VARIABLES
    handled,  \* successful runs of the event's handler
    acked     \* the provider has been told that the event is received

vars == <<handled, acked>>

Init == handled = 0 /\ acked = FALSE

Handle == handled' = handled + 1 /\ UNCHANGED acked

Acknowledge == handled > 0 /\ acked' = TRUE /\ UNCHANGED handled

Next == Handle \/ Acknowledge

Spec == Init /\ [][Next]_vars
=============================================================================
