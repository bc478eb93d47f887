---------------------------- MODULE LicenseGrant ----------------------------
(* What a checkout promises about one payment: it is worth at most one      *)
(* licence, and none before the money has arrived.                          *)

CONSTANT Licenses

VARIABLES
    paid,   \* the payment provider has the money
    issued  \* licences created for the payment

vars == <<paid, issued>>

Init == paid = FALSE /\ issued = {}

Pay == paid' = TRUE /\ UNCHANGED issued

Issue ==
    /\ paid /\ issued = {}
    /\ \E l \in Licenses : issued' = {l}
    /\ UNCHANGED paid

Next == Pay \/ Issue

Spec == Init /\ [][Next]_vars
=============================================================================
