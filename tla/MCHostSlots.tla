----------------------------- MODULE MCHostSlots -----------------------------
(* Instances of HostSlots for TLC: two processes that contend for fewer slots     *)
(* than their semaphores admit.                                               *)
EXTENDS HostSlots, TLC

CONSTANTS p1, p2, a1, a2, a3, b1

FourRuns == a1 :> p1 @@ a2 :> p1 @@ a3 :> p1 @@ b1 :> p2
=============================================================================
