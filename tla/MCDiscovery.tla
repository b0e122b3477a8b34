----------------------------- MODULE MCDiscovery -----------------------------
(* Instances of Discovery for TLC: two lanes side by side, two replicas of one     *)
(* lane, and an inline review of two chunks by two replicas.                     *)
EXTENDS Discovery, TLC

CONSTANTS l1, l2

Plan(mode, lanes, chunks, replicas) ==
  [mode |-> mode, lanes |-> lanes, chunks |-> chunks, replicas |-> replicas]

FourPlans ==
  {Plan("agentic", {l1, l2}, 1, 1), Plan("agentic", {l1}, 1, 2),
   Plan("inline", {l1}, 2, 2), Plan("inline", {l1, l2}, 1, 1)}
=============================================================================
