----------------------------- MODULE RuntimePool -----------------------------
(***************************************************************************)
(* What the host slots promise: at no time are more than Cap runtime         *)
(* executions of live processes in flight on the host, whichever process they *)
(* belong to.  A process that is killed leaves with its executions; runtimes   *)
(* it started may live on for a while (codex.py:245-249 only sends SIGTERM)    *)
(* and are not counted.                                                     *)
(***************************************************************************)
EXTENDS Naturals, FiniteSets

CONSTANTS Runs, Cap

VARIABLE inFlight

Init == inFlight = {}

Enter(r) ==
  /\ r \notin inFlight /\ Cardinality(inFlight) < Cap
  /\ inFlight' = inFlight \cup {r}

(* Several executions may leave at once: with their process.                  *)
Leave(rs) == rs \subseteq inFlight /\ inFlight' = inFlight \ rs

Next == (\E r \in Runs : Enter(r)) \/ (\E rs \in SUBSET Runs : Leave(rs))

Spec == Init /\ [][Next]_inFlight
=============================================================================
