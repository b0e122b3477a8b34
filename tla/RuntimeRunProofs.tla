-------------------------- MODULE RuntimeRunProofs --------------------------
(***************************************************************************)
(* Proofs about RuntimeRun, for any number of cancellations and any calls    *)
(* that may be denied: types, the classification of an execution, and the     *)
(* fate of its process group.                                                *)
(***************************************************************************)
EXTENDS RuntimeRun, TLAPS

(* What the run task knows of the cancellations it was sent: none is lost     *)
(* between its being sent and the end of the execution.                        *)
RunInv ==
  /\ run = "ended" <=> outcome # "none"
  /\ run = "polling" =>
       /\ ~watchdog
       /\ ~pending => asked = 0 /\ ~expired
       /\ asked = 0 => ~unwind /\ spawn # "cleaning" /\ settled # "cancelled"
  /\ run = "reaping" =>
       /\ ~watchdog => asked > 0 \/ expired
       /\ watchdog => before = 0
       /\ spawn \in {"new", "creating", "talking"} => unwind
       /\ settled # "refused"
  /\ pending => asked > 0 \/ expired
  /\ run = "ended" => spawn = "done"

(* The spawn task does not settle before its cleanup has.                      *)
SpawnInv ==
  /\ spawn = "done" <=> settled # "none"
  /\ spawn \in {"new", "creating", "talking"} => cleanup = "none"
  /\ spawn = "cleaning" => cleanup # "none"
  /\ spawn = "done" => cleanup \in {"none", "done"}
  /\ spawn = "new" => group = {}
  /\ spawn = "done" /\ cleanup = "none" => settled = "code" \/ group = {}

(* What the cleanup leaves behind.                                            *)
CleanupInv ==
  /\ killed => cleanup \in {"final", "done"}
  /\ cleanup = "done" =>
       /\ group = {} \/ Verified \/ failed # "none"
       /\ killed /\ failed # "cancelled" => "escalated" \in marks

IInv ==
  /\ TypeOK /\ RunInv /\ SpawnInv /\ CleanupInv
  /\ CancellationPropagates /\ FirstCauseWins

-----------------------------------------------------------------------------
(* The execution starts with no request, no group and no cleanup.              *)
LEMMA InitInv == Init => IInv
<1>. SUFFICES ASSUME Init PROVE IInv
  OBVIOUS
<1>1. TypeOK
  <2>1. FlagsOK
    BY Zenon DEF Init, FlagsOK
  <2>. QED
    BY <2>1, MaxCancelsAssumption DEF Init, TypeOK
<1>2. RunInv /\ SpawnInv
  BY DEF Init, RunInv, SpawnInv
<1>3. CleanupInv
  BY DEF Init, CleanupInv
<1>. QED
  BY <1>1, <1>2, <1>3 DEF Init, IInv, CancellationPropagates, FirstCauseWins

(* The Boolean variables, apart from the arithmetic of the other facts.          *)
LEMMA FlagsNext == ASSUME FlagsOK, [Next]_vars PROVE FlagsOK'
<1>. USE Zenon DEF FlagsOK, runTask, spawnTask, cleanupTask
<1>1. CASE Ask BY <1>1 DEF Ask
<1>2. CASE Expire BY <1>2 DEF Expire
<1>3. CASE Shutdown BY <1>3 DEF Shutdown
<1>4. CASE Silent BY <1>4 DEF Silent
<1>5. CASE Interrupted BY <1>5 DEF Interrupted, End
<1>6. CASE Completed BY <1>6 DEF Completed, End
<1>7. CASE Absorb BY <1>7 DEF Absorb
<1>8. CASE Reaped BY <1>8 DEF Reaped, End
<1>9. CASE Begin BY <1>9 DEF Begin, Settle
<1>10. CASE NeverBegun BY <1>10 DEF NeverBegun, Settle
<1>11. CASE Created BY <1>11 DEF Created
<1>12. CASE CreationCancelled BY <1>12 DEF CreationCancelled, Settle
<1>13. CASE Communicated BY <1>13 DEF Communicated, Settle
<1>14. CASE Unwind BY <1>14 DEF Unwind
<1>15. CASE AbsorbUnwind BY <1>15 DEF AbsorbUnwind
<1>16. CASE Unwound BY <1>16 DEF Unwound, Settle
<1>17. CASE Terminate BY <1>17 DEF Terminate, Cleaned
<1>18. CASE GroupGone BY <1>18 DEF GroupGone, Cleaned
<1>19. CASE GraceDenied BY <1>19 DEF GraceDenied, Cleaned
<1>20. CASE Escalate BY <1>20 DEF Escalate, Cleaned
<1>21. CASE Persists BY <1>21 DEF Persists, Cleaned
<1>22. CASE FinalDenied BY <1>22 DEF FinalDenied, Cleaned
<1>23. CASE Processes BY <1>23 DEF Processes, Forks, Dies
<1>24. CASE UNCHANGED vars BY <1>24 DEF vars
<1>. QED
  BY <1>1, <1>2, <1>3, <1>4, <1>5, <1>6, <1>7, <1>8, <1>9, <1>10, <1>11, <1>12, <1>13, <1>14, <1>15, <1>16, <1>17, <1>18, <1>19, <1>20, <1>21, <1>22, <1>23, <1>24
  DEF Next, RunSteps, SpawnSteps, CleanupSteps

(* A request of cancellation is recorded and thrown.                           *)
LEMMA RequestInv == ASSUME IInv, FlagsOK', Ask \/ Expire \/ Shutdown PROVE IInv'
<1>1. CASE Ask
  BY <1>1, MaxCancelsAssumption
  DEF IInv, TypeOK, RunInv, SpawnInv, CleanupInv, CancellationPropagates, FirstCauseWins,
      Verified, Ask, spawnTask, cleanupTask
<1>2. CASE Expire
  BY <1>2
  DEF IInv, TypeOK, RunInv, SpawnInv, CleanupInv, CancellationPropagates, FirstCauseWins,
      Verified, Expire, spawnTask, cleanupTask
<1>3. CASE Shutdown
  <2>1. unwind' <=> spawn # "done"
    BY <1>3, Zenon DEF Shutdown
  <2>2. asked' \in 0 .. MaxCancels /\ asked' > 0
    BY <1>3, MaxCancelsAssumption DEF Shutdown, IInv, TypeOK
  <2>3. CASE cleanup \in {"none", "done"}
    BY <1>3, <2>1, <2>2, <2>3
    DEF IInv, TypeOK, RunInv, SpawnInv, CleanupInv, CancellationPropagates, FirstCauseWins,
        Verified, Shutdown
  <2>4. CASE cleanup \notin {"none", "done"}
    BY <1>3, <2>1, <2>2, <2>4
    DEF IInv, TypeOK, RunInv, SpawnInv, CleanupInv, CancellationPropagates, FirstCauseWins,
        Verified, Shutdown
  <2>. QED BY <2>3, <2>4
<1>. QED BY <1>1, <1>2, <1>3

(* The values of the classification.                                           *)
LEMMA Classes ==
  /\ Classified("cancelled") =
       IF expired /\ asked = 0 THEN IF watchdog THEN "no_output" ELSE "deadline" ELSE "canceled"
  /\ Classified("silence") = "no_output"
  /\ Classified("oserror") = "spawn_error"
  /\ Classified("refused") = "error"
  /\ Classified("code") = "exited"
<1>1. CASE expired /\ asked = 0
  BY <1>1 DEF Classified
<1>2. CASE ~(expired /\ asked = 0)
  BY <1>2 DEF Classified
<1>. QED BY <1>1, <1>2

(* The run task ends with a classification that accounts for every request.     *)
LEMMA RunStepsInv == ASSUME IInv, FlagsOK', RunSteps \/ Silent PROVE IInv'
<1>. USE DEF IInv, TypeOK, RunInv, SpawnInv, CleanupInv, CancellationPropagates,
             FirstCauseWins, Verified, Outcomes, cancelling, spawnTask, cleanupTask
<1>1. CASE Interrupted
  <2>1. CASE spawn = "done"
    <3>1. /\ run' = "ended" /\ pending' = FALSE /\ before' = asked + (IF expired THEN 1 ELSE 0)
          /\ outcome' = Classified("cancelled")
          /\ UNCHANGED <<unwind, asked, expired, watchdog, spawn, settled,
                         cleanup, failed, killed, marks, group>>
      BY <1>1, <2>1 DEF Interrupted, End
    <3>2. asked > 0 \/ expired
      BY <1>1 DEF Interrupted
    <3>3. outcome' = IF expired /\ asked = 0 THEN "deadline" ELSE "canceled"
      BY <1>1, <3>1, Classes DEF Interrupted
    <3>4. before' \in 0 .. MaxCancels + 1
      BY <3>1, MaxCancelsAssumption
    <3>5. run' = "ended" /\ run = "polling" /\ ~watchdog' /\ ~pending'
      BY <1>1, <3>1 DEF Interrupted
    <3>6. outcome' \in Outcomes
      BY <3>3
    <3>7. CancellationPropagates' /\ FirstCauseWins'
      BY <3>1, <3>2, <3>3, <3>5
    <3>. QED BY <2>1, <3>1, <3>4, <3>5, <3>6, <3>7
  <2>2. CASE spawn # "done"
    BY <1>1, <2>2, MaxCancelsAssumption DEF Interrupted
  <2>. QED BY <2>1, <2>2
<1>2. CASE Completed
  BY <1>2, Classes DEF Completed, End
<1>3. CASE Absorb
  BY <1>3 DEF Absorb
<1>4. CASE Reaped
  <2>1. CASE ~watchdog \/ cancelling > before
    <3>1. outcome' = Classified("cancelled")
      BY <1>4, <2>1 DEF Reaped, End
    <3>2. asked > 0 \/ expired
      BY <1>4, <2>1 DEF Reaped
    <3>. QED BY <1>4, <2>1, <3>1, <3>2, Classes DEF Reaped, End
  <2>2. CASE watchdog /\ ~(cancelling > before)
    <3>1. asked = 0 /\ ~expired
      BY <1>4, <2>2, MaxCancelsAssumption DEF Reaped
    <3>2. outcome' \in {"no_output", "spawn_error"}
      BY <1>4, <2>2, Classes DEF Reaped, End
    <3>3. RunInv' /\ SpawnInv' /\ CleanupInv'
      BY <1>4, <3>2 DEF Reaped, End
    <3>4. CancellationPropagates' /\ FirstCauseWins'
      BY <1>4, <2>2, <3>1, <3>2 DEF Reaped, End
    <3>. QED BY <1>4, <3>2, <3>3, <3>4 DEF Reaped, End
  <2>. QED BY <2>1, <2>2
<1>5. CASE Silent
  BY <1>5, MaxCancelsAssumption DEF Silent
<1>. QED BY <1>1, <1>2, <1>3, <1>4, <1>5 DEF RunSteps

(* The spawn task hands the group to its cleanup, or leaves none.               *)
LEMMA SpawnStepsInv == ASSUME IInv, FlagsOK', SpawnSteps PROVE IInv'
<1>. USE DEF IInv, TypeOK, RunInv, SpawnInv, CleanupInv, CancellationPropagates,
             FirstCauseWins, Verified, Members, Settle, runTask, cleanupTask
<1>1. CASE Begin
  <2>1. CASE \E r \in {"oserror", "refused"} : Settle(r) /\ UNCHANGED group
    BY <1>1, <2>1 DEF Begin
  <2>2. CASE spawn' = "creating" /\ group' = {"leader"} /\ UNCHANGED <<unwind, settled>>
    BY <1>1, <2>2 DEF Begin
  <2>. QED BY <1>1, <2>1, <2>2 DEF Begin
<1>2. CASE NeverBegun BY <1>2 DEF NeverBegun
<1>3. CASE Created BY <1>3 DEF Created
<1>4. CASE CreationCancelled BY <1>4 DEF CreationCancelled
<1>5. CASE Communicated BY <1>5 DEF Communicated
<1>6. CASE Unwind BY <1>6 DEF Unwind
<1>7. CASE AbsorbUnwind BY <1>7 DEF AbsorbUnwind
<1>8. CASE Unwound BY <1>8 DEF Unwound
<1>. QED BY <1>1, <1>2, <1>3, <1>4, <1>5, <1>6, <1>7, <1>8 DEF SpawnSteps

(* The cleanup ends with the group gone, a marker, or an error.                 *)
LEMMA CleanupStepsInv == ASSUME IInv, FlagsOK', CleanupSteps PROVE IInv'
<1>. USE DEF IInv, TypeOK, RunInv, SpawnInv, CleanupInv, CancellationPropagates,
             FirstCauseWins, Verified, Cleaned, MayDeny, runTask, spawnTask
<1>1. CASE Terminate BY <1>1 DEF Terminate
<1>2. CASE GroupGone
  <2>1. CASE cleanup = "final" BY <1>2, <2>1 DEF GroupGone
  <2>2. CASE cleanup = "grace" BY <1>2, <2>2 DEF GroupGone
  <2>. QED BY <1>2, <2>1, <2>2 DEF GroupGone
<1>3. CASE GraceDenied BY <1>3 DEF GraceDenied
<1>4. CASE Escalate
  <2>1. CASE cleanup' = "final" /\ killed' = TRUE /\ UNCHANGED <<failed, marks>>
    BY <1>4, <2>1 DEF Escalate
  <2>2. CASE MayDeny("kill") /\ Cleaned("denied", {}) /\ UNCHANGED killed
    BY <1>4, <2>2 DEF Escalate
  <2>. QED BY <1>4, <2>1, <2>2 DEF Escalate
<1>5. CASE Persists BY <1>5 DEF Persists
<1>6. CASE FinalDenied BY <1>6 DEF FinalDenied
<1>. QED BY <1>1, <1>2, <1>3, <1>4, <1>5, <1>6 DEF CleanupSteps

(* An empty group stays empty.                                                 *)
LEMMA ProcessesInv == ASSUME IInv, FlagsOK', Processes PROVE IInv'
<1>1. /\ group' \subseteq Members /\ (group = {} => group' = {})
      /\ spawn = "new" => group' = {}
      /\ UNCHANGED <<runTask, spawnTask, cleanupTask>>
  <2>1. CASE Forks
    BY <2>1 DEF IInv, TypeOK, SpawnInv, Members, Forks
  <2>2. CASE \E p \in Members : Dies(p)
    BY <2>2 DEF IInv, TypeOK, SpawnInv, Members, Dies
  <2>. QED BY <2>1, <2>2 DEF Processes
<1>. QED
  BY <1>1 DEF IInv, TypeOK, RunInv, SpawnInv, CleanupInv, CancellationPropagates,
              FirstCauseWins, Verified, runTask, spawnTask, cleanupTask

(* Every step preserves the invariant.                                         *)
LEMMA NextInv == ASSUME IInv, [Next]_vars PROVE IInv'
<1>1. FlagsOK'
  BY FlagsNext DEF IInv, TypeOK
<1>2. CASE UNCHANGED vars
  BY <1>1, <1>2
  DEF IInv, TypeOK, RunInv, SpawnInv, CleanupInv, CancellationPropagates, FirstCauseWins,
      Verified, vars, runTask, spawnTask, cleanupTask
<1>. QED
  BY <1>1, <1>2, RequestInv, RunStepsInv, SpawnStepsInv, CleanupStepsInv, ProcessesInv DEF Next

(* The inductive invariant holds in every reachable state.                      *)
THEOREM Invariance == Spec => []IInv
<1>1. Init => IInv BY InitInv
<1>2. IInv /\ [Next]_vars => IInv' BY NextInv
<1>. QED BY <1>1, <1>2, PTL DEF Spec

(* Every variable has its type, whatever is cancelled, denied or shut down.     *)
THEOREM TypeCorrect == Spec => []TypeOK
BY Invariance, PTL DEF IInv

(* No cancellation of the dispatcher is swallowed, and without one the first     *)
(* cause to act classifies the execution: `_await_cancelled_spawn' counts          *)
(* requests, and `_WatchdogState.fired' outlives a later deadline.               *)
THEOREM Classification == Spec => [](CancellationPropagates /\ FirstCauseWins)
BY Invariance, PTL DEF IInv

(* An execution that unwinds ends its process group first, or reports that it     *)
(* could not, and records every KILL, unless the cleanup is itself cancelled.     *)
THEOREM GroupEnds == Spec => [](CleanupComplete /\ EscalationRecorded)
<1>1. IInv => CleanupComplete /\ EscalationRecorded
  BY DEF IInv, TypeOK, RunInv, SpawnInv, CleanupInv, CleanupComplete, EscalationRecorded
<1>. QED BY <1>1, Invariance, PTL
=============================================================================
