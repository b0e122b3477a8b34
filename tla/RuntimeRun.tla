----------------------------- MODULE RuntimeRun -----------------------------
(***************************************************************************)
(* One execution of the model CLI by src/rvw/runtimes/codex.py: the        *)
(* coroutine `execute_raw' awaiting `_spawn_with_watchdog' under a          *)
(* deadline (`run'), the task of `_spawn' that owns the process group       *)
(* (`spawn'), and the task of `_terminate_and_reap' that ends the group     *)
(* (`cleanup').                                                            *)
(*                                                                         *)
(* Task.cancel() only requests: CancelledError is thrown when the task is   *)
(* next resumed, and other tasks and timers may run in between.  So a       *)
(* cancellation is one action (Ask, Expire, CancelSpawn in the watchdog)    *)
(* and its delivery another.  asyncio.wait_for (Python 3.12) cancels the    *)
(* very task that awaits, and turns the CancelledError into TimeoutError    *)
(* only if no one else cancelled that task.                                *)
(***************************************************************************)
EXTENDS Naturals, FiniteSets

CONSTANTS
  MaxCancels,  \* bound on the cancellations the dispatcher sends
  Denied,      \* kill(2) calls on the group that may fail with EPERM
  Shutdowns    \* TRUE: the event loop may be shut down under the execution

ASSUME MaxCancelsAssumption == MaxCancels \in Nat
ASSUME DeniedAssumption == Denied \subseteq {"term", "grace", "kill", "final"}
ASSUME ShutdownsAssumption == Shutdowns \in BOOLEAN

VARIABLES
  run,      \* polling in asyncio.wait, reaping in _await_cancelled_spawn, or ended
  pending,  \* a CancelledError is on its way to the run task
  asked,    \* Task.cancel() calls of the dispatcher on the run task
  expired,  \* the deadline has called Task.cancel()
  watchdog, \* _WatchdogState.fired
  before,   \* cancels_before of _await_cancelled_spawn
  spawn,    \* the await at which the task of _spawn stands
  unwind,   \* a CancelledError is on its way to the spawn task
  settled,  \* how the spawn task ended
  cleanup,  \* the await at which the task of _terminate_and_reap stands
  failed,   \* what that task raised
  group,    \* live members of the process group
  killed,   \* SIGKILL was sent to the group
  marks,    \* markers appended to run.log
  outcome   \* what execute_raw returned or raised

runTask == <<run, pending, asked, expired, watchdog, before, outcome>>
spawnTask == <<spawn, unwind, settled>>
cleanupTask == <<cleanup, failed, killed, marks>>
vars == <<runTask, spawnTask, cleanupTask, group>>

Members == {"leader", "child"}
Outcomes == {"exited", "deadline", "no_output", "canceled", "spawn_error", "error"}

FlagsOK ==
  /\ pending \in BOOLEAN /\ expired \in BOOLEAN /\ watchdog \in BOOLEAN
  /\ unwind \in BOOLEAN /\ killed \in BOOLEAN

TypeOK ==
  /\ FlagsOK
  /\ run \in {"polling", "reaping", "ended"}
  /\ asked \in 0 .. MaxCancels
  /\ before \in 0 .. MaxCancels + 1
  /\ spawn \in {"new", "creating", "talking", "cleaning", "done"}
  /\ settled \in {"none", "code", "cancelled", "oserror", "refused"}
  /\ cleanup \in {"none", "ready", "grace", "final", "done"}
  /\ failed \in {"none", "denied", "cancelled"}
  /\ group \subseteq Members
  /\ marks \subseteq {"escalated", "persisted", "unverified"}
  /\ outcome \in {"none"} \cup Outcomes

Init ==
  /\ run = "polling" /\ pending = FALSE /\ asked = 0 /\ expired = FALSE
  /\ watchdog = FALSE /\ before = 0 /\ outcome = "none"
  /\ spawn = "new" /\ unwind = FALSE /\ settled = "none"
  /\ cleanup = "none" /\ failed = "none" /\ killed = FALSE /\ marks = {}
  /\ group = {}

-----------------------------------------------------------------------------
(* Cancellation of the run task.                                            *)

cancelling == asked + (IF expired THEN 1 ELSE 0)

(* The dispatcher cancels the task: the user interrupts, or a sibling failed. *)
Ask ==
  /\ run # "ended" /\ asked < MaxCancels
  /\ asked' = asked + 1 /\ pending' = TRUE
  /\ UNCHANGED <<run, expired, watchdog, before, outcome, spawnTask, cleanupTask, group>>

Expire ==
  /\ run # "ended" /\ ~expired
  /\ expired' = TRUE /\ pending' = TRUE
  /\ UNCHANGED <<run, asked, watchdog, before, outcome, spawnTask, cleanupTask, group>>

(* asyncio.run cancels every task of the loop, the cleanup's too, once the main *)
(* coroutine has ended with an exception.                                       *)
Shutdown ==
  /\ Shutdowns /\ run # "ended" /\ asked < MaxCancels
  /\ asked' = asked + 1 /\ pending' = TRUE
  /\ unwind' = (spawn # "done")
  /\ IF cleanup \in {"none", "done"}
       THEN UNCHANGED <<cleanup, failed>>
       ELSE cleanup' = "done" /\ failed' = "cancelled"
  /\ UNCHANGED <<run, expired, watchdog, before, outcome, spawn, settled,
                 killed, marks, group>>

-----------------------------------------------------------------------------
(* The run task.                                                             *)

(* Faulty variant: the deadline's TimeoutError hides that the watchdog fired first.      *)
DeadlineReclassifies(e) ==
  CASE e = "cancelled" /\ ~(expired /\ asked = 0) -> "canceled"
    [] e = "cancelled" /\ expired /\ asked = 0 -> "deadline"
    [] e = "silence" -> "no_output"
    [] e = "oserror" -> "spawn_error"
    [] e = "refused" -> "error"
    [] e = "code"    -> "exited"

(* What leaves execute_raw when `e' leaves _spawn_with_watchdog.               *)
Classified(e) ==
  CASE e = "cancelled" /\ ~(expired /\ asked = 0) -> "canceled"
    [] e = "cancelled" /\ expired /\ asked = 0
         -> IF watchdog THEN "no_output" ELSE "deadline"
    [] e = "silence" -> "no_output"
    [] e = "oserror" -> "spawn_error"
    [] e = "refused" -> "error"
    [] e = "code"    -> "exited"

End(e) == run' = "ended" /\ outcome' = Classified(e)

(* CancelledError in the poll loop: cancel the spawn task, wait for it, raise.  *)
Interrupted ==
  /\ run = "polling" /\ pending
  /\ pending' = FALSE /\ before' = cancelling
  /\ IF spawn = "done"
       THEN End("cancelled") /\ UNCHANGED unwind
       ELSE run' = "reaping" /\ unwind' = TRUE /\ UNCHANGED outcome
  /\ UNCHANGED <<asked, expired, watchdog, spawn, settled, cleanupTask, group>>

(* The spawn task is done: its result, or its exception.                        *)
Completed ==
  /\ run = "polling" /\ ~pending /\ spawn = "done"
  /\ End(settled)
  /\ UNCHANGED <<pending, asked, expired, watchdog, before, spawnTask, cleanupTask, group>>

(* run.log did not grow for no_output_seconds.                                  *)
Silent ==
  /\ run = "polling" /\ ~pending /\ spawn # "done"
  /\ watchdog' = TRUE /\ before' = cancelling
  /\ run' = "reaping" /\ unwind' = TRUE
  /\ UNCHANGED <<pending, asked, expired, outcome, spawn, settled, cleanupTask, group>>

(* A cancellation while the spawn task is reaped is only remembered.            *)
Absorb ==
  /\ run = "reaping" /\ pending /\ spawn # "done"
  /\ pending' = FALSE
  /\ UNCHANGED <<run, asked, expired, watchdog, before, outcome,
                 spawnTask, cleanupTask, group>>

(* Faulty variant: after the watchdog's kill the absorbed cancellation is forgotten.     *)
ReapedForgets ==
  /\ run = "reaping" /\ spawn = "done"
  /\ End(IF ~watchdog THEN "cancelled"
         ELSE IF settled \in {"oserror", "refused"} THEN settled ELSE "silence")
  /\ UNCHANGED <<pending, asked, expired, watchdog, before,
                 spawnTask, cleanupTask, group>>

Reaped ==
  /\ run = "reaping" /\ spawn = "done"
  /\ IF ~watchdog \/ cancelling > before THEN End("cancelled")
     ELSE IF settled \in {"oserror", "refused"} THEN End(settled)
     ELSE End("silence")
  /\ UNCHANGED <<pending, asked, expired, watchdog, before,
                 spawnTask, cleanupTask, group>>

-----------------------------------------------------------------------------
(* The spawn task.                                                           *)

Settle(s) == spawn' = "done" /\ settled' = s /\ unwind' = FALSE

(* setpriv is missing (a RuntimeError), the log cannot be opened or the         *)
(* command not started (an OSError), or the group's leader exists.              *)
Begin ==
  /\ spawn = "new" /\ ~unwind
  /\ \/ \E s \in {"oserror", "refused"} : Settle(s) /\ UNCHANGED group
     \/ spawn' = "creating" /\ group' = {"leader"} /\ UNCHANGED <<unwind, settled>>
  /\ UNCHANGED <<runTask, cleanupTask>>

NeverBegun ==
  /\ spawn = "new" /\ unwind
  /\ Settle("cancelled")
  /\ UNCHANGED <<runTask, cleanupTask, group>>

Created ==
  /\ spawn = "creating" /\ ~unwind
  /\ spawn' = "talking"
  /\ UNCHANGED <<runTask, unwind, settled, cleanupTask, group>>

(* asyncio itself kills and reaps a process it has not handed over yet.         *)
CreationCancelled ==
  /\ spawn = "creating" /\ unwind
  /\ Settle("cancelled") /\ group' = {}
  /\ UNCHANGED <<runTask, cleanupTask>>

Communicated ==
  /\ spawn = "talking" /\ ~unwind /\ "leader" \notin group
  /\ Settle("code")
  /\ UNCHANGED <<runTask, cleanupTask, group>>

(* communicate() raises: _cleanup_before_unwind starts the cleanup task.        *)
Unwind ==
  /\ spawn = "talking" /\ unwind
  /\ spawn' = "cleaning" /\ unwind' = FALSE /\ cleanup' = "ready"
  /\ UNCHANGED <<runTask, settled, failed, killed, marks, group>>

AbsorbUnwind ==
  /\ spawn = "cleaning" /\ unwind /\ cleanup # "done"
  /\ unwind' = FALSE
  /\ UNCHANGED <<runTask, spawn, settled, cleanupTask, group>>

(* Faulty variant: the cleanup's own failure settles the task, unconverted.              *)
UnwoundRaw ==
  /\ spawn = "cleaning" /\ cleanup = "done"
  /\ Settle(failed)
  /\ UNCHANGED <<runTask, cleanupTask, group>>

Unwound ==
  /\ spawn = "cleaning" /\ cleanup = "done"
  /\ Settle(IF failed = "denied" THEN "oserror" ELSE "cancelled")
  /\ UNCHANGED <<runTask, cleanupTask, group>>

-----------------------------------------------------------------------------
(* The cleanup task.                                                         *)

Cleaned(f, ms) == cleanup' = "done" /\ failed' = f /\ marks' = marks \cup ms

MayDeny(call) == call \in Denied /\ group # {}

Terminate ==
  /\ cleanup = "ready"
  /\ \/ cleanup' = "grace" /\ UNCHANGED <<failed, marks>>
     \/ MayDeny("term") /\ Cleaned("denied", {})
  /\ UNCHANGED <<runTask, spawnTask, killed, group>>

(* Faulty variant: the exit of the leader passes for the exit of its group.              *)
LeaderGone ==
  /\ cleanup \in {"grace", "final"} /\ "leader" \notin group
  /\ Cleaned("none", IF cleanup = "final" THEN {"escalated"} ELSE {})
  /\ UNCHANGED <<runTask, spawnTask, killed, group>>

GroupGone ==
  /\ cleanup \in {"grace", "final"} /\ group = {}
  /\ Cleaned("none", IF cleanup = "final" THEN {"escalated"} ELSE {})
  /\ UNCHANGED <<runTask, spawnTask, killed, group>>

GraceDenied ==
  /\ cleanup = "grace" /\ MayDeny("grace")
  /\ Cleaned("denied", {})
  /\ UNCHANGED <<runTask, spawnTask, killed, group>>

(* The grace period is over.                                                   *)
Escalate ==
  /\ cleanup = "grace"
  /\ \/ cleanup' = "final" /\ killed' = TRUE /\ UNCHANGED <<failed, marks>>
     \/ MayDeny("kill") /\ Cleaned("denied", {}) /\ UNCHANGED killed
  /\ UNCHANGED <<runTask, spawnTask, group>>

(* Faulty variant: the wait after SIGKILL has no bound.                                 *)
PersistsUnbounded ==
  /\ cleanup = "final" /\ group = {}
  /\ Cleaned("none", {"escalated", "persisted"})
  /\ UNCHANGED <<runTask, spawnTask, killed, group>>

Persists ==
  /\ cleanup = "final"
  /\ Cleaned("none", {"escalated", "persisted"})
  /\ UNCHANGED <<runTask, spawnTask, killed, group>>

(* Faulty variant: EPERM after SIGKILL propagates before the markers are written.        *)
FinalDeniedRaises ==
  /\ cleanup = "final" /\ MayDeny("final")
  /\ Cleaned("denied", {})
  /\ UNCHANGED <<runTask, spawnTask, killed, group>>

FinalDenied ==
  /\ cleanup = "final" /\ MayDeny("final")
  /\ Cleaned("none", {"escalated", "unverified"})
  /\ UNCHANGED <<runTask, spawnTask, killed, group>>

-----------------------------------------------------------------------------
(* The process group: any member may end, any live one may start others until   *)
(* all are killed at once.                                                      *)

Forks ==
  /\ spawn \in {"talking", "cleaning", "done"} /\ group # {} /\ ~killed
  /\ group' = group \cup {"child"}
  /\ UNCHANGED <<runTask, spawnTask, cleanupTask>>

Dies(p) ==
  /\ p \in group
  /\ group' = group \ {p}
  /\ UNCHANGED <<runTask, spawnTask, cleanupTask>>

RunSteps == Interrupted \/ Completed \/ Absorb \/ Reaped
SpawnSteps ==
  Begin \/ NeverBegun \/ Created \/ CreationCancelled \/ Communicated
    \/ Unwind \/ AbsorbUnwind \/ Unwound
CleanupSteps ==
  Terminate \/ GroupGone \/ GraceDenied \/ Escalate \/ Persists \/ FinalDenied
Processes == Forks \/ \E p \in Members : Dies(p)

Next ==
  Ask \/ Expire \/ Shutdown \/ Silent \/ RunSteps \/ SpawnSteps \/ CleanupSteps \/ Processes

Spec == Init /\ [][Next]_vars

(* The loop resumes every task that is ready, and the timers fire; nothing is   *)
(* assumed of the processes, which may ignore TERM and even survive KILL, nor of  *)
(* the calls that may be denied.                                               *)
FairSpec ==
  /\ Spec
  /\ WF_vars(Expire) /\ WF_vars(RunSteps) /\ WF_vars(SpawnSteps)
  /\ WF_vars(Terminate \/ GroupGone \/ Escalate \/ Persists)

-----------------------------------------------------------------------------
(* Properties.                                                               *)

(* The result of an execution that unwound is not given before the whole       *)
(* process group is gone, or run.log says that it could not be ended, or the     *)
(* cleanup failed or was itself cancelled: the host slot is released right after. *)
Verified == {"persisted", "unverified"} \cap marks # {}
CleanupComplete ==
  run = "ended" /\ settled # "code" => group = {} \/ Verified \/ failed # "none"

(* A dispatcher's cancellation is never swallowed: not by the deadline, not by   *)
(* the watchdog, not by the cleanup that absorbs it.                            *)
CancellationPropagates == run = "ended" /\ asked > 0 => outcome = "canceled"

(* Without one, the first cause decides: a deadline that expires while the        *)
(* watchdog's kill is reaped does not reclassify it, a silence never passes for  *)
(* a deadline, and a kill of either never passes for an exit.                    *)
FirstCauseWins ==
  run = "ended" /\ asked = 0 =>
    /\ watchdog => outcome \in {"no_output", "spawn_error"}
    /\ ~watchdog /\ expired => outcome = "deadline"
    /\ ~watchdog /\ ~expired => outcome \in {"exited", "spawn_error", "error"}

(* No KILL goes unrecorded in run.log, unless the cleanup itself is cancelled.    *)
EscalationRecorded ==
  run = "ended" /\ killed /\ failed # "cancelled" => "escalated" \in marks

(* The execution ends whatever the processes do.                               *)
EventuallyEnds == <>(run = "ended")

=============================================================================
