------------------------------ MODULE HostSlots ------------------------------
(***************************************************************************)
(* The processes of one host that execute runtimes under the slots of         *)
(* src/rvw/hostslots.py.  Each process dispatches its runs behind an asyncio    *)
(* semaphore (src/rvw/dispatch.py), and every run needs one slot: a file that  *)
(* the run's process holds locked with flock.                                *)
(*                                                                         *)
(* A process is single-threaded and `_try_acquire' awaits nothing: while one  *)
(* run scans, the other runs of its process stand still, but the other         *)
(* processes of the host go on between any two of its flock calls.            *)
(***************************************************************************)
EXTENDS Naturals, FiniteSets

CONSTANTS
  Procs,        \* rvw processes of the host
  Runs,         \* runtime executions
  Owner,        \* [Runs -> Procs]
  Cap,          \* RVW_HOST_CONCURRENCY, the same for all processes
  Concurrency,  \* --concurrency, the semaphore of a process
  Kills,        \* processes that may receive SIGKILL
  Failures,     \* runs whose slot or execution may raise
  None

ASSUME OwnerAssumption == Owner \in [Runs -> Procs]
ASSUME CapAssumption == Cap \in Nat \ {0} /\ Concurrency \in Nat \ {0}
ASSUME RunsAssumption == IsFiniteSet(Runs) /\ None \notin Runs

VARIABLES
  alive,   \* running, aborting (a run raised), or dead, by process
  pc,      \* where each run stands
  scan,    \* the slot a scanning run tries next, and how many it has left
  lock     \* kernel: the run whose descriptor holds the lock of each slot

vars == <<alive, pc, scan, lock>>

Slots == 0 .. Cap - 1
Executing == {"running", "unwinding"}
Of(p) == {r \in Runs : Owner[r] = p}

TypeOK ==
  /\ alive \in [Procs -> {"running", "aborting", "dead"}]
  /\ pc \in [Runs -> {"queued", "waiting", "scanning", "running", "unwinding", "done"}]
  /\ scan \in [Runs -> [slot : Slots, left : 0 .. Cap]]
  /\ lock \in [Slots -> Runs \cup {None}]

Init ==
  /\ alive = [p \in Procs |-> "running"]
  /\ pc = [r \in Runs |-> "queued"]
  /\ scan = [r \in Runs |-> [slot |-> 0, left |-> 0]]
  /\ lock = [s \in Slots |-> None]

(* The thread of the process is not inside a scan, and the process lives.       *)
Free(p) == alive[p] # "dead" /\ \A r \in Of(p) : pc[r] # "scanning"

(* Closing the descriptors of `rs' releases their locks.                        *)
Unlocked(rs) == [s \in Slots |-> IF lock[s] \in rs THEN None ELSE lock[s]]

Goto(r, step) == pc' = [pc EXCEPT ![r] = step]

-----------------------------------------------------------------------------
(* Faulty variant: the semaphore's permit is not released.                             *)
AdmitOnce(r) ==
  /\ pc[r] = "queued" /\ Free(Owner[r])
  /\ Cardinality({q \in Of(Owner[r]) : pc[q] # "queued"}) < Concurrency
  /\ Goto(r, "waiting")
  /\ UNCHANGED <<alive, scan, lock>>

(* The semaphore of the process has a permit for the run.                       *)
Admit(r) ==
  /\ pc[r] = "queued" /\ Free(Owner[r])
  /\ Cardinality({q \in Of(Owner[r]) : pc[q] \notin {"queued", "done"}}) < Concurrency
  /\ Goto(r, "waiting")
  /\ UNCHANGED <<alive, scan, lock>>

(* One `_try_acquire', from a random slot on.                                   *)
StartScan(r) ==
  /\ pc[r] = "waiting" /\ Free(Owner[r])
  /\ \E s \in Slots : scan' = [scan EXCEPT ![r] = [slot |-> s, left |-> Cap]]
  /\ Goto(r, "scanning")
  /\ UNCHANGED <<alive, lock>>

Scans(r) == pc[r] = "scanning" /\ alive[Owner[r]] # "dead"

(* Faulty variant: the lock is shared.                                                 *)
TakeSlotShared(r) ==
  /\ Scans(r)
  /\ lock' = [lock EXCEPT ![scan[r].slot] = r]
  /\ Goto(r, "running")
  /\ UNCHANGED <<alive, scan>>

TakeSlot(r) ==
  /\ Scans(r) /\ lock[scan[r].slot] = None
  /\ lock' = [lock EXCEPT ![scan[r].slot] = r]
  /\ Goto(r, "running")
  /\ UNCHANGED <<alive, scan>>

(* Faulty variant: slot numbers do not wrap around.                                     *)
SlotBusyBeyond(r) ==
  /\ Scans(r) /\ lock[scan[r].slot] # None
  /\ scan' = [scan EXCEPT ![r] = [slot |-> @.slot + 1, left |-> @.left - 1]]
  /\ Goto(r, IF scan[r].left = 1 THEN "waiting" ELSE "scanning")
  /\ UNCHANGED <<alive, lock>>

(* BlockingIOError: the next slot, or a jittered sleep before the next scan.    *)
SlotBusy(r) ==
  /\ Scans(r) /\ lock[scan[r].slot] # None
  /\ scan' = [scan EXCEPT ![r] = [slot |-> (@.slot + 1) % Cap, left |-> @.left - 1]]
  /\ Goto(r, IF scan[r].left = 1 THEN "waiting" ELSE "scanning")
  /\ UNCHANGED <<alive, lock>>

(* The execution has ended, and its process group with it.                      *)
Finish(r) ==
  /\ pc[r] \in Executing /\ Free(Owner[r])
  /\ Goto(r, "done") /\ lock' = Unlocked({r})
  /\ UNCHANGED <<alive, scan>>

(* Faulty variant: an execution that raises leaves its descriptor open.                  *)
FailLeaks(r) ==
  /\ r \in Failures
  /\ \/ Scans(r)
     \/ pc[r] \in Executing /\ Free(Owner[r])
  /\ Goto(r, "done")
  /\ alive' = [alive EXCEPT ![Owner[r]] = "aborting"]
  /\ UNCHANGED <<scan, lock>>

(* A directory or slot that fails its checks, or an exception of the execution:  *)
(* gather raises it, and the process ends its loop.                             *)
Fail(r) ==
  /\ r \in Failures
  /\ \/ Scans(r)
     \/ pc[r] \in Executing /\ Free(Owner[r])
  /\ Goto(r, "done") /\ lock' = Unlocked({r})
  /\ alive' = [alive EXCEPT ![Owner[r]] = "aborting"]
  /\ UNCHANGED scan

(* The loop cancels what the failed gather left: waiting runs give up, the       *)
(* executing ones unwind before their slot is released.                         *)
CancelAll(p) ==
  /\ alive[p] = "aborting" /\ Free(p)
  /\ \E r \in Of(p) : pc[r] \in {"queued", "waiting", "running"}
  /\ pc' = [r \in Runs |->
              IF r \notin Of(p) THEN pc[r]
              ELSE IF pc[r] \in Executing THEN "unwinding" ELSE "done"]
  /\ UNCHANGED <<alive, scan, lock>>

(* SIGKILL: the kernel closes the descriptors of the process.  The SIGTERM it sends  *)
(* to the runtimes the process had started ends them later, or never: they are not   *)
(* counted here.                                                              *)
Kill(p) ==
  /\ p \in Kills /\ alive[p] # "dead"
  /\ alive' = [alive EXCEPT ![p] = "dead"]
  /\ lock' = Unlocked(Of(p))
  /\ pc' = [r \in Runs |-> IF r \in Of(p) THEN "done" ELSE pc[r]]
  /\ UNCHANGED scan

RunSteps(r) == Admit(r) \/ StartScan(r) \/ TakeSlot(r) \/ SlotBusy(r) \/ Finish(r)

Next ==
  \/ \E r \in Runs : RunSteps(r) \/ Fail(r)
  \/ \E p \in Procs : CancelAll(p) \/ Kill(p)

Spec == Init /\ [][Next]_vars

(* A process that lives resumes each of its tasks: the ready queue of its loop is   *)
(* first-in first-out, sleeps between scans end, and so does every execution       *)
(* (RuntimeRun, EventuallyEnds).  Fairness is strong because a scan by a sibling    *)
(* suspends a task again and again.  No fairness among processes is assumed.        *)
FairSpec ==
  /\ Spec
  /\ \A r \in Runs : SF_vars(RunSteps(r))
  /\ \A p \in Procs : SF_vars(CancelAll(p))

-----------------------------------------------------------------------------
(* Properties.                                                               *)

InFlight == {r \in Runs : pc[r] \in Executing}

(* A slot is locked exactly while its one run executes: neither a failure, nor a   *)
(* cancellation, nor a scan that gives up leaves a lock behind, and no execution    *)
(* goes on without one.                                                        *)
SlotHeldExactly ==
  /\ \A s \in Slots : lock[s] # None => lock[s] \in InFlight
  /\ \A r \in InFlight : \E s \in Slots :
       lock[s] = r /\ \A t \in Slots : lock[t] = r => t = s

(* The processes of the host together implement a pool of Cap executions.          *)
Pool == INSTANCE RuntimePool WITH inFlight <- InFlight
PoolSpec == Pool!Spec

(* Every run is served, or gives up with its process: a scan visits every slot, so   *)
(* contention and killed holders only delay it.                                  *)
EventuallyDone == \A r \in Runs : <>(pc[r] = "done")

=============================================================================
