------------------------------ MODULE ReviewJob ------------------------------
(***************************************************************************)
(* The Durable Object RvwReviewJob of cloud/worker/src/review-job.ts: the  *)
(* authoritative record of the review of one pull-request head.            *)
(*                                                                         *)
(* Mutating operations (start, failStart, supersede, alarm) run one at a   *)
(* time, but each awaits GitHub, the Sandbox SDK and its own storage in     *)
(* between, and the object may be evicted at any of those awaits.  `op' is  *)
(* the operation in progress with the await it stands at; `rec' is the      *)
(* stored record.  Every action is one await: the external effect, or the   *)
(* storage write, and the code up to the next await.                        *)
(***************************************************************************)
EXTENDS Naturals, FiniteSets, JobContract, HeadJob

CONSTANTS
  Messages,    \* review requests that reach this head's object
  Sandboxes,   \* sandbox ids (random UUIDs in the code)
  CheckRuns,   \* ids GitHub may give to check runs
  Policies,    \* outcomes of reading the publication policy at the base SHA
  CrashPoints, \* awaits at which the object may be evicted: <<kind, step>>
  MaxFaults    \* bound on evictions and failed external calls

ASSUME PoliciesAssumption ==
  Policies \subseteq {"checks", "passNeutral", "blockNeutral", "noChecks", "invalid"}
ASSUME NoneAssumption == None \notin Messages \cup Sandboxes \cup CheckRuns
ASSUME MaxFaultsAssumption == MaxFaults \in Nat

VARIABLES
  rec,      \* the record under JOB_STORAGE_KEY
  handled,  \* the identities under the "handled:" keys
  alarm,    \* an alarm is scheduled in storage
  fired,    \* an alarm was delivered and its handler has not finished
  op,       \* the serialized operation in progress, or how the last one ended
  late,     \* rec.deadlineAt has been reached
  checks,   \* GitHub: status of every check run
  box,      \* Sandbox service: the containers
  proc,     \* Sandbox service: what getProcess reports
  exited,   \* how the review process of each sandbox ended
  claims,   \* history: fresh executions claimed by each delivery identity
  faults    \* history: evictions and failed calls so far

durable  == <<rec, handled>>
alarms   == <<alarm, fired>>
sandbox  == <<box, proc, exited>>
vars     == <<rec, handled, alarm, fired, op, late, checks, box, proc, exited,
              claims, faults>>

-----------------------------------------------------------------------------
(* Messages and records.                                                    *)

Identities == {deliveryIdentity(m) : m \in Messages}

Record ==
  [state : JobStates, message : Messages \cup {None},
   checkRunId : CheckRuns \cup {None}, sandboxId : Sandboxes \cup {None},
   processId : BOOLEAN, deadlineAt : BOOLEAN, policy : Policies \cup {"unread"},
   conclusion : {"success", "failure", "neutral", None},
   checkUpdatePending : BOOLEAN, cleanupPending : BOOLEAN,
   diagnosticsFinalized : BOOLEAN, reviewCompleted : BOOLEAN]

ASSUME NoneIsNoRecord == None \notin Record

NewRecord(s, m, completed) ==
  [state |-> s, message |-> m, checkRunId |-> None, sandboxId |-> None,
   processId |-> FALSE, deadlineAt |-> FALSE, policy |-> "unread",
   conclusion |-> None, checkUpdatePending |-> FALSE, cleanupPending |-> FALSE,
   diagnosticsFinalized |-> FALSE, reviewCompleted |-> completed]

(* Faulty variant: a rerun forgets that a review completed.                    *)
queuedRecordFromScratch(m, previous) == NewRecord("queued", m, FALSE)

queuedRecord(m, previous) ==
  NewRecord("queued", m, previous # None /\ previous.reviewCompleted)

Terminal == rec # None /\ isTerminalState(rec.state)
Live == rec # None /\ ~isTerminalState(rec.state)

(* Faulty variant: only the cleanup counts as owed.                            *)
PendingCleanup == rec # None /\ rec.cleanupPending

Pending == rec # None /\ (rec.cleanupPending \/ rec.checkUpdatePending)

-----------------------------------------------------------------------------
(* Operations.                                                              *)

Kinds == {"none", "start", "failStart", "supersede", "alarm", "publish",
          "publishLost"}

EndSteps == {"idle", "returned", "threw", "evicted"}

Steps == EndSteps \cup
  {"claim", "policy", "createCheck", "saveCheck", "allocate", "process",
   "launch", "record", "run", "schedule",
   "createQueued", "provision", "tombstone", "flag", "mark",
   "poll", "collect", "report", "conclude", "close",
   "diagnose", "destroy", "saveDestroyed", "saveUndestroyed", "rearmCleanup",
   "neutral", "saveNeutral", "saveOwed", "rearmCheck", "settled"}

Operation == [kind : Kinds, message : Messages \cup {None}, step : Steps,
              check : CheckRuns \cup {None}, verdict : Verdicts \cup {None}]

Ended(s) == [kind |-> "none", message |-> None, step |-> s, check |-> None,
             verdict |-> None]

(* The promise chain of serial(): the next operation begins when the         *)
(* previous one has settled.                                                 *)
serial(k, m, s) ==
  /\ op.step \in EndSteps
  /\ op' = [kind |-> k, message |-> m, step |-> s, check |-> None,
            verdict |-> None]

At(k, s) == op.kind \in k /\ op.step = s
Goto(s)  == op' = [op EXCEPT !.step = s]
Alarms   == {"alarm", "publish", "publishLost"}
Calls    == {"start", "failStart", "supersede"}

(* An operation ends; an alarm handler that ends is no longer owed.           *)
Finish(s) == /\ op' = Ended(s)
             /\ fired' = (IF op.kind \in Alarms THEN FALSE ELSE fired)

Fault == faults < MaxFaults /\ faults' = faults + 1

(* Where the settlement of a terminal record goes on: settleCleanup while      *)
(* cleanup is pending, then settleNeutralCheck while the check is pending;     *)
(* finishPublishing settles the cleanup only.                                 *)
AfterCleanup(k, r) ==
  IF r.checkUpdatePending /\ k \notin {"publish", "publishLost"}
    THEN "neutral" ELSE "settled"

SettleFrom(k, r) == IF r.cleanupPending THEN "diagnose" ELSE AfterCleanup(k, r)

Init ==
  /\ rec = None /\ handled = {}
  /\ alarm = FALSE /\ fired = FALSE
  /\ op = Ended("idle")
  /\ late = FALSE
  /\ checks = [c \in CheckRuns |-> "none"]
  /\ box = [s \in Sandboxes |-> "none"]
  /\ proc = [s \in Sandboxes |-> "absent"]
  /\ exited = [s \in Sandboxes |-> "none"]
  /\ claims = [i \in Identities |-> 0]
  /\ faults = 0

-----------------------------------------------------------------------------
(* start.                                                                   *)

start(m) ==
  /\ serial("start", m, IF Terminal THEN SettleFrom("start", rec) ELSE "claim")
  /\ UNCHANGED <<durable, alarms, late, checks, sandbox, claims, faults>>

(* The transaction that claims the execution.  `seen' is read before the      *)
(* record's own identity is stored, and all of it commits or none.            *)
OwnDelivery(m) ==
  rec # None /\ rec.message # None
  /\ deliveryIdentity(rec.message) = deliveryIdentity(m)

(* Faulty variant: the handled identities are not consulted.                   *)
FreshUnlessOwn(m) ==
  /\ ~m.skipped
  /\ rec = None \/ (Terminal /\ ~OwnDelivery(m) /\ canRestart(m))

Fresh(m) ==
  /\ ~m.skipped
  /\ deliveryIdentity(m) \notin handled
  /\ rec = None \/ (Terminal /\ ~OwnDelivery(m) /\ canRestart(m))

Resumed(m) ==
  /\ ~m.skipped
  /\ OwnDelivery(m)
  /\ rec.state \in {"queued", "provisioning"}

Handle(m) ==
  handled' = handled \cup {deliveryIdentity(m)} \cup
    (IF rec # None /\ rec.message # None THEN {deliveryIdentity(rec.message)}
                                         ELSE {})

ClaimFresh ==
  LET m == op.message IN
  /\ At({"start"}, "claim") /\ Fresh(m)
  /\ rec' = [queuedRecord(m, rec) EXCEPT !.state = "provisioning"]
  /\ late' = FALSE
  /\ claims' = [claims EXCEPT ![deliveryIdentity(m)] = @ + 1]
  /\ Handle(m) /\ Goto("policy")
  /\ UNCHANGED <<alarms, checks, sandbox, faults>>

ClaimResumed ==
  LET m == op.message IN
  /\ At({"start"}, "claim") /\ Resumed(m)
  /\ rec' = [rec EXCEPT !.message = m, !.state = "provisioning"]
  /\ Handle(m) /\ Goto("policy")
  /\ UNCHANGED <<alarms, late, checks, sandbox, claims, faults>>

(* The delivery joins the execution in flight, or repeats a handled one.      *)
NotClaimed ==
  LET m == op.message IN
  /\ At({"start"}, "claim") /\ ~Fresh(m) /\ ~Resumed(m)
  /\ Handle(m) /\ Finish("returned")
  /\ UNCHANGED <<rec, alarm, late, checks, sandbox, claims, faults>>

ReadPolicy ==
  /\ At({"start"}, "policy")
  /\ \E p \in Policies :
       rec' = IF rec.policy = "unread" THEN [rec EXCEPT !.policy = p] ELSE rec
  /\ Goto(IF rec.checkRunId = None THEN "createCheck" ELSE "allocate")
  /\ UNCHANGED <<handled, alarms, late, checks, sandbox, claims, faults>>

CreateCheckRun ==
  /\ At({"start"}, "createCheck")
  /\ \E c \in CheckRuns :
       /\ checks[c] = "none"
       /\ checks' = [checks EXCEPT ![c] = "in_progress"]
       /\ \/ /\ op' = [op EXCEPT !.step = "saveCheck", !.check = c]
             /\ UNCHANGED <<fired, faults>>
          \/ Fault /\ Finish("threw")           \* the response is lost
  /\ UNCHANGED <<durable, alarm, late, sandbox, claims>>

SaveCheckRunId ==
  /\ At({"start"}, "saveCheck")
  /\ rec' = [rec EXCEPT !.checkRunId = op.check]
  /\ op' = [op EXCEPT !.step = "allocate", !.check = None]
  /\ UNCHANGED <<handled, alarms, late, checks, sandbox, claims, faults>>

(* An invalid publication policy fails the start before any sandbox exists.   *)
RejectPolicy ==
  /\ At({"start"}, "allocate") /\ rec.policy = "invalid"
  /\ Finish("threw")
  /\ UNCHANGED <<durable, alarm, late, checks, sandbox, claims, faults>>

AllocateSandbox ==
  /\ At({"start"}, "allocate") /\ rec.policy # "invalid"
  /\ \/ /\ rec.sandboxId = None
        /\ \E s \in Sandboxes :
             /\ box[s] = "none"
             /\ rec' = [rec EXCEPT !.sandboxId = s]
             /\ box' = [box EXCEPT ![s] = "named"]
     \/ rec.sandboxId # None /\ UNCHANGED <<rec, box>>
  /\ Goto("process")
  /\ UNCHANGED <<handled, alarms, late, checks, proc, exited, claims, faults>>

(* Faulty variant: a retried start dispatches without looking for the process.  *)
RecoverNothing ==
  /\ At({"start"}, "process")
  /\ rec' = [rec EXCEPT !.processId = TRUE]
  /\ Goto("launch")
  /\ UNCHANGED <<handled, alarms, late, checks, sandbox, claims, faults>>

(* getProcess for a stored process id: an attempt that is retried adopts the   *)
(* process an earlier attempt started.                                        *)
RecoverProcess ==
  /\ At({"start"}, "process")
  /\ LET found == rec.processId /\ proc[rec.sandboxId] # "absent" IN
       /\ rec' = [rec EXCEPT !.processId = TRUE]
       /\ Goto(IF found THEN "record" ELSE "launch")
  /\ UNCHANGED <<handled, alarms, late, checks, sandbox, claims, faults>>

StartProcess ==
  /\ At({"start"}, "launch")
  /\ LET s == rec.sandboxId IN
       /\ box' = [box EXCEPT ![s] = "up"]
       /\ proc' = [proc EXCEPT ![s] = IF @ = "running" THEN "twice" ELSE "running"]
  /\ \/ Goto("record") /\ UNCHANGED <<fired, faults>>
     \/ Fault /\ Finish("threw")                \* the response is lost
  /\ UNCHANGED <<durable, alarm, late, checks, exited, claims>>

SaveDeadline ==
  /\ At({"start"}, "record")
  /\ rec' = [rec EXCEPT !.deadlineAt = TRUE]
  /\ late' = FALSE
  /\ Goto("run")
  /\ UNCHANGED <<handled, alarms, checks, sandbox, claims, faults>>

TransitionRunning ==
  /\ At({"start"}, "run")
  /\ rec' = [rec EXCEPT !.state = "running"]
  /\ Goto("schedule")
  /\ UNCHANGED <<handled, alarms, late, checks, sandbox, claims, faults>>

(* Faulty variant: the first poll is not scheduled.                            *)
NoFirstAlarm ==
  /\ At({"start"}, "schedule")
  /\ Finish("returned")
  /\ UNCHANGED <<durable, alarm, late, checks, sandbox, claims, faults>>

SetAlarm ==
  /\ At({"start"}, "schedule")
  /\ alarm' = TRUE
  /\ Finish("returned")
  /\ UNCHANGED <<durable, late, checks, sandbox, claims, faults>>

(* A call of GitHub or of the Sandbox service fails with no effect, or with    *)
(* the container up and no process.  start rethrows to the queue consumer.     *)
StartThrows ==
  /\ \E s \in {"policy", "createCheck", "process", "launch"} : At({"start"}, s)
  /\ Fault /\ Finish("threw")
  /\ \/ box' = box
     \/ op.step = "launch" /\ box' = [box EXCEPT ![rec.sandboxId] = "up"]
  /\ UNCHANGED <<durable, alarm, late, checks, proc, exited, claims>>

(* Faulty variant: start replaces an execution whose settlement failed.        *)
StartAnyway ==
  /\ At({"start"}, "settled") /\ Goto("claim")
  /\ UNCHANGED <<durable, alarms, late, checks, sandbox, claims, faults>>

(* start settled the previous execution: it goes on only if nothing is owed.   *)
StartSettled ==
  /\ At({"start"}, "settled")
  /\ IF Pending THEN Finish("threw") ELSE Goto("claim") /\ UNCHANGED fired
  /\ UNCHANGED <<durable, alarm, late, checks, sandbox, claims, faults>>

-----------------------------------------------------------------------------
(* failStart and supersede.                                                  *)

(* Faulty variant: a job in provisioning is taken for one that has started.     *)
failStartQueuedOnly(m) ==
  /\ serial("failStart", m,
       CASE rec = None -> "createQueued"
         [] rec # None /\ rec.message # None /\ ~OwnDelivery(m) -> "settled"
         [] OTHER -> IF rec.state = "queued" THEN "provision" ELSE "settled")
  /\ UNCHANGED <<durable, alarms, late, checks, sandbox, claims, faults>>

failStart(m) ==
  /\ serial("failStart", m,
       CASE rec = None -> "createQueued"
         [] rec # None /\ rec.message # None /\ ~OwnDelivery(m) -> "settled"
         [] rec # None /\ rec.state \notin {"queued", "provisioning"} -> "settled"
         [] OTHER -> IF rec.state = "queued" THEN "provision" ELSE "flag")
  /\ UNCHANGED <<durable, alarms, late, checks, sandbox, claims, faults>>

CreateQueued ==
  /\ At({"failStart"}, "createQueued")
  /\ rec' = queuedRecord(op.message, None)
  /\ Goto("provision")
  /\ UNCHANGED <<handled, alarms, late, checks, sandbox, claims, faults>>

TransitionProvisioning ==
  /\ At({"failStart"}, "provision")
  /\ rec' = [rec EXCEPT !.state = "provisioning"]
  /\ Goto("flag")
  /\ UNCHANGED <<handled, alarms, late, checks, sandbox, claims, faults>>

supersede ==
  /\ serial("supersede", None,
       IF rec = None THEN "tombstone" ELSE IF Terminal THEN "settled" ELSE "flag")
  /\ UNCHANGED <<durable, alarms, late, checks, sandbox, claims, faults>>

(* A head superseded before its own message arrived leaves a tombstone.       *)
Tombstone ==
  /\ At({"supersede"}, "tombstone")
  /\ rec' = [NewRecord("superseded", None, FALSE) EXCEPT !.conclusion = "neutral"]
  /\ Goto("settled")
  /\ UNCHANGED <<handled, alarms, late, checks, sandbox, claims, faults>>

(* failStart, supersede and timeOut store what will be owed, then move.       *)
FlagObligations ==
  /\ At({"failStart", "supersede", "alarm"}, "flag")
  /\ rec' = [rec EXCEPT !.conclusion = "neutral",
                        !.checkUpdatePending = rec.checkRunId # None,
                        !.cleanupPending = rec.sandboxId # None]
  /\ Goto("mark")
  /\ UNCHANGED <<handled, alarms, late, checks, sandbox, claims, faults>>

TargetState(k) == CASE k = "failStart" -> "failed"
                    [] k = "supersede" -> "superseded"
                    [] OTHER -> "timed_out"

MarkTerminal ==
  /\ At({"failStart", "supersede", "alarm"}, "mark")
  /\ canTransition(rec.state, TargetState(op.kind))
  /\ rec' = [rec EXCEPT !.state = TargetState(op.kind)]
  /\ Goto(SettleFrom(op.kind, rec))
  /\ UNCHANGED <<handled, alarms, late, checks, sandbox, claims, faults>>

(* transition() throws; only an alarm reaches this, and its handler re-arms.   *)
MarkThrows ==
  /\ At({"alarm"}, "mark")
  /\ ~canTransition(rec.state, TargetState(op.kind))
  /\ alarm' = TRUE /\ Finish("idle")
  /\ UNCHANGED <<durable, late, checks, sandbox, claims, faults>>

-----------------------------------------------------------------------------
(* The alarm.                                                                *)

(* The platform delivers a scheduled alarm; the handler waits its turn.        *)
AlarmFires ==
  /\ alarm /\ ~fired
  /\ alarm' = FALSE /\ fired' = TRUE
  /\ UNCHANGED <<durable, op, late, checks, sandbox, claims, faults>>

DeadlineReached == rec.deadlineAt /\ late

BeginAlarm ==
  /\ fired
  /\ serial(IF Live /\ ~DeadlineReached /\ rec.state = "publishing"
              THEN "publish" ELSE "alarm",
            None,
            CASE rec = None -> "settled"
              [] Terminal -> SettleFrom("alarm", rec)
              [] Live /\ DeadlineReached -> "flag"
              [] Live /\ ~DeadlineReached /\ rec.state = "publishing" -> "collect"
              [] OTHER -> "poll")
  /\ UNCHANGED <<durable, alarms, late, checks, sandbox, claims, faults>>

(* The catch of the alarm handler: re-arm and end.                            *)
Rearm == alarm' = TRUE /\ Finish("idle")

(* A job still in provisioning has no process to poll.                        *)
PollThrows ==
  /\ At({"alarm"}, "poll")
  /\ \/ rec.state # "running" /\ UNCHANGED faults
     \/ Fault
  /\ Rearm
  /\ UNCHANGED <<durable, late, checks, sandbox, claims>>

PollHealthy ==
  /\ At({"alarm"}, "poll")
  /\ rec.state = "running" /\ proc[rec.sandboxId] \in {"running", "twice"}
  /\ Rearm
  /\ UNCHANGED <<durable, late, checks, sandbox, claims, faults>>

(* The process ended, or the SDK no longer knows it.                          *)
PollEnded ==
  /\ At({"alarm"}, "poll")
  /\ rec.state = "running" /\ proc[rec.sandboxId] \in {"exited", "absent"}
  /\ rec' = [rec EXCEPT !.state = "publishing"]
  /\ op' = [op EXCEPT !.step = "collect",
                      !.kind = IF proc[rec.sandboxId] = "exited" THEN "publish"
                                                                ELSE "publishLost"]
  /\ UNCHANGED <<handled, alarms, late, checks, sandbox, claims, faults>>

(* persistTerminalDiagnostics: a forced path asks a process still writing to    *)
(* stop, finalizes the Python contract once, and copies the artifacts.  A       *)
(* container that was destroyed is started again by the exec.                   *)
Forced == \/ op.kind = "publishLost"
          \/ rec.state \in {"timed_out", "superseded", "failed"}

PersistDiagnostics ==
  LET s == rec.sandboxId
      active == proc[s] \in {"running", "twice"}
      Killed == /\ proc' = [proc EXCEPT ![s] = IF active THEN "exited" ELSE @]
                /\ exited' = [exited EXCEPT ![s] = IF active THEN "broken" ELSE @]
      Finalizes == ~rec.diagnosticsFinalized
  IN
  \/ /\ IF Finalizes /\ Forced THEN Killed ELSE UNCHANGED <<proc, exited>>
     /\ rec' = [rec EXCEPT !.diagnosticsFinalized = TRUE]
     /\ box' = [box EXCEPT ![s] = "up"]
     /\ UNCHANGED faults
  \/ /\ Finalizes /\ Fault                       \* finalization is swallowed
     /\ (Forced /\ Killed) \/ UNCHANGED <<proc, exited>>
     /\ box' \in {box, [box EXCEPT ![s] = "up"]}
     /\ rec' = rec

(* finishPublishing, up to the mapping of the result.  The contract of the       *)
(* artifacts or of the summary may be invalid whatever the exit; a process the   *)
(* SDK lost may have left its contract behind.                                  *)
Collect ==
  /\ At({"publish", "publishLost"}, "collect")
  /\ PersistDiagnostics
  /\ \E o \in IF op.kind = "publishLost" THEN {"broken"}
                                         ELSE {exited[rec.sandboxId], "broken"} :
       /\ o # "none"
       /\ op' = [op EXCEPT !.step = "report",
                   !.verdict = checkConclusionForResult(o, rec.policy)]
  /\ UNCHANGED <<handled, alarms, late, checks, claims>>

ReportCheck ==
  /\ At({"publish", "publishLost"}, "report")
  /\ checks' = [checks EXCEPT ![rec.checkRunId] = op.verdict.conclusion]
  /\ \/ Goto("conclude") /\ UNCHANGED <<alarm, fired, faults>>
     \/ Fault /\ Rearm                           \* the response is lost
  /\ UNCHANGED <<durable, late, sandbox, claims>>

ReportThrows ==
  /\ At({"publish", "publishLost"}, "report")
  /\ Fault /\ Rearm
  /\ UNCHANGED <<durable, late, checks, sandbox, claims>>

Conclude ==
  /\ At({"publish", "publishLost"}, "conclude")
  /\ rec' = [rec EXCEPT !.conclusion = op.verdict.conclusion,
                        !.cleanupPending = rec.sandboxId # None,
                        !.reviewCompleted = @ \/ op.verdict.reviewed]
  /\ Goto("close")
  /\ UNCHANGED <<handled, alarms, late, checks, sandbox, claims, faults>>

Close ==
  /\ At({"publish", "publishLost"}, "close")
  /\ rec' = [rec EXCEPT !.state = op.verdict.terminalState]
  /\ op' = [op EXCEPT !.step = SettleFrom(op.kind, rec), !.verdict = None]
  /\ UNCHANGED <<handled, alarms, late, checks, sandbox, claims, faults>>

-----------------------------------------------------------------------------
(* Settlement of a terminal record.                                           *)

Settling == {"start", "failStart", "supersede"} \cup Alarms

Diagnose ==
  /\ At(Settling, "diagnose")
  /\ PersistDiagnostics
  /\ Goto("destroy")
  /\ UNCHANGED <<handled, alarms, late, checks, claims>>

DestroySandbox ==
  /\ At(Settling, "destroy")
  /\ box' = [box EXCEPT ![rec.sandboxId] = "destroyed"]
  /\ proc' = [proc EXCEPT ![rec.sandboxId] = "absent"]
  /\ Goto("saveDestroyed")
  /\ UNCHANGED <<durable, alarms, late, checks, exited, claims, faults>>

SaveDestroyed ==
  /\ At(Settling, "saveDestroyed")
  /\ rec' = [rec EXCEPT !.cleanupPending = FALSE]
  /\ Goto(AfterCleanup(op.kind, rec))
  /\ UNCHANGED <<handled, alarms, late, checks, sandbox, claims, faults>>

(* Faulty variant: a failed destruction is not retried.                        *)
DestroyFailsForGood ==
  /\ At(Settling, "destroy")
  /\ Fault
  /\ Goto(AfterCleanup(op.kind, rec))
  /\ UNCHANGED <<durable, alarms, late, checks, sandbox, claims>>

(* A destruction that fails is stored as still owed, and then an alarm is scheduled.   *)
DestroyFails ==
  /\ At(Settling, "destroy")
  /\ Fault
  /\ Goto("saveUndestroyed")
  /\ UNCHANGED <<durable, alarms, late, checks, sandbox, claims>>

SaveUndestroyed ==
  /\ At(Settling, "saveUndestroyed")
  /\ rec' = [rec EXCEPT !.cleanupPending = TRUE]
  /\ Goto("rearmCleanup")
  /\ UNCHANGED <<handled, alarms, late, checks, sandbox, claims, faults>>

RearmCleanup ==
  /\ At(Settling, "rearmCleanup")
  /\ alarm' = TRUE
  /\ Goto(AfterCleanup(op.kind, rec))
  /\ UNCHANGED <<durable, fired, late, checks, sandbox, claims, faults>>

(* updateNeutralBestEffort reports whether GitHub answered.                    *)
UpdateNeutral ==
  /\ At(Settling, "neutral")
  /\ checks' = IF rec.message = None \/ rec.checkRunId = None THEN checks
               ELSE [checks EXCEPT ![rec.checkRunId] = "neutral"]
  /\ Goto("saveNeutral")
  /\ UNCHANGED <<durable, alarms, late, sandbox, claims, faults>>

SaveNeutral ==
  /\ At(Settling, "saveNeutral")
  /\ rec' = [rec EXCEPT !.conclusion = "neutral", !.checkUpdatePending = FALSE]
  /\ Goto("settled")
  /\ UNCHANGED <<handled, alarms, late, checks, sandbox, claims, faults>>

(* Faulty variant: a failed update is taken for done.                          *)
UpdateNeutralForgotten ==
  /\ At(Settling, "neutral")
  /\ Fault
  /\ rec' = [rec EXCEPT !.conclusion = "neutral", !.checkUpdatePending = FALSE]
  /\ Goto("settled")
  /\ UNCHANGED <<handled, alarms, late, checks, sandbox, claims>>

(* A failed update, which may have reached GitHub, stays owed; then the alarm.        *)
UpdateNeutralFails ==
  /\ At(Settling, "neutral")
  /\ Fault
  /\ \/ checks' = checks
     \/ rec.checkRunId # None
        /\ checks' = [checks EXCEPT ![rec.checkRunId] = "neutral"]
  /\ Goto("saveOwed")
  /\ UNCHANGED <<durable, alarms, late, sandbox, claims>>

SaveOwed ==
  /\ At(Settling, "saveOwed")
  /\ rec' = [rec EXCEPT !.conclusion = "neutral", !.checkUpdatePending = TRUE]
  /\ Goto("rearmCheck")
  /\ UNCHANGED <<handled, alarms, late, checks, sandbox, claims, faults>>

RearmCheck ==
  /\ At(Settling, "rearmCheck")
  /\ alarm' = TRUE
  /\ Goto("settled")
  /\ UNCHANGED <<durable, fired, late, checks, sandbox, claims, faults>>

Settled ==
  /\ At(Settling \ {"start"}, "settled")
  /\ Finish("returned")
  /\ UNCHANGED <<durable, alarm, late, checks, sandbox, claims, faults>>

-----------------------------------------------------------------------------
(* The platform, the Sandbox service and the clock.                           *)

(* Eviction loses the operation in progress; the storage stays, and an alarm     *)
(* whose handler did not finish is delivered again.                             *)
Evict ==
  /\ op.step \notin EndSteps /\ <<op.kind, op.step>> \in CrashPoints
  /\ Fault
  /\ op' = Ended("evicted")
  /\ alarm' = (alarm \/ fired) /\ fired' = FALSE
  /\ UNCHANGED <<durable, late, checks, sandbox, claims>>

ReviewExits ==
  /\ \E s \in Sandboxes, o \in Outcomes :
       /\ proc[s] \in {"running", "twice"}
       /\ proc' = [proc EXCEPT ![s] = "exited"]
       /\ exited' = [exited EXCEPT ![s] = o]
  /\ UNCHANGED <<durable, alarms, op, late, checks, box, claims, faults>>

ContainerLost ==
  /\ \E s \in Sandboxes : /\ proc[s] # "absent"
                          /\ proc' = [proc EXCEPT ![s] = "absent"]
  /\ Fault
  /\ UNCHANGED <<durable, alarms, op, late, checks, box, exited, claims>>

DeadlinePasses ==
  /\ rec # None /\ rec.deadlineAt /\ ~late
  /\ late' = TRUE
  /\ UNCHANGED <<durable, alarms, op, checks, sandbox, claims, faults>>

-----------------------------------------------------------------------------

StartStep == \/ ClaimFresh \/ ClaimResumed \/ NotClaimed \/ ReadPolicy
             \/ CreateCheckRun \/ SaveCheckRunId \/ RejectPolicy
             \/ AllocateSandbox \/ RecoverProcess \/ StartProcess
             \/ SaveDeadline \/ TransitionRunning \/ SetAlarm
             \/ StartThrows \/ StartSettled

StopStep == \/ CreateQueued \/ TransitionProvisioning \/ Tombstone
            \/ FlagObligations \/ MarkTerminal \/ MarkThrows

PublishStep == \/ PollThrows \/ PollHealthy \/ PollEnded \/ Collect
               \/ ReportCheck \/ ReportThrows \/ Conclude \/ Close

SettleStep == \/ Diagnose \/ DestroySandbox \/ SaveDestroyed
              \/ DestroyFails \/ SaveUndestroyed \/ RearmCleanup
              \/ UpdateNeutral \/ SaveNeutral
              \/ UpdateNeutralFails \/ SaveOwed \/ RearmCheck \/ Settled

(* One await of the operation in progress.                                    *)
OpStep == StartStep \/ StopStep \/ PublishStep \/ SettleStep

Environment == AlarmFires \/ Evict \/ ReviewExits \/ ContainerLost \/ DeadlinePasses

(* The callers are open here: any message may be delivered at any time, any      *)
(* number of times and in any order.  ReviewQueue closes them.                  *)
Next == \/ \E m \in Messages : start(m) \/ failStart(m)
        \/ supersede
        \/ BeginAlarm
        \/ OpStep
        \/ Environment

Spec == Init /\ [][Next]_vars

-----------------------------------------------------------------------------
(* Properties.                                                               *)

TypeOK ==
  /\ rec \in Record \cup {None}
  /\ handled \subseteq Identities
  /\ alarm \in BOOLEAN /\ fired \in BOOLEAN /\ late \in BOOLEAN
  /\ op \in Operation
  /\ checks \in [CheckRuns -> {"none", "in_progress", "success", "failure", "neutral"}]
  /\ box \in [Sandboxes -> {"none", "named", "up", "destroyed"}]
  /\ proc \in [Sandboxes -> {"absent", "running", "exited", "twice"}]
  /\ exited \in [Sandboxes -> Outcomes \cup {"none"}]
  /\ claims \in [Identities -> Nat]
  /\ faults \in Nat

(* A sandbox that holds a container or a review process is the one the stored   *)
(* record names, and once that record is terminal its cleanup is still owed: no  *)
(* interleaving of retries, reruns, supersessions and evictions leaks one.       *)
NoSandboxLeak ==
  \A s \in Sandboxes : box[s] = "up" \/ proc[s] # "absent" =>
    /\ rec # None /\ rec.sandboxId = s
    /\ isTerminalState(rec.state) => rec.cleanupPending

(* Two review processes never run for one head: not in one sandbox, where a     *)
(* retried start must adopt the process, nor in two.                            *)
OneReviewProcess ==
  /\ \A s \in Sandboxes : proc[s] # "twice"
  /\ \A s, t \in Sandboxes : proc[s] = "running" /\ proc[t] = "running" => s = t

(* However often a delivery is repeated, reordered or retried after an           *)
(* eviction, its identity claims at most one execution.                         *)
ClaimedOnce == \A i \in Identities : claims[i] <= 1

(* A conclusive check has evidence: the review process of this very execution    *)
(* ended with that status.                                                      *)
ConclusionHasEvidence ==
  rec # None /\ rec.checkRunId # None =>
    /\ checks[rec.checkRunId] = "success" => exited[rec.sandboxId] = "pass"
    /\ checks[rec.checkRunId] = "failure" => exited[rec.sandboxId] = "block"

(* What GitHub shows is what the record says, whenever nothing is owed and no     *)
(* operation is between a call and its write.                                   *)
SettledCheckAgrees ==
  (/\ Terminal /\ ~rec.cleanupPending /\ ~rec.checkUpdatePending
   /\ rec.checkRunId # None)
    => checks[rec.checkRunId] = rec.conclusion

(* A job whose work has begun is never left to nobody: whenever no operation is in      *)
(* progress, an alarm that will poll it, or notice its deadline, is scheduled or       *)
(* already delivered.  start schedules it in a write of its own, and the handler, which  *)
(* consumes it, re-arms on each of its ways out.                                *)
WorkIsPolled ==
  rec # None /\ rec.state \in {"running", "publishing"} /\ op.step \in EndSteps
    => alarm \/ fired

(* Nor is the debt of a terminal job: a sandbox to destroy or a check to complete has     *)
(* an alarm that retries it, whichever operation incurred it and failed to settle it.    *)
DebtIsRetried == Terminal /\ Pending /\ op.step \in EndSteps => alarm \/ fired

(* A rerun never abandons what the execution before it still owes: the check      *)
(* run it replaces is completed and the sandbox it replaces holds nothing.        *)
ReplacesSettled ==
  [][rec # None /\ rec' # rec =>
       /\ rec.checkRunId # None /\ rec'.checkRunId # rec.checkRunId
            => checks[rec.checkRunId] # "in_progress"
       /\ rec.sandboxId # None /\ rec'.sandboxId # rec.sandboxId
            => box[rec.sandboxId] # "up"]_vars

(* "Persistence or cleanup failures MUST preserve the original terminal            *)
(* classification" (openspec/specs/cloud-app-platform/spec.md:299): a job that     *)
(* completed keeps its conclusion until an explicit rerun replaces it.            *)
ClassificationPreserved ==
  [][rec # None /\ rec' # None /\ rec.state = "completed" /\ rec'.state = "completed"
       => rec'.conclusion = rec.conclusion]_vars

(* The object implements what JobLifecycle promises to the readers of status().   *)
Lifecycle == INSTANCE JobLifecycle WITH
  state      <- IF rec = None THEN "absent" ELSE rec.state,
  conclusion <- IF Terminal THEN rec.conclusion ELSE None,
  owed       <- IF Terminal THEN {o \in {"cleanup", "check"} :
                                   IF o = "cleanup" THEN rec.cleanupPending
                                                    ELSE rec.checkUpdatePending}
                            ELSE {},
  reviewed   <- rec # None /\ rec.reviewCompleted

LifecycleSpec == Lifecycle!Spec

(* The job as HeadJob shows it to its callers.                                 *)
jobSeen ==
  [state    |-> IF rec = None THEN "absent" ELSE IF Terminal THEN "ended" ELSE "live",
   message  |-> IF rec = None THEN None ELSE rec.message,
   handled  |-> handled,
   reviewed |-> rec # None /\ rec.reviewCompleted]

SeenStep ==
  \/ /\ At({"start"}, "claim")
     /\ jobSeen' \in started(jobSeen, op.message)
     /\ claims' = IF mayStart(jobSeen, op.message)
                    THEN [claims EXCEPT ![deliveryIdentity(op.message)] = @ + 1] ELSE claims
  \/ /\ UNCHANGED claims
     /\ \/ op.kind = "failStart" /\ jobSeen' \in givenUp(jobSeen, op.message)
        \/ op.kind = "supersede" /\ jobSeen' = ended(jobSeen)
        \/ jobSeen.state = "live" /\ jobSeen' \in {concluded(jobSeen), ended(jobSeen)}

(* Callers see the job take no step but those Webhook composes, and an execution is   *)
(* claimed exactly when those say so.                                          *)
SeenByCallers == jobSeen = newJob /\ [][SeenStep]_<<jobSeen, claims>>

=============================================================================
