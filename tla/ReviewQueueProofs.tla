------------------------- MODULE ReviewQueueProofs -------------------------
(***************************************************************************)
(* Proofs about ReviewQueue.  A step of the queue is a step of the object,  *)
(* so the invariants of ReviewJobProofs carry over; two more tie the        *)
(* operation in progress to the message it was called for.                  *)
(***************************************************************************)
EXTENDS ReviewQueue, ReviewJobProofs

Unstarted == rec # None /\ rec.state \in {"queued", "provisioning"}

(* An operation that has claimed its execution has handled its message.               *)
HandledInv ==
  /\ op.kind = "none" <=> op.step \in EndSteps
  /\ op.kind = "start" /\ op.step \in StartSteps \cup {"schedule"}
       => deliveryIdentity(op.message) \in handled

(* What one await may do to the operation, as far as its caller can tell.             *)
HandledMove ==
  /\ handled \subseteq handled'
  /\ op'.kind \in {"start", "failStart"} => op.kind = op'.kind /\ op.message = op'.message
  /\ op.kind \in {"start", "failStart"} => op'.kind = op.kind \/ op'.step \in EndSteps
  /\ op.kind = "start" /\ op'.step = "returned" => deliveryIdentity(op.message) \in handled'

(* A job that has not started: a join never claims it, and a finalization that finds      *)
(* it was called for another message.                                           *)
DutyInv ==
  /\ op.step = "schedule" => rec # None /\ rec.state = "running"
  /\ Unstarted => rec.message \in Messages
  /\ Unstarted /\ op.kind # "failStart" => ~rec.message.skipped
  /\ Unstarted /\ op.kind = "failStart" /\ op.step = "settled"
       => ~rec.message.skipped /\ rec.message # op.message

(* A start that returned, and a failStart that ended, leave their own message no job      *)
(* to start; only a call that goes on makes one.                                 *)
DutyMove ==
  /\ op.kind = "start" /\ op'.step = "returned"
       => ~(Unstarted' /\ rec'.message = op.message)
  /\ op.kind = "failStart" /\ op'.step \in EndSteps
       => ~(Unstarted' /\ rec'.message = op.message)
  /\ Unstarted' => \/ Unstarted /\ rec'.message = rec.message
                   \/ /\ op.kind \in {"start", "failStart"} /\ op'.step \notin EndSteps
                      /\ rec'.message = op.message

(* The object is not evicted while it finalizes a job.                             *)
FinalizationRuns == \A s \in Steps : <<"failStart", s>> \notin CrashPoints

LEMMA FinishedOp ==
  ASSUME NEW s, Finish(s)
  PROVE  op'.step = s /\ op'.kind = "none"
BY DEF Finish, Ended

-----------------------------------------------------------------------------
(* One await at a time: what is handled, and what a caller is told. *)

LEMMA StartHandled ==
  ASSUME IInv, HandledInv, StartStep
  PROVE  HandledInv' /\ HandledMove
<1> USE DEF HandledInv, HandledMove, At, EndSteps
<1>1. CASE ClaimFresh
  BY <1>1 DEF ClaimFresh, Goto, Handle, Fresh, OwnDelivery, queuedRecord, NewRecord
<1>2. CASE ClaimResumed
  BY <1>2 DEF ClaimResumed, Goto, Handle, Resumed, OwnDelivery
<1>3. CASE NotClaimed
  BY <1>3 DEF NotClaimed, Finish, Ended, Handle, Fresh, Resumed, OwnDelivery, Alarms
<1>4. CASE ReadPolicy
  BY <1>4 DEF ReadPolicy, Goto, IInv, TypeOK, Operation, StartSteps, AwaitInv
<1>5. CASE CreateCheckRun
  <2>1. op.step = "createCheck" /\ op.kind = "start" /\ UNCHANGED <<rec, handled>>
    BY <1>5 DEF CreateCheckRun, durable
  <2>2. \/ op'.step = "saveCheck" /\ op'.kind = op.kind /\ op'.message = op.message
        \/ op'.step = "threw" /\ op'.kind = "none"
    BY <1>5, FinishedOp DEF CreateCheckRun, Operation, IInv, TypeOK
  <2> QED
    BY <2>1, <2>2 DEF IInv, AwaitInv, StartSteps
<1>6. CASE SaveCheckRunId
  BY <1>6 DEF SaveCheckRunId, IInv, TypeOK, Operation, StartSteps, AwaitInv
<1>7. CASE RejectPolicy
  BY <1>7 DEF RejectPolicy, durable, Finish, Ended, Alarms
<1>8. CASE AllocateSandbox
  BY <1>8 DEF AllocateSandbox, Goto, IInv, TypeOK, Operation, StartSteps, AwaitInv
<1>9. CASE RecoverProcess
  BY <1>9 DEF RecoverProcess, Goto, IInv, TypeOK, Operation, StartSteps, AwaitInv
<1>10. CASE StartProcess
  <2>1. op.step = "launch" /\ op.kind = "start" /\ UNCHANGED <<rec, handled>>
    BY <1>10 DEF StartProcess, durable
  <2>2. \/ op'.step = "record" /\ op'.kind = op.kind /\ op'.message = op.message
        \/ op'.step = "threw" /\ op'.kind = "none"
    BY <1>10, FinishedOp, GotoType DEF StartProcess, IInv, TypeOK, Steps
  <2> QED
    BY <2>1, <2>2 DEF IInv, AwaitInv, StartSteps
<1>11. CASE SaveDeadline
  BY <1>11 DEF SaveDeadline, Goto, IInv, TypeOK, Operation, StartSteps, AwaitInv
<1>12. CASE TransitionRunning
  BY <1>12 DEF TransitionRunning, Goto, IInv, TypeOK, Operation, StartSteps, AwaitInv
<1>13. CASE SetAlarm
  BY <1>13 DEF SetAlarm, durable, Finish, Ended, Alarms
<1>14. CASE StartThrows
  BY <1>14 DEF StartThrows, durable, Finish, Ended, Alarms
<1>15. CASE StartSettled
  <2>1. op.step = "settled" /\ op.kind = "start" /\ UNCHANGED <<rec, handled>>
    BY <1>15 DEF StartSettled, durable
  <2>2. \/ op'.step = "claim" /\ op'.kind = op.kind /\ op'.message = op.message
        \/ op'.step = "threw" /\ op'.kind = "none"
    BY <1>15, FinishedOp, GotoType DEF StartSettled, IInv, TypeOK, Steps
  <2> QED
    BY <2>1, <2>2 DEF StartSteps
<1> QED
  BY <1>1, <1>2, <1>3, <1>4, <1>5, <1>6, <1>7, <1>8, <1>9, <1>10, <1>11, <1>12, <1>13,
     <1>14, <1>15 DEF StartStep

LEMMA StopHandled ==
  ASSUME IInv, HandledInv, StopStep
  PROVE  HandledInv' /\ HandledMove
<1> USE DEF HandledInv, HandledMove, At, EndSteps
<1>1. CASE CreateQueued
  BY <1>1 DEF CreateQueued, Goto, queuedRecord, NewRecord
<1>2. CASE TransitionProvisioning
  BY <1>2 DEF TransitionProvisioning, Goto
<1>3. CASE Tombstone
  BY <1>3 DEF Tombstone, Goto, NewRecord
<1>4. CASE FlagObligations
  BY <1>4 DEF FlagObligations, Goto
<1>5. CASE MarkTerminal
  BY <1>5 DEF MarkTerminal, Goto, SettleFrom, TargetState, AfterCleanup
<1>6. CASE MarkThrows
  BY <1>6 DEF MarkThrows, durable, Finish, Ended, TargetState, Alarms
<1> QED
  BY <1>1, <1>2, <1>3, <1>4, <1>5, <1>6 DEF StopStep

LEMMA PublishHandled ==
  ASSUME IInv, HandledInv, PublishStep
  PROVE  HandledInv' /\ HandledMove
<1> USE DEF HandledInv, HandledMove, At, EndSteps
<1>1. CASE PollThrows
  BY <1>1 DEF PollThrows, durable, Rearm, Finish, Ended, Alarms
<1>2. CASE PollHealthy
  BY <1>2 DEF PollHealthy, durable, Rearm, Finish, Ended, Alarms
<1>3. CASE PollEnded
  BY <1>3 DEF PollEnded
<1>4. CASE Collect
  BY <1>4 DEF Collect, PersistDiagnostics
<1>5. CASE ReportCheck
  <2>1. op.step = "report" /\ op.kind \in {"publish", "publishLost"} /\ UNCHANGED <<rec, handled>>
    BY <1>5 DEF ReportCheck, durable
  <2>2. \/ op'.step = "conclude" /\ op'.kind = op.kind /\ op'.message = op.message
        \/ op'.step = "idle" /\ op'.kind = "none"
    BY <1>5, FinishedOp, GotoType DEF ReportCheck, Rearm, IInv, TypeOK, Steps
  <2> QED
    BY <2>1, <2>2 DEF StartSteps
<1>6. CASE ReportThrows
  BY <1>6 DEF ReportThrows, durable, Rearm, Finish, Ended, Alarms
<1>7. CASE Conclude
  BY <1>7 DEF Conclude, Goto
<1>8. CASE Close
  BY <1>8 DEF Close, SettleFrom, AfterCleanup
<1> QED
  BY <1>1, <1>2, <1>3, <1>4, <1>5, <1>6, <1>7, <1>8 DEF PublishStep

LEMMA SettleHandled ==
  ASSUME IInv, HandledInv, SettleStep
  PROVE  HandledInv' /\ HandledMove
<1> USE DEF HandledInv, HandledMove, At, EndSteps
<1>1. CASE Diagnose
  BY <1>1 DEF Diagnose, PersistDiagnostics, Goto, Settling, Alarms, IInv, TypeOK,
     Operation, StartSteps, AwaitInv
<1>2. CASE DestroySandbox
  BY <1>2 DEF DestroySandbox, durable, Goto, Settling, Alarms, IInv, TypeOK, Operation,
     StartSteps, AwaitInv
<1>3. CASE SaveDestroyed
  BY <1>3 DEF SaveDestroyed, Goto, AfterCleanup, Settling, Alarms, IInv, TypeOK,
     Operation, StartSteps, AwaitInv
<1>4. CASE DestroyFails
  BY <1>4 DEF DestroyFails, durable, Goto, Settling, Alarms, IInv, TypeOK, Operation,
     StartSteps, AwaitInv
<1>5. CASE UpdateNeutral
  BY <1>5 DEF UpdateNeutral, durable, Goto, Settling, Alarms, IInv, TypeOK, Operation,
     StartSteps, AwaitInv
<1>6. CASE SaveNeutral
  BY <1>6 DEF SaveNeutral, Goto, Settling, Alarms, IInv, TypeOK, Operation, StartSteps,
     AwaitInv
<1>7. CASE UpdateNeutralFails
  BY <1>7 DEF UpdateNeutralFails, durable, Goto, Settling, Alarms, IInv, TypeOK, Operation,
     StartSteps, AwaitInv
<1>8. CASE Settled
  BY <1>8 DEF Settled, durable, Finish, Ended, Settling, Alarms
<1>9. CASE SaveUndestroyed
  BY <1>9 DEF SaveUndestroyed, Goto, Settling, Alarms, IInv, TypeOK, Operation, StartSteps,
     AwaitInv
<1>10. CASE RearmCleanup
  BY <1>10 DEF RearmCleanup, durable, Goto, AfterCleanup, Settling, Alarms, IInv, TypeOK,
     Operation, StartSteps, AwaitInv
<1>11. CASE SaveOwed
  BY <1>11 DEF SaveOwed, Goto, Settling, Alarms, IInv, TypeOK, Operation, StartSteps,
     AwaitInv
<1>12. CASE RearmCheck
  BY <1>12 DEF RearmCheck, durable, Goto, Settling, Alarms, IInv, TypeOK, Operation,
     StartSteps, AwaitInv
<1> QED
  BY <1>1, <1>2, <1>3, <1>4, <1>5, <1>6, <1>7, <1>8, <1>9, <1>10, <1>11, <1>12
  DEF SettleStep

LEMMA EnvironmentHandled ==
  ASSUME IInv, HandledInv, Environment
  PROVE  HandledInv' /\ HandledMove
<1> USE DEF HandledInv, HandledMove, At, EndSteps
<1>1. CASE AlarmFires
  BY <1>1 DEF AlarmFires, durable
<1>2. CASE Evict
  BY <1>2 DEF Evict, durable, Ended
<1>3. CASE ReviewExits
  BY <1>3 DEF ReviewExits, durable
<1>4. CASE ContainerLost
  BY <1>4 DEF ContainerLost, durable
<1>5. CASE DeadlinePasses
  BY <1>5 DEF DeadlinePasses, durable
<1> QED
  BY <1>1, <1>2, <1>3, <1>4, <1>5 DEF Environment

-----------------------------------------------------------------------------
(* One await at a time: the job that has not started. *)

LEMMA StartDuty ==
  ASSUME IInv, CheckInv, HandledInv, DutyInv, StartStep
  PROVE  DutyInv' /\ DutyMove
<1> USE DEF DutyInv, DutyMove, Unstarted, At, EndSteps, HandledInv
<1>1. CASE ClaimFresh
  BY <1>1 DEF ClaimFresh, Goto, Handle, Fresh, OwnDelivery, queuedRecord, NewRecord, IInv,
     TypeOK, Operation, StartSteps, AwaitInv
<1>2. CASE ClaimResumed
  BY <1>2 DEF ClaimResumed, Goto, Handle, Resumed, OwnDelivery, IInv, TypeOK, Operation,
     StartSteps, AwaitInv
<1>3. CASE NotClaimed
  BY <1>3, ContractStates DEF NotClaimed, Finish, Ended, Handle, Fresh, Resumed,
     OwnDelivery, Alarms, IInv, TypeOK, Operation, StartSteps, AwaitInv, Record, Terminal,
     Live, CheckInv, CheckRecord
<1>4. CASE ReadPolicy
  BY <1>4 DEF ReadPolicy, Goto, IInv, TypeOK, Operation, StartSteps, AwaitInv
<1>5. CASE CreateCheckRun
  <2>1. op.step = "createCheck" /\ op.kind = "start" /\ UNCHANGED <<rec, handled>>
    BY <1>5 DEF CreateCheckRun, durable
  <2>2. \/ op'.step = "saveCheck" /\ op'.kind = op.kind /\ op'.message = op.message
        \/ op'.step = "threw" /\ op'.kind = "none"
    BY <1>5, FinishedOp DEF CreateCheckRun, Operation, IInv, TypeOK
  <2> QED
    BY <2>1, <2>2 DEF IInv, AwaitInv, StartSteps
<1>6. CASE SaveCheckRunId
  BY <1>6 DEF SaveCheckRunId, IInv, TypeOK, Operation, StartSteps, AwaitInv
<1>7. CASE RejectPolicy
  BY <1>7 DEF RejectPolicy, durable, Finish, Ended, Alarms
<1>8. CASE AllocateSandbox
  BY <1>8 DEF AllocateSandbox, Goto, IInv, TypeOK, Operation, StartSteps, AwaitInv,
     Record, Terminal, Live, Steps, Kinds
<1>9. CASE RecoverProcess
  BY <1>9 DEF RecoverProcess, Goto, IInv, TypeOK, Operation, StartSteps, AwaitInv
<1>10. CASE StartProcess
  <2>1. op.step = "launch" /\ op.kind = "start" /\ UNCHANGED <<rec, handled>>
    BY <1>10 DEF StartProcess, durable
  <2>2. \/ op'.step = "record" /\ op'.kind = op.kind /\ op'.message = op.message
        \/ op'.step = "threw" /\ op'.kind = "none"
    BY <1>10, FinishedOp, GotoType DEF StartProcess, IInv, TypeOK, Steps
  <2> QED
    BY <2>1, <2>2 DEF IInv, AwaitInv, StartSteps
<1>11. CASE SaveDeadline
  BY <1>11 DEF SaveDeadline, Goto, IInv, TypeOK, Operation, StartSteps, AwaitInv
<1>12. CASE TransitionRunning
  BY <1>12, ContractStates, NoneIsNoRecord DEF TransitionRunning, Goto, IInv, TypeOK,
     Operation, StartSteps, AwaitInv, Record, Terminal, Live, Steps, Kinds
<1>13. CASE SetAlarm
  BY <1>13 DEF SetAlarm, durable, Finish, Ended, Alarms
<1>14. CASE StartThrows
  BY <1>14 DEF StartThrows, durable, Finish, Ended, Alarms
<1>15. CASE StartSettled
  <2>1. op.step = "settled" /\ op.kind = "start" /\ UNCHANGED <<rec, handled>>
    BY <1>15 DEF StartSettled, durable
  <2>2. \/ op'.step = "claim" /\ op'.kind = op.kind /\ op'.message = op.message
        \/ op'.step = "threw" /\ op'.kind = "none"
    BY <1>15, FinishedOp, GotoType DEF StartSettled, IInv, TypeOK, Steps
  <2> QED
    BY <2>1, <2>2 DEF StartSteps
<1> QED
  BY <1>1, <1>2, <1>3, <1>4, <1>5, <1>6, <1>7, <1>8, <1>9, <1>10, <1>11, <1>12, <1>13,
     <1>14, <1>15 DEF StartStep

LEMMA StopDuty ==
  ASSUME IInv, CheckInv, HandledInv, DutyInv, StopStep
  PROVE  DutyInv' /\ DutyMove
<1> USE DEF DutyInv, DutyMove, Unstarted, At, EndSteps, HandledInv
<1>1. CASE CreateQueued
  BY <1>1 DEF CreateQueued, Goto, queuedRecord, NewRecord, IInv, TypeOK, Operation,
     StartSteps, AwaitInv
<1>2. CASE TransitionProvisioning
  BY <1>2 DEF TransitionProvisioning, Goto, IInv, TypeOK, Operation, StartSteps, AwaitInv
<1>3. CASE Tombstone
  BY <1>3 DEF Tombstone, Goto, NewRecord
<1>4. CASE FlagObligations
  BY <1>4 DEF FlagObligations, Goto, IInv, TypeOK, Operation, StartSteps, AwaitInv,
     Record, Terminal, Live, Steps, Kinds
<1>5. CASE MarkTerminal
  BY <1>5 DEF MarkTerminal, Goto, SettleFrom, TargetState, AfterCleanup
<1>6. CASE MarkThrows
  BY <1>6 DEF MarkThrows, durable, Finish, Ended, TargetState, Alarms
<1> QED
  BY <1>1, <1>2, <1>3, <1>4, <1>5, <1>6 DEF StopStep

LEMMA PublishDuty ==
  ASSUME IInv, CheckInv, HandledInv, DutyInv, PublishStep
  PROVE  DutyInv' /\ DutyMove
<1> USE DEF DutyInv, DutyMove, Unstarted, At, EndSteps, HandledInv
<1>1. CASE PollThrows
  BY <1>1 DEF PollThrows, durable, Rearm, Finish, Ended, Alarms
<1>2. CASE PollHealthy
  BY <1>2 DEF PollHealthy, durable, Rearm, Finish, Ended, Alarms
<1>3. CASE PollEnded
  BY <1>3 DEF PollEnded
<1>4. CASE Collect
  BY <1>4 DEF Collect, PersistDiagnostics, IInv, TypeOK, Operation, StartSteps, AwaitInv,
     Record, Terminal, Live, Steps, Kinds
<1>5. CASE ReportCheck
  <2>1. op.step = "report" /\ op.kind \in {"publish", "publishLost"} /\ UNCHANGED <<rec, handled>>
    BY <1>5 DEF ReportCheck, durable
  <2>2. \/ op'.step = "conclude" /\ op'.kind = op.kind /\ op'.message = op.message
        \/ op'.step = "idle" /\ op'.kind = "none"
    BY <1>5, FinishedOp, GotoType DEF ReportCheck, Rearm, IInv, TypeOK, Steps
  <2> QED
    BY <2>1, <2>2 DEF StartSteps
<1>6. CASE ReportThrows
  BY <1>6 DEF ReportThrows, durable, Rearm, Finish, Ended, Alarms
<1>7. CASE Conclude
  BY <1>7 DEF Conclude, Goto, IInv, TypeOK, Operation, StartSteps, AwaitInv
<1>8. CASE Close
  <2>1. /\ rec \in Record /\ rec.state = "publishing" /\ op.step = "close"
        /\ op.verdict.terminalState \in {"completed", "failed"}
    BY <1>8 DEF Close, IInv, TypeOK, AwaitInv, Verdicts
  <2>2. rec'.state \in {"completed", "failed"} /\ op.kind \in {"publish", "publishLost"}
    BY <1>8, <2>1 DEF Close, Record
  <2>3. op'.step # "schedule"
    BY <1>8 DEF Close, SettleFrom, AfterCleanup, IInv, TypeOK, Operation
  <2> QED
    BY <2>2, <2>3
<1> QED
  BY <1>1, <1>2, <1>3, <1>4, <1>5, <1>6, <1>7, <1>8 DEF PublishStep

LEMMA SettleDuty ==
  ASSUME IInv, CheckInv, HandledInv, DutyInv, SettleStep
  PROVE  DutyInv' /\ DutyMove
<1> USE DEF DutyInv, DutyMove, Unstarted, At, EndSteps, HandledInv
<1>1. CASE Diagnose
  BY <1>1 DEF Diagnose, PersistDiagnostics, Goto, Settling, Alarms, IInv, TypeOK,
     Operation, StartSteps, AwaitInv, Record, Terminal, Live, Steps, Kinds
<1>2. CASE DestroySandbox
  BY <1>2 DEF DestroySandbox, durable, Goto, Settling, Alarms
<1>3. CASE SaveDestroyed
  BY <1>3, ContractStates DEF SaveDestroyed, Goto, AfterCleanup, Settling, Alarms, IInv,
     TypeOK, Operation, StartSteps, AwaitInv, Record, Terminal, Live, Steps, Kinds
<1>4. CASE DestroyFails
  BY <1>4 DEF DestroyFails, durable, Goto, Settling, Alarms
<1>5. CASE UpdateNeutral
  BY <1>5 DEF UpdateNeutral, durable, Goto, Settling, Alarms
<1>6. CASE SaveNeutral
  BY <1>6, ContractStates DEF SaveNeutral, Goto, Settling, Alarms, IInv, TypeOK,
     Operation, StartSteps, AwaitInv, Record, Terminal, Live, Steps, Kinds
<1>7. CASE UpdateNeutralFails
  BY <1>7 DEF UpdateNeutralFails, durable, Goto, Settling, Alarms
<1>8. CASE Settled
  BY <1>8 DEF Settled, durable, Finish, Ended, Settling, Alarms
<1>9. CASE SaveUndestroyed
  BY <1>9, ContractStates DEF SaveUndestroyed, Goto, Settling, Alarms, IInv, TypeOK,
     Operation, StartSteps, AwaitInv, Record, Terminal, Live, Steps, Kinds
<1>10. CASE RearmCleanup
  BY <1>10, ContractStates DEF RearmCleanup, durable, Goto, AfterCleanup, Settling, Alarms, IInv,
     TypeOK, Operation, StartSteps, AwaitInv, Record, Terminal, Live, Steps, Kinds
<1>11. CASE SaveOwed
  BY <1>11, ContractStates DEF SaveOwed, Goto, Settling, Alarms, IInv, TypeOK,
     Operation, StartSteps, AwaitInv, Record, Terminal, Live, Steps, Kinds
<1>12. CASE RearmCheck
  BY <1>12, ContractStates DEF RearmCheck, durable, Goto, Settling, Alarms, IInv,
     TypeOK, Operation, StartSteps, AwaitInv, Record, Terminal, Live, Steps, Kinds
<1> QED
  BY <1>1, <1>2, <1>3, <1>4, <1>5, <1>6, <1>7, <1>8, <1>9, <1>10, <1>11, <1>12
  DEF SettleStep

LEMMA EnvironmentDuty ==
  ASSUME IInv, CheckInv, HandledInv, DutyInv, FinalizationRuns, Environment
  PROVE  DutyInv' /\ DutyMove
<1> USE DEF DutyInv, DutyMove, Unstarted, At, EndSteps, HandledInv
<1>1. CASE AlarmFires
  BY <1>1 DEF AlarmFires, durable
<1>2. CASE Evict
  BY <1>2 DEF Evict, FinalizationRuns, durable, Ended, IInv, TypeOK, Operation
<1>3. CASE ReviewExits
  BY <1>3 DEF ReviewExits, durable
<1>4. CASE ContainerLost
  BY <1>4 DEF ContainerLost, durable
<1>5. CASE DeadlinePasses
  BY <1>5 DEF DeadlinePasses, durable
<1> QED
  BY <1>1, <1>2, <1>3, <1>4, <1>5 DEF Environment

(* A call and an alarm take their turn when the operation before them has ended.         *)
LEMMA CallBegins ==
  ASSUME IInv, HandledInv, NEW m \in Messages, start(m) \/ failStart(m) \/ supersede
  PROVE  /\ HandledInv' /\ op.kind = "none" /\ op'.step \notin EndSteps
         /\ UNCHANGED <<rec, handled>>
<1>1. CASE start(m)
  BY <1>1 DEF HandledInv, start, serial, durable, SettleFrom, AfterCleanup, StartSteps, EndSteps
<1>2. CASE failStart(m)
  BY <1>2 DEF HandledInv, failStart, serial, durable, StartSteps, EndSteps
<1>3. CASE supersede
  BY <1>3 DEF HandledInv, supersede, serial, durable, StartSteps, EndSteps
<1> QED
  BY <1>1, <1>2, <1>3

LEMMA CallDuty ==
  ASSUME IInv, HandledInv, DutyInv, NEW m \in Messages, start(m) \/ failStart(m) \/ supersede
  PROVE  DutyInv'
<1>1. op.kind = "none" /\ UNCHANGED rec
  BY CallBegins
<1>2. CASE start(m) \/ supersede
  <2>1. op'.step # "schedule" /\ op'.kind # "failStart"
    BY <1>2 DEF start, supersede, serial, SettleFrom, AfterCleanup
  <2> QED
    BY <1>1, <2>1 DEF DutyInv, Unstarted
<1>3. CASE failStart(m)
  <2>1. op'.step # "schedule" /\ op'.message = m
    BY <1>3 DEF failStart, serial
  <2>2. Unstarted /\ op'.step = "settled" => rec.message # m
    <3>1. Unstarted => rec # None /\ rec.message # None
      BY NoneAssumption DEF DutyInv, Unstarted
    <3>2. Unstarted /\ op'.step = "settled" => ~OwnDelivery(m)
      BY <1>3, <3>1 DEF failStart, serial, Unstarted
    <3> QED
      BY <3>1, <3>2 DEF OwnDelivery
  <2> QED
    BY <1>1, <2>1, <2>2 DEF DutyInv, Unstarted
<1> QED
  BY <1>2, <1>3

LEMMA BeginAlarmHandled == ASSUME IInv, HandledInv, BeginAlarm PROVE HandledInv' /\ HandledMove
BY DEF HandledInv, HandledMove, BeginAlarm, serial, durable, SettleFrom, AfterCleanup, EndSteps

LEMMA BeginAlarmDuty ==
  ASSUME IInv, HandledInv, DutyInv, BeginAlarm
  PROVE  DutyInv' /\ DutyMove
BY DEF HandledInv, DutyInv, DutyMove, Unstarted, BeginAlarm, serial, durable, SettleFrom,
   AfterCleanup, EndSteps

-----------------------------------------------------------------------------
(* The queue around the job.  To the object a step of the queue is a step of its own,     *)
(* a stutter, or a fault elsewhere that only counts against the bound.              *)

FaultOnly == Fault /\ UNCHANGED <<durable, alarms, op, late, checks, sandbox, claims>>

LEMMA QueueStepOfJob == ASSUME [QueueNext]_allVars PROVE [Next]_vars \/ FaultOnly
<1>1. CASE UNCHANGED allVars
  BY <1>1 DEF allVars
<1>2. ASSUME NEW m \in Messages,
             Send(m) \/ Deliver(m) \/ DeliverThrows(m) \/ Finalize(m) \/ ConsumerLost(m)
      PROVE  [Next]_vars \/ FaultOnly
  <2>1. CASE Send(m)
    BY <2>1 DEF Send
  <2>2. CASE Deliver(m) \/ Finalize(m)
    BY <2>2 DEF Deliver, Finalize, Next
  <2>3. CASE DeliverThrows(m) \/ ConsumerLost(m)
    BY <2>3 DEF DeliverThrows, ConsumerLost, FaultOnly
  <2> QED
    BY <1>2, <2>1, <2>2, <2>3
<1>3. CASE JobStep \/ Supersede
  BY <1>3 DEF JobStep, Supersede, Next
<1>4. CASE NewHead
  BY <1>4 DEF NewHead
<1> QED
  BY <1>1, <1>2, <1>3, <1>4 DEF QueueNext

LEMMA FaultOnlyInv == ASSUME IInv, CheckInv, FaultOnly PROVE IInv' /\ CheckInv'
<1>1. faults' \in Nat
  BY MaxFaultsAssumption DEF FaultOnly, Fault, IInv, TypeOK
<1>2. /\ UNCHANGED <<rec, handled, alarm, fired, op, late, checks>>
      /\ UNCHANGED <<box, proc, exited, claims>>
  BY DEF FaultOnly, durable, alarms, sandbox
<1>3. IInv'
  BY <1>1, <1>2
  DEF IInv, TypeOK, AwaitInv, RecordInv, NoSandboxLeak, StartSteps, Terminal, Live
<1>4. CheckInv'
  BY <1>2
  DEF CheckInv, CheckRecord, CheckAwait, CheckAgrees, ConclusionHasEvidence, Terminal, Pending
<1> QED
  BY <1>3, <1>4

LEMMA QueueKeepsJob ==
  ASSUME IInv, CheckInv, [QueueNext]_allVars
  PROVE  IInv' /\ CheckInv'
BY QueueStepOfJob, FaultOnlyInv, NextInv, NextCheck

(* One step of the operation in progress, of an alarm or of the environment.              *)
LEMMA JobStepHandled == ASSUME IInv, HandledInv, JobStep PROVE HandledInv' /\ HandledMove
BY StartHandled, StopHandled, PublishHandled, SettleHandled, EnvironmentHandled,
   BeginAlarmHandled DEF JobStep, OpStep

LEMMA JobStepDuty ==
  ASSUME IInv, CheckInv, HandledInv, DutyInv, FinalizationRuns, JobStep
  PROVE  DutyInv' /\ DutyMove
BY StartDuty, StopDuty, PublishDuty, SettleDuty, EnvironmentDuty, BeginAlarmDuty
DEF JobStep, OpStep

(* A message that is not in its last attempt may be delivered again; one whose last        *)
(* attempt failed is finalized.                                                  *)
AttemptInv ==
  \A m \in Messages :
    /\ queue[m].status \in {"unsent", "waiting"} => queue[m].attempts < FINAL_DELIVERY_ATTEMPT
    /\ queue[m].status \in {"finalize", "finalizing"}
         => queue[m].attempts = FINAL_DELIVERY_ATTEMPT

QueueInv == QueueTypeOK /\ AttemptInv /\ AckedIsHandled

LEMMA QueueInitInv == QueueInit => QueueInv /\ HandledInv
BY DEF QueueInit, QueueInv, QueueTypeOK, AttemptInv, AckedIsHandled, HandledInv, Init, Ended,
   EndSteps, FINAL_DELIVERY_ATTEMPT

(* What a failed attempt leads to.                                               *)
LEMMA FailureLeads ==
  ASSUME NEW n \in 0 .. FINAL_DELIVERY_ATTEMPT
  PROVE  /\ AfterFailure(n) \in {"waiting", "finalize"}
         /\ AfterFailure(n) = "waiting" => n < FINAL_DELIVERY_ATTEMPT
         /\ AfterFailure(n) = "finalize" => n = FINAL_DELIVERY_ATTEMPT
BY DEF AfterFailure, FINAL_DELIVERY_ATTEMPT

(* An answer moves the message of the operation alone, and acknowledges it only when the    *)
(* operation returned.                                                          *)
LEMMA AnswerMoves ==
  ASSUME QueueInv, IInv, HandledInv, Answer
  PROVE  /\ QueueTypeOK' /\ AttemptInv'
         /\ \A m \in Messages : m # op.message => queue'[m] = queue[m]
         /\ \A m \in Messages :
              \/ queue'[m] = queue[m]
              \/ /\ op.kind = "start" /\ op'.step \in EndSteps /\ op.message = m
                 /\ queue[m].status = "starting"
                 /\ queue'[m].status \in {"waiting", "finalize"}
              \/ /\ op.kind = "start" /\ op'.step = "returned" /\ op.message = m
                 /\ queue[m].status = "starting" /\ queue'[m].status = "acked"
              \/ /\ op.kind = "failStart" /\ op'.step \in EndSteps /\ op.message = m
                 /\ queue[m].status = "finalizing" /\ queue'[m].status = "dead"
<1>1. newer' \in {"none", "wanted", "calling", "done"}
  BY DEF Answer, QueueInv, QueueTypeOK
<1>2. CASE op.kind = "start" /\ op'.step \in EndSteps /\ queue[op.message].status = "starting"
  <2> DEFINE s == IF op'.step = "returned" THEN "acked"
                                           ELSE AfterFailure(queue[op.message].attempts)
  <2>1. op.message \in Messages /\ op.step \notin EndSteps
    BY <1>2 DEF IInv, AwaitInv, HandledInv
  <2>2. queue' = [queue EXCEPT ![op.message].status = s]
    BY <1>2, <2>1 DEF Answer
  <2>3. queue[op.message].attempts \in 0 .. FINAL_DELIVERY_ATTEMPT
    BY <2>1 DEF QueueInv, QueueTypeOK
  <2>4. /\ s \in {"acked", "waiting", "finalize"} /\ (s = "acked" <=> op'.step = "returned")
        /\ s = "waiting" => queue[op.message].attempts < FINAL_DELIVERY_ATTEMPT
        /\ s = "finalize" => queue[op.message].attempts = FINAL_DELIVERY_ATTEMPT
    BY <2>3, FailureLeads
  <2> HIDE DEF s
  <2> QED
    BY <1>1, <1>2, <2>1, <2>2, <2>4 DEF QueueInv, QueueTypeOK, AttemptInv
<1>3. CASE op.kind = "failStart" /\ op'.step \in EndSteps
           /\ queue[op.message].status = "finalizing"
  <2>1. op.message \in Messages /\ op.step \notin EndSteps
    BY <1>3 DEF IInv, AwaitInv, HandledInv
  <2>2. queue' = [queue EXCEPT ![op.message].status = "dead"]
    BY <1>3, <2>1 DEF Answer
  <2> QED
    BY <1>1, <1>3, <2>1, <2>2 DEF QueueInv, QueueTypeOK, AttemptInv
<1>4. CASE queue' = queue
  BY <1>1, <1>4 DEF QueueInv, QueueTypeOK, AttemptInv
<1> QED
  BY <1>2, <1>3, <1>4 DEF Answer

(* The consumer's own steps: which message moves, and where to.                      *)
LEMMA ConsumerMoves ==
  ASSUME QueueInv, NEW m \in Messages,
         Send(m) \/ Deliver(m) \/ DeliverThrows(m) \/ Finalize(m) \/ ConsumerLost(m)
  PROVE  /\ QueueTypeOK' /\ AttemptInv'
         /\ \A x \in Messages : x # m => queue'[x] = queue[x]
         /\ queue'[m].status # "acked"
<1>1. /\ queue[m].attempts \in 0 .. FINAL_DELIVERY_ATTEMPT
      /\ queue[m].status = "waiting" => queue[m].attempts + 1 \in 0 .. FINAL_DELIVERY_ATTEMPT
  BY DEF QueueInv, QueueTypeOK, AttemptInv, FINAL_DELIVERY_ATTEMPT
<1>2. CASE Send(m)
  BY <1>2 DEF Send, Moves, QueueInv, QueueTypeOK, AttemptInv
<1>3. CASE Deliver(m)
  BY <1>1, <1>3 DEF Deliver, QueueInv, QueueTypeOK, AttemptInv
<1>4. CASE DeliverThrows(m)
  <2> DEFINE n == queue[m].attempts + 1
  <2>1. /\ n \in 0 .. FINAL_DELIVERY_ATTEMPT /\ newer' = newer
        /\ queue' = [queue EXCEPT ![m] = [status |-> AfterFailure(n), attempts |-> n]]
    BY <1>1, <1>4 DEF DeliverThrows
  <2> HIDE DEF n
  <2> QED
    BY <2>1, FailureLeads DEF QueueInv, QueueTypeOK, AttemptInv
<1>5. CASE Finalize(m)
  BY <1>5 DEF Finalize, Moves, QueueInv, QueueTypeOK, AttemptInv
<1>6. CASE ConsumerLost(m)
  <2>1. newer' = newer
    BY <1>6 DEF ConsumerLost
  <2>2. PICK s \in {"waiting", "dead"} :
          /\ queue' = [queue EXCEPT ![m].status = s]
          /\ s = "waiting" => queue[m].attempts < FINAL_DELIVERY_ATTEMPT
    BY <1>1, <1>6 DEF ConsumerLost, Moves, FINAL_DELIVERY_ATTEMPT
  <2> QED
    BY <2>1, <2>2 DEF QueueInv, QueueTypeOK, AttemptInv
<1> QED
  BY <1>2, <1>3, <1>4, <1>5, <1>6

(* The consumer moves the object only by calling it.                                  *)
LEMMA ConsumerFrame ==
  ASSUME IInv, HandledInv, NEW m \in Messages,
         Send(m) \/ Deliver(m) \/ DeliverThrows(m) \/ Finalize(m) \/ ConsumerLost(m)
  PROVE  HandledInv' /\ UNCHANGED <<rec, handled>>
<1>1. CASE Deliver(m) \/ Finalize(m)
  BY <1>1, CallBegins DEF Deliver, Finalize
<1>2. CASE Send(m) \/ DeliverThrows(m) \/ ConsumerLost(m)
  BY <1>2 DEF Send, DeliverThrows, ConsumerLost, durable, vars, HandledInv
<1> QED
  BY <1>1, <1>2

(* The identity of an acknowledged message stays handled.                               *)
LEMMA AckedStays ==
  ASSUME AckedIsHandled, handled \subseteq handled', QueueTypeOK',
         \A m \in Messages :
           queue'[m].status = "acked" =>
             queue[m].status = "acked" \/ deliveryIdentity(m) \in handled'
  PROVE  AckedIsHandled'
BY DEF AckedIsHandled

LEMMA QueueNextInv ==
  ASSUME IInv, HandledInv, QueueInv, [QueueNext]_allVars
  PROVE  QueueInv' /\ HandledInv'
<1>1. CASE UNCHANGED <<vars, queueVars>>
  BY <1>1 DEF vars, queueVars, QueueInv, QueueTypeOK, AttemptInv, AckedIsHandled, HandledInv
<1>2. ASSUME NEW m \in Messages,
             Send(m) \/ Deliver(m) \/ DeliverThrows(m) \/ Finalize(m) \/ ConsumerLost(m)
      PROVE  QueueInv' /\ HandledInv'
  <2>1. HandledInv' /\ handled' = handled
    BY <1>2, ConsumerFrame
  <2>2. /\ QueueTypeOK' /\ AttemptInv'
        /\ \A x \in Messages : queue'[x].status = "acked" => queue[x].status = "acked"
    BY <1>2, ConsumerMoves
  <2> QED
    BY <2>1, <2>2, AckedStays DEF QueueInv
<1>3. CASE JobStep
  <2>1. HandledInv' /\ HandledMove
    BY <1>3, JobStepHandled
  <2>2. /\ QueueTypeOK' /\ AttemptInv'
        /\ \A m \in Messages :
             queue'[m].status = "acked" =>
               \/ queue[m].status = "acked"
               \/ op.kind = "start" /\ op'.step = "returned" /\ op.message = m
    BY <1>3, AnswerMoves DEF JobStep
  <2> QED
    BY <2>1, <2>2, AckedStays DEF QueueInv, HandledMove
<1>4. CASE NewHead \/ Supersede
  <2>1. UNCHANGED <<queue, handled>> /\ newer' \in {"none", "wanted", "calling", "done"}
    BY <1>4 DEF NewHead, Supersede, supersede, vars, durable
  <2>2. HandledInv'
    <3>1. CASE NewHead
      BY <3>1 DEF NewHead, vars, HandledInv
    <3>2. CASE Supersede
      BY <3>2 DEF Supersede, supersede, serial, HandledInv, StartSteps, EndSteps
    <3> QED
      BY <1>4, <3>1, <3>2
  <2> QED
    BY <2>1, <2>2 DEF QueueInv, QueueTypeOK, AttemptInv, AckedIsHandled
<1> QED
  BY <1>1, <1>2, <1>3, <1>4 DEF QueueNext, allVars

THEOREM QueueInvariance == QueueSpec => [](IInv /\ CheckInv /\ HandledInv /\ QueueInv)
<1>1. QueueInit => IInv /\ CheckInv /\ HandledInv /\ QueueInv
  BY InitInv, InitCheck, QueueInitInv DEF QueueInit
<1>2. IInv /\ CheckInv /\ HandledInv /\ QueueInv /\ [QueueNext]_allVars
        => (IInv /\ CheckInv /\ HandledInv /\ QueueInv)'
  BY QueueKeepsJob, QueueNextInv
<1> QED
  BY <1>1, <1>2, PTL DEF QueueSpec

(* Every message is in one of the places the platform keeps it, and no message is            *)
(* delivered more than four times.                                                *)
THEOREM QueueTypeCorrect == QueueSpec => []QueueTypeOK
<1>1. QueueInv => QueueTypeOK
  BY DEF QueueInv
<1> QED
  BY <1>1, QueueInvariance, PTL

(* Nothing is dropped silently: an acknowledged message has been handled.                *)
THEOREM NoSilentDrop == QueueSpec => []AckedIsHandled
<1>1. QueueInv => AckedIsHandled
  BY DEF QueueInv
<1> QED
  BY <1>1, QueueInvariance, PTL

(* What the object promises to any caller holds with the consumer, the retries and the        *)
(* newer heads around it: nothing leaks, one review process, one execution for an            *)
(* identity, no conclusion without evidence, and settled checks agree with the record.       *)
THEOREM JobStaysSafe ==
  QueueSpec => [](/\ NoSandboxLeak /\ OneReviewProcess /\ ClaimedOnce
                  /\ ConclusionHasEvidence /\ SettledCheckAgrees)
<1>1. QueueInit => ClaimInv
  BY ClaimInit DEF QueueInit
<1>2. IInv /\ ClaimInv /\ [QueueNext]_allVars => ClaimInv'
  <2>1. ASSUME IInv, ClaimInv, FaultOnly PROVE ClaimInv'
    BY <2>1 DEF FaultOnly, durable, ClaimInv
  <2> QED
    BY <2>1, QueueStepOfJob, ClaimNext
<1>3. IInv /\ CheckInv /\ ClaimInv =>
        /\ NoSandboxLeak /\ OneReviewProcess /\ ClaimedOnce
        /\ ConclusionHasEvidence /\ SettledCheckAgrees
  <2>1. IInv => NoSandboxLeak /\ OneReviewProcess
    BY DEF IInv, NoSandboxLeak, OneReviewProcess
  <2>2. CheckInv => ConclusionHasEvidence /\ SettledCheckAgrees
    BY DEF CheckInv, CheckAgrees, SettledCheckAgrees
  <2> QED
    BY <2>1, <2>2 DEF ClaimInv, ClaimedOnce
<1> QED
  BY <1>1, <1>2, <1>3, QueueInvariance, PTL DEF QueueSpec

-----------------------------------------------------------------------------
(* Pursuit: who is responsible for a job that has not started.  It needs the platform     *)
(* to leave the last attempt alone: neither the consumer nor the object is lost in it.    *)

LastAttemptRuns == FINAL_DELIVERY_ATTEMPT \notin LostAttempts /\ FinalizationRuns

PursuitInv ==
  /\ \A m \in Messages :
       /\ queue[m].status = "starting" => op.kind = "start" /\ op.message = m
       /\ queue[m].status = "finalizing" => op.kind = "failStart" /\ op.message = m
  /\ op.kind = "start" => queue[op.message].status \in {"starting", "waiting", "finalize"}
  /\ op.kind = "failStart" => queue[op.message].status = "finalizing"
  /\ Unstarted =>
       queue[rec.message].status \in {"starting", "waiting", "finalize", "finalizing"}

LEMMA PursuitInit == QueueInit => PursuitInv /\ DutyInv
BY DEF QueueInit, Init, PursuitInv, DutyInv, Unstarted, Ended

(* An answer: the message of the operation that ends moves on, or is settled.            *)
LEMMA JobStepPursuit ==
  ASSUME IInv, CheckInv, HandledInv, DutyInv, QueueInv, PursuitInv, FinalizationRuns, JobStep
  PROVE  PursuitInv'
<1>1. HandledInv' /\ HandledMove /\ DutyInv' /\ DutyMove
  BY JobStepHandled, JobStepDuty
<1>2. op.kind \in {"start", "failStart"} => op.message \in Messages /\ op.step \notin EndSteps
  BY DEF IInv, AwaitInv, HandledInv
<1>3. Unstarted' => rec'.message \in Messages
  BY <1>1 DEF DutyInv
<1>4. CASE op.kind \in {"start", "failStart"} /\ op'.step \notin EndSteps
  <2>1. queue' = queue
    BY <1>4 DEF JobStep, Answer
  <2>2. op'.kind = op.kind /\ op'.message = op.message
    BY <1>1, <1>4 DEF HandledMove
  <2> QED
    BY <1>1, <1>4, <2>1, <2>2 DEF PursuitInv, DutyMove
<1>5. CASE op.kind \notin {"start", "failStart"}
  <2>1. queue' = queue
    BY <1>5 DEF JobStep, Answer
  <2>2. op'.kind \notin {"start", "failStart"}
    BY <1>1, <1>5 DEF HandledMove
  <2> QED
    BY <1>1, <1>5, <2>1, <2>2 DEF PursuitInv, DutyMove
<1>6. CASE op.kind \in {"start", "failStart"} /\ op'.step \in EndSteps
  <2>1. op'.kind = "none"
    BY <1>1, <1>6 DEF HandledInv
  <2>2. \A m \in Messages : m # op.message => queue'[m] = queue[m]
    BY AnswerMoves DEF JobStep
  <2>3. Unstarted' => Unstarted /\ rec'.message = rec.message
    BY <1>1, <1>6 DEF DutyMove
  <2>4. CASE op.kind = "start"
    <3>1. queue'[op.message].status \in {"waiting", "finalize", "acked"}
      <4>1. CASE queue[op.message].status = "starting"
        <5>1. queue'[op.message].status = IF op'.step = "returned" THEN "acked"
                ELSE AfterFailure(queue[op.message].attempts)
          BY <1>2, <1>6, <2>4, <4>1 DEF JobStep, Answer, QueueInv, QueueTypeOK
        <5> QED
          BY <1>2, <2>4, <5>1, FailureLeads DEF QueueInv, QueueTypeOK
      <4>2. CASE queue[op.message].status \in {"waiting", "finalize"}
        BY <1>2, <2>4, <4>2, AnswerMoves DEF JobStep
      <4> QED
        BY <2>4, <4>1, <4>2 DEF PursuitInv
    <3>2. op'.step # "returned" => queue'[op.message].status \in {"waiting", "finalize"}
      BY <1>2, <2>4, <3>1, AnswerMoves DEF JobStep, PursuitInv
    <3>3. op'.step = "returned" => ~(Unstarted' /\ rec'.message = op.message)
      BY <1>1, <2>4 DEF DutyMove
    <3> QED
      BY <1>2, <1>3, <2>1, <2>2, <2>3, <2>4, <3>1, <3>2, <3>3 DEF PursuitInv
  <2>5. CASE op.kind = "failStart"
    <3>1. queue'[op.message].status = "dead"
      BY <1>2, <1>6, <2>5 DEF JobStep, PursuitInv, Answer, QueueInv, QueueTypeOK
    <3>2. ~(Unstarted' /\ rec'.message = op.message)
      BY <1>1, <1>6, <2>5 DEF DutyMove
    <3> QED
      BY <1>2, <1>3, <2>1, <2>2, <2>3, <2>5, <3>1, <3>2 DEF PursuitInv
  <2> QED
    BY <1>6, <2>4, <2>5
<1> QED
  BY <1>4, <1>5, <1>6

(* The consumer's own steps keep a message it is responsible for.                        *)
LEMMA ConsumerPursuit ==
  ASSUME IInv, HandledInv, DutyInv, QueueInv, PursuitInv, LastAttemptRuns, NEW m \in Messages,
         Send(m) \/ Deliver(m) \/ DeliverThrows(m) \/ Finalize(m) \/ ConsumerLost(m)
  PROVE  DutyInv' /\ PursuitInv'
<1>1. Unstarted => rec.message \in Messages
  BY DEF DutyInv
<1>2. op.kind \in {"start", "failStart"} => op.message \in Messages
  BY DEF IInv, AwaitInv
<1>3. /\ \A x \in Messages : x # m => queue'[x] = queue[x]
      /\ UNCHANGED rec
  BY ConsumerMoves, ConsumerFrame
<1>4. CASE Deliver(m)
  <2>1. DutyInv' /\ op.kind = "none"
    BY <1>4, CallDuty, CallBegins DEF Deliver
  <2>2. op'.kind = "start" /\ op'.message = m /\ queue'[m].status = "starting"
    BY <1>4 DEF Deliver, start, serial, QueueInv, QueueTypeOK
  <2> QED
    BY <1>1, <1>3, <2>1, <2>2 DEF PursuitInv, Unstarted
<1>5. CASE Finalize(m)
  <2>1. DutyInv' /\ op.kind = "none"
    BY <1>5, CallDuty, CallBegins DEF Finalize
  <2>2. op'.kind = "failStart" /\ op'.message = m /\ queue'[m].status = "finalizing"
    BY <1>5 DEF Finalize, Moves, failStart, serial, QueueInv, QueueTypeOK
  <2> QED
    BY <1>1, <1>3, <2>1, <2>2 DEF PursuitInv, Unstarted
<1>6. CASE Send(m)
  <2>1. UNCHANGED op /\ queue[m].status = "unsent" /\ queue'[m].status = "waiting"
    BY <1>6 DEF Send, Moves, vars, QueueInv, QueueTypeOK
  <2> QED
    BY <1>1, <1>2, <1>3, <2>1 DEF PursuitInv, DutyInv, Unstarted
<1>7. CASE DeliverThrows(m)
  <2>1. /\ UNCHANGED op /\ queue[m].status = "waiting"
        /\ queue'[m].status \in {"waiting", "finalize"}
    <3>1. queue[m].attempts + 1 \in 0 .. FINAL_DELIVERY_ATTEMPT
      BY <1>7 DEF DeliverThrows, QueueInv, QueueTypeOK, AttemptInv, FINAL_DELIVERY_ATTEMPT
    <3> QED
      BY <1>7, <3>1, FailureLeads DEF DeliverThrows, QueueInv, QueueTypeOK
  <2> QED
    BY <1>1, <1>2, <1>3, <2>1 DEF PursuitInv, DutyInv, Unstarted
<1>8. CASE ConsumerLost(m)
  <2>1. UNCHANGED op /\ queue[m].attempts # FINAL_DELIVERY_ATTEMPT
    BY <1>8 DEF ConsumerLost, LastAttemptRuns
  <2>2. queue[m].status = "starting" /\ queue'[m].status = "waiting"
    BY <1>8, <2>1
    DEF ConsumerLost, Moves, QueueInv, QueueTypeOK, AttemptInv, FINAL_DELIVERY_ATTEMPT
  <2> QED
    BY <1>1, <1>2, <1>3, <2>1, <2>2 DEF PursuitInv, DutyInv, Unstarted
<1> QED
  BY <1>4, <1>5, <1>6, <1>7, <1>8

LEMMA PursuitNext ==
  ASSUME LastAttemptRuns, IInv, CheckInv, HandledInv, DutyInv, QueueInv, PursuitInv,
         [QueueNext]_allVars
  PROVE  DutyInv' /\ PursuitInv'
<1>1. CASE UNCHANGED <<vars, queueVars>>
  BY <1>1 DEF vars, queueVars, DutyInv, Unstarted, PursuitInv
<1>2. ASSUME NEW m \in Messages,
             Send(m) \/ Deliver(m) \/ DeliverThrows(m) \/ Finalize(m) \/ ConsumerLost(m)
      PROVE  DutyInv' /\ PursuitInv'
  BY <1>2, ConsumerPursuit
<1>3. CASE JobStep
  BY <1>3, JobStepDuty, JobStepPursuit DEF LastAttemptRuns
<1>4. CASE NewHead
  BY <1>4 DEF NewHead, vars, DutyInv, Unstarted, PursuitInv
<1>5. CASE Supersede
  <2>1. op.kind = "none" /\ op'.kind = "supersede" /\ op'.step # "schedule"
        /\ UNCHANGED <<rec, queue>>
    BY <1>5 DEF Supersede, supersede, serial, durable, HandledInv
  <2> QED
    BY <2>1 DEF DutyInv, Unstarted, PursuitInv
<1> QED
  BY <1>1, <1>2, <1>3, <1>4, <1>5 DEF QueueNext, allVars

(* When the platform leaves the last attempt alone, a job that has not started is always      *)
(* pursued by the message that claimed it: it is delivered again, or finalized.         *)
THEOREM JobIsPursued == ASSUME LastAttemptRuns PROVE QueueSpec => []StartIsPursued
<1>1. QueueInit => DutyInv /\ PursuitInv
  BY PursuitInit
<1>2. IInv /\ CheckInv /\ HandledInv /\ QueueInv /\ DutyInv /\ PursuitInv
        /\ [QueueNext]_allVars => (DutyInv /\ PursuitInv)'
  BY PursuitNext
<1>3. HandledInv /\ DutyInv /\ PursuitInv => StartIsPursued
  BY DEF HandledInv, DutyInv, PursuitInv, StartIsPursued, Unstarted
<1> QED
  BY <1>1, <1>2, <1>3, QueueInvariance, PTL DEF QueueSpec

-----------------------------------------------------------------------------
(* The object's own obligations, with the queue around it.                                *)

LEMMA QueueKeepsAlarm ==
  ASSUME NoStaleFlags, AlarmsRun, IInv, CheckInv, FlagInv, AlarmInv, [QueueNext]_allVars
  PROVE  FlagInv' /\ AlarmInv'
<1>1. CASE [Next]_vars
  BY <1>1, NextFlags, NextAlarm
<1>2. CASE FaultOnly
  BY <1>2 DEF FaultOnly, durable, alarms, FlagInv, FlagRecord, FlagAwait, AlarmInv, Terminal
<1> QED
  BY <1>1, <1>2, QueueStepOfJob

(* No job is ever stranded: the queue pursues its start, an alarm polls its work, an alarm     *)
(* retries its debts.  The assumptions name every await at which losing the object, or        *)
(* the consumer, would leave a job to nobody; two of the runs that expect a violation lose     *)
(* the object at one of them each.                                                *)
THEOREM NoJobIsStranded ==
  ASSUME LastAttemptRuns, NoStaleFlags, AlarmsRun
  PROVE  QueueSpec => []NeverStranded
<1>1. QueueInit => FlagInv /\ AlarmInv
  BY InitFlags, InitAlarm DEF QueueInit
<1>2. IInv /\ CheckInv /\ FlagInv /\ AlarmInv /\ [QueueNext]_allVars => (FlagInv /\ AlarmInv)'
  BY QueueKeepsAlarm
<1>3. StartIsPursued /\ AlarmInv => NeverStranded
  BY AlarmSuffices DEF NeverStranded
<1> QED
  BY <1>1, <1>2, <1>3, JobIsPursued, QueueInvariance, PTL DEF QueueSpec

=============================================================================
