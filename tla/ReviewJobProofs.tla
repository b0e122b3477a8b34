--------------------------- MODULE ReviewJobProofs ---------------------------
(***************************************************************************)
(* Proofs about ReviewJob, for any messages, sandboxes, check runs, crash   *)
(* points and number of faults.                                            *)
(***************************************************************************)
EXTENDS ReviewJob, TLAPS

(* The contract, state by state: what DOMAIN and the transition table give.  *)
LEMMA ContractStates ==
  /\ JobStates = {"queued", "provisioning", "running", "publishing",
                  "completed", "failed", "timed_out", "superseded"}
  /\ \A s \in JobStates :
       isTerminalState(s) <=> s \in {"completed", "failed", "timed_out", "superseded"}
BY DEF JobStates, isTerminalState, TRANSITIONS

(* What holds of the record at each await of an operation.                    *)
StartSteps == {"policy", "createCheck", "saveCheck", "allocate", "process",
               "launch", "record", "run"}

AwaitInv ==
  /\ op.kind \in {"start", "failStart"} => op.message \in Messages
  /\ op.step \in StartSteps => rec # None /\ rec.state = "provisioning"
  /\ op.step \in {"process", "launch", "record", "run", "schedule"}
       => rec # None /\ rec.sandboxId \in Sandboxes
  /\ op.step = "launch" => rec.processId /\ proc[rec.sandboxId] = "absent"
  /\ op.step = "claim" /\ Terminal => ~rec.cleanupPending
  /\ op.step \in {"createQueued", "tombstone"} => rec = None
  /\ op.step = "provision" => rec # None /\ rec.state = "queued"
  /\ op.step \in {"flag", "mark", "poll"} => Live
  /\ op.step = "mark" /\ rec.sandboxId # None => rec.cleanupPending
  /\ op.step \in {"collect", "report", "conclude", "close"}
       => rec # None /\ rec.state = "publishing" /\ rec.sandboxId \in Sandboxes
  /\ op.step \in {"report", "conclude", "close"} => op.verdict \in Verdicts
  /\ op.step = "close" => rec.cleanupPending
  /\ op.step \in {"diagnose", "destroy", "saveDestroyed", "saveUndestroyed", "rearmCleanup"}
       => Terminal /\ rec.cleanupPending /\ rec.sandboxId \in Sandboxes
  /\ op.step = "saveDestroyed"
       => box[rec.sandboxId] = "destroyed" /\ proc[rec.sandboxId] = "absent"
  /\ op.step \in {"neutral", "saveNeutral", "saveOwed", "rearmCheck"} => Terminal
  /\ op.step = "settled" /\ op.kind = "start" => Terminal

(* What holds of the stored record at any time.                               *)
RecordInv ==
  rec # None =>
    /\ rec.cleanupPending => rec.sandboxId \in Sandboxes
    /\ rec.state \in {"running", "publishing"} => rec.sandboxId \in Sandboxes
    /\ ~rec.processId /\ rec.sandboxId # None => proc[rec.sandboxId] = "absent"

IInv == /\ TypeOK /\ AwaitInv /\ RecordInv
        /\ NoSandboxLeak
        /\ \A s \in Sandboxes : proc[s] # "twice"

LEMMA InitInv == Init => IInv
<1> SUFFICES ASSUME Init PROVE IInv
  OBVIOUS
<1>1. TypeOK
  <2>1. op \in Operation
    BY DEF Init, Ended, Operation, Kinds, Steps, EndSteps
  <2> QED
    BY <2>1 DEF Init, TypeOK, Outcomes
<1>2. AwaitInv
  BY DEF Init, AwaitInv, Ended, StartSteps
<1>3. RecordInv /\ NoSandboxLeak /\ \A s \in Sandboxes : proc[s] # "twice"
  BY DEF Init, RecordInv, NoSandboxLeak
<1> QED
  BY <1>1, <1>2, <1>3 DEF IInv

LEMMA StartInv == ASSUME IInv, NEW m \in Messages, start(m) PROVE IInv'
BY ContractStates, NoneAssumption
DEF start, serial, IInv, TypeOK, AwaitInv, RecordInv, NoSandboxLeak, EndSteps,
   Operation, Kinds, Steps, StartSteps, Terminal, Live, SettleFrom, AfterCleanup, durable, alarms, sandbox, Record

LEMMA HandleType ==
  ASSUME NEW m \in Messages, Handle(m), handled \subseteq Identities, rec \in Record \cup {None}
  PROVE  handled' \subseteq Identities
BY DEF Handle, Identities, Record

LEMMA NewRecordType ==
  ASSUME NEW s \in JobStates, NEW m \in Messages \cup {None}, NEW b \in BOOLEAN
  PROVE  NewRecord(s, m, b) \in Record
BY DEF NewRecord, Record

(* The operation that goes on, begins, or ends.                               *)
LEMMA GotoType ==
  ASSUME op \in Operation, NEW s \in Steps, Goto(s)
  PROVE  /\ op' \in Operation
         /\ op'.step = s /\ op'.kind = op.kind /\ op'.message = op.message
         /\ op'.check = op.check /\ op'.verdict = op.verdict
BY DEF Goto, Operation

LEMMA FinishType ==
  ASSUME NEW s \in EndSteps, Finish(s), fired \in BOOLEAN
  PROVE  /\ op' \in Operation /\ fired' \in BOOLEAN
         /\ op'.step = s /\ op'.kind = "none"
BY DEF Finish, Ended, Operation, Kinds, Steps

LEMMA SerialType ==
  ASSUME NEW k \in Kinds, NEW m \in Messages \cup {None}, NEW s \in Steps, serial(k, m, s)
  PROVE  /\ op' \in Operation
         /\ op'.kind = k /\ op'.message = m /\ op'.step = s
BY DEF serial, Operation

LEMMA ClaimFreshInv == ASSUME IInv, ClaimFresh PROVE IInv'
<1> DEFINE m == op.message
<1>1. m \in Messages
  BY DEF IInv, AwaitInv, ClaimFresh, At
<1>2. (rec # None /\ rec.reviewCompleted) \in BOOLEAN
  OBVIOUS
<1>3. rec' = NewRecord("provisioning", m, rec # None /\ rec.reviewCompleted)
  BY DEF ClaimFresh, queuedRecord, NewRecord
<1>4. rec' \in Record
  BY <1>1, <1>3, <1>2, NewRecordType, ContractStates
<1>5. rec = None \/ (Terminal /\ ~rec.cleanupPending)
  BY DEF IInv, AwaitInv, ClaimFresh, Fresh, At
<1>6. \A s \in Sandboxes : box[s] # "up" /\ proc[s] = "absent"
  BY <1>5 DEF IInv, NoSandboxLeak, Terminal
<1>7. op' \in Operation
  BY GotoType DEF IInv, TypeOK, ClaimFresh, Steps
<1>8. handled' \subseteq Identities
  BY <1>1, HandleType DEF IInv, TypeOK, ClaimFresh
<1>9. claims' \in [Identities -> Nat]
  BY <1>1 DEF IInv, TypeOK, ClaimFresh, Identities
<1>10. TypeOK'
  BY <1>4, <1>7, <1>8, <1>9 DEF IInv, TypeOK, ClaimFresh, alarms, sandbox
<1>11. op'.step = "policy" /\ op'.kind = "start" /\ op'.message = m
  BY DEF IInv, TypeOK, ClaimFresh, At, Goto, Operation
<1>12. rec' # None /\ rec'.state = "provisioning"
  BY <1>3, <1>4, NoneIsNoRecord DEF NewRecord
<1>13. AwaitInv'
  BY <1>1, <1>11, <1>12 DEF AwaitInv, StartSteps
<1>14. RecordInv' /\ NoSandboxLeak' /\ \A s \in Sandboxes : proc'[s] # "twice"
  BY <1>3, <1>6 DEF IInv, RecordInv, NoSandboxLeak, ClaimFresh, sandbox, NewRecord
<1> QED
  BY <1>10, <1>13, <1>14 DEF IInv

LEMMA ClaimResumedInv == ASSUME IInv, ClaimResumed PROVE IInv'
<1>1. op.step = "claim" /\ op.kind = "start" /\ op.message \in Messages
  BY DEF IInv, AwaitInv, ClaimResumed, At
<1>2. rec \in Record /\ rec # None /\ rec.state \in {"queued", "provisioning"}
  BY DEF IInv, TypeOK, ClaimResumed, Resumed, OwnDelivery
<1>3. rec' = [rec EXCEPT !.message = op.message, !.state = "provisioning"]
  BY DEF ClaimResumed
<1>4. rec' \in Record
  BY <1>1, <1>2, <1>3, ContractStates DEF Record
<1>5. rec' # None
  BY <1>4, NoneIsNoRecord
<1>6. /\ rec'.state = "provisioning" /\ rec'.sandboxId = rec.sandboxId
      /\ rec'.cleanupPending = rec.cleanupPending /\ rec'.processId = rec.processId
  BY <1>2, <1>3 DEF Record
<1>7. op' \in Operation /\ op'.step = "policy" /\ op'.kind = "start" /\ op'.message = op.message
  BY <1>1, GotoType DEF IInv, TypeOK, ClaimResumed, Steps
<1>8. handled' \subseteq Identities
  BY <1>1, HandleType DEF IInv, TypeOK, ClaimResumed
<1>9. TypeOK'
  BY <1>4, <1>7, <1>8 DEF IInv, TypeOK, ClaimResumed, alarms, sandbox
<1>10. AwaitInv'
  BY <1>1, <1>5, <1>6, <1>7 DEF AwaitInv, StartSteps
<1>11. RecordInv' /\ NoSandboxLeak' /\ \A s \in Sandboxes : proc'[s] # "twice"
  BY <1>2, <1>5, <1>6, ContractStates DEF IInv, RecordInv, NoSandboxLeak, ClaimResumed, sandbox
<1> QED
  BY <1>9, <1>10, <1>11 DEF IInv

LEMMA NotClaimedInv == ASSUME IInv, NotClaimed PROVE IInv'
BY SMTT(20), ContractStates, NoneIsNoRecord, NoneAssumption, GotoType, FinishType, HandleType
DEF NotClaimed, Handle, Resumed, Fresh, sandbox, OwnDelivery, At, IInv, TypeOK, AwaitInv,
  RecordInv, NoSandboxLeak, Record, Operation, Steps, EndSteps, StartSteps, Terminal, Live

LEMMA ReadPolicyInv == ASSUME IInv, ReadPolicy PROVE IInv'
BY SMTT(20), ContractStates, NoneIsNoRecord, NoneAssumption, GotoType, FinishType
DEF ReadPolicy, alarms, sandbox, At, IInv, TypeOK, AwaitInv, RecordInv, NoSandboxLeak,
  Record, Operation, Steps, EndSteps, StartSteps, Terminal, Live

LEMMA CreateCheckRunInv == ASSUME IInv, CreateCheckRun PROVE IInv'
<1>1. op \in Operation /\ op.kind = "start" /\ rec # None /\ rec.state = "provisioning"
      /\ op.message \in Messages
  BY DEF IInv, TypeOK, AwaitInv, CreateCheckRun, At, StartSteps
<1>2. PICK c \in CheckRuns :
        /\ checks' = [checks EXCEPT ![c] = "in_progress"]
        /\ \/ /\ op' = [op EXCEPT !.step = "saveCheck", !.check = c]
              /\ UNCHANGED <<fired, faults>>
           \/ Fault /\ Finish("threw")
  BY DEF CreateCheckRun
<1>3. op' \in Operation /\ fired' \in BOOLEAN /\ faults' \in Nat
      /\ \/ op'.step = "threw" /\ op'.kind = "none"
         \/ op'.step = "saveCheck" /\ op'.kind = op.kind /\ op'.message = op.message
  <2>1. CASE op' = [op EXCEPT !.step = "saveCheck", !.check = c] /\ UNCHANGED <<fired, faults>>
    BY <1>1, <1>2, <2>1 DEF IInv, TypeOK, Operation, Steps
  <2>2. CASE Fault /\ Finish("threw")
    BY <2>2, FinishType DEF IInv, TypeOK, Fault, EndSteps
  <2> QED
    BY <1>2, <2>1, <2>2
<1>4. TypeOK'
  BY <1>2, <1>3 DEF IInv, TypeOK, CreateCheckRun, durable, sandbox
<1>5. AwaitInv'
  BY <1>1, <1>3 DEF AwaitInv, CreateCheckRun, StartSteps, durable
<1>6. RecordInv' /\ NoSandboxLeak' /\ \A s \in Sandboxes : proc'[s] # "twice"
  BY DEF IInv, RecordInv, NoSandboxLeak, CreateCheckRun, durable, sandbox
<1> QED
  BY <1>4, <1>5, <1>6 DEF IInv

LEMMA SaveCheckRunIdInv == ASSUME IInv, SaveCheckRunId PROVE IInv'
<1>1. rec \in Record /\ op.step = "saveCheck" /\ rec # None /\ rec.state = "provisioning" /\ op.check \in CheckRuns \cup {None}
  BY NoneAssumption, NoneIsNoRecord, ContractStates
  DEF IInv, TypeOK, AwaitInv, SaveCheckRunId, At, StartSteps, Live, Terminal, Settling,
    Operation
<1>2. rec' \in Record
  BY <1>1, ContractStates DEF SaveCheckRunId, Record, Operation
<1>3. rec' # None
  BY <1>2, NoneIsNoRecord
<1>4. rec'.state = rec.state /\ rec'.sandboxId = rec.sandboxId /\ rec'.cleanupPending = rec.cleanupPending /\ rec'.processId = rec.processId
  BY <1>1 DEF SaveCheckRunId, Record, Operation
<1>5. op' \in Operation /\ op'.step = "allocate" /\ op'.kind = op.kind /\ op'.message = op.message
  BY <1>1 DEF IInv, TypeOK, SaveCheckRunId, Steps, Operation
<1>6. TypeOK'
  BY <1>2, <1>5 DEF IInv, TypeOK, SaveCheckRunId, durable, alarms, sandbox, Operation
<1>7. AwaitInv'
  BY <1>1, <1>2, <1>3, <1>4, <1>5, ContractStates, NoneAssumption
  DEF IInv, AwaitInv, RecordInv, SaveCheckRunId, At, StartSteps, Terminal, Live,
    sandbox, Operation
<1>8. RecordInv' /\ NoSandboxLeak' /\ \A s \in Sandboxes : proc'[s] # "twice"
  BY <1>1, <1>2, <1>3, <1>4, ContractStates, NoneAssumption
  DEF IInv, TypeOK, AwaitInv, RecordInv, NoSandboxLeak, SaveCheckRunId, At, Terminal,
    Live, sandbox, Operation
<1> QED
  BY <1>6, <1>7, <1>8 DEF IInv

LEMMA RejectPolicyInv == ASSUME IInv, RejectPolicy PROVE IInv'
BY SMTT(20), ContractStates, NoneIsNoRecord, NoneAssumption, GotoType, FinishType
DEF RejectPolicy, durable, sandbox, At, IInv, TypeOK, AwaitInv, RecordInv, NoSandboxLeak,
  Record, Operation, Steps, EndSteps, StartSteps, Terminal, Live

LEMMA AllocateSandboxInv == ASSUME IInv, AllocateSandbox PROVE IInv'
BY SMTT(20), ContractStates, NoneIsNoRecord, NoneAssumption, GotoType, FinishType
DEF AllocateSandbox, alarms, At, IInv, TypeOK, AwaitInv, RecordInv, NoSandboxLeak, Record,
  Operation, Steps, EndSteps, StartSteps, Terminal, Live

LEMMA RecoverProcessInv == ASSUME IInv, RecoverProcess PROVE IInv'
<1>1. op.kind = "start" /\ op.message \in Messages /\ rec \in Record /\ rec # None
      /\ rec.state = "provisioning" /\ rec.sandboxId \in Sandboxes
  BY DEF IInv, TypeOK, AwaitInv, RecoverProcess, At, StartSteps
<1>2. rec' = [rec EXCEPT !.processId = TRUE]
  BY DEF RecoverProcess
<1>3. rec' \in Record
  BY <1>1, <1>2 DEF Record
<1>4. rec' # None
  BY <1>3, NoneIsNoRecord
<1>5. /\ rec'.state = rec.state /\ rec'.sandboxId = rec.sandboxId
      /\ rec'.cleanupPending = rec.cleanupPending /\ rec'.processId = TRUE
  BY <1>1, <1>2 DEF Record
<1>6. proc[rec.sandboxId] # "absent" => rec.processId
  BY <1>1, NoneAssumption DEF IInv, RecordInv
<1>7. op' \in Operation /\ op'.kind = "start" /\ op'.message = op.message
      /\ op'.step \in {"record", "launch"}
      /\ (op'.step = "launch" => proc[rec.sandboxId] = "absent")
  <2>1. CASE rec.processId /\ proc[rec.sandboxId] # "absent"
    <3>1. Goto("record")
      BY <2>1 DEF RecoverProcess
    <3> QED
      BY <1>1, <3>1, GotoType DEF IInv, TypeOK, Steps, RecoverProcess, At
  <2>2. CASE ~(rec.processId /\ proc[rec.sandboxId] # "absent")
    <3>1. Goto("launch")
      BY <2>2 DEF RecoverProcess
    <3> QED
      BY <1>1, <1>6, <2>2, <3>1, GotoType DEF IInv, TypeOK, Steps
  <2> QED
    BY <2>1, <2>2
<1>8. TypeOK'
  BY <1>3, <1>7 DEF IInv, TypeOK, RecoverProcess, alarms, sandbox
<1>9. AwaitInv'
  BY <1>1, <1>4, <1>5, <1>7 DEF AwaitInv, RecoverProcess, StartSteps, sandbox
<1>10. RecordInv' /\ NoSandboxLeak' /\ \A s \in Sandboxes : proc'[s] # "twice"
  BY <1>1, <1>4, <1>5 DEF IInv, RecordInv, NoSandboxLeak, RecoverProcess, sandbox
<1> QED
  BY <1>8, <1>9, <1>10 DEF IInv

LEMMA StartProcessInv == ASSUME IInv, StartProcess PROVE IInv'
BY SMTT(20), ContractStates, NoneIsNoRecord, NoneAssumption, GotoType, FinishType
DEF StartProcess, Fault, durable, At, IInv, TypeOK, AwaitInv, RecordInv, NoSandboxLeak,
  Record, Operation, Steps, EndSteps, StartSteps, Terminal, Live

LEMMA SaveDeadlineInv == ASSUME IInv, SaveDeadline PROVE IInv'
<1>1. rec \in Record /\ op.step = "record" /\ rec # None /\ rec.state = "provisioning" /\ rec.sandboxId \in Sandboxes
  BY NoneAssumption, NoneIsNoRecord, ContractStates
  DEF IInv, TypeOK, AwaitInv, SaveDeadline, At, StartSteps, Live, Terminal, Settling,
    Operation
<1>2. rec' \in Record
  BY <1>1, ContractStates DEF SaveDeadline, Record
<1>3. rec' # None
  BY <1>2, NoneIsNoRecord
<1>4. rec'.state = rec.state /\ rec'.sandboxId = rec.sandboxId /\ rec'.cleanupPending = rec.cleanupPending /\ rec'.processId = rec.processId
  BY <1>1 DEF SaveDeadline, Record
<1>5. op' \in Operation /\ op'.step = "run" /\ op'.kind = op.kind /\ op'.message = op.message /\ op'.verdict = op.verdict
  BY GotoType DEF IInv, TypeOK, SaveDeadline, Steps
<1>6. TypeOK'
  BY <1>2, <1>5 DEF IInv, TypeOK, SaveDeadline, durable, alarms, sandbox
<1>7. AwaitInv'
  BY <1>1, <1>2, <1>3, <1>4, <1>5, ContractStates, NoneAssumption
  DEF IInv, AwaitInv, RecordInv, SaveDeadline, At, StartSteps, Terminal, Live, sandbox
<1>8. RecordInv' /\ NoSandboxLeak' /\ \A s \in Sandboxes : proc'[s] # "twice"
  BY <1>1, <1>2, <1>3, <1>4, ContractStates, NoneAssumption
  DEF IInv, TypeOK, AwaitInv, RecordInv, NoSandboxLeak, SaveDeadline, At, Terminal,
    Live, sandbox
<1> QED
  BY <1>6, <1>7, <1>8 DEF IInv

LEMMA TransitionRunningInv == ASSUME IInv, TransitionRunning PROVE IInv'
BY SMTT(20), ContractStates, NoneIsNoRecord, NoneAssumption, GotoType, FinishType
DEF TransitionRunning, alarms, sandbox, At, IInv, TypeOK, AwaitInv, RecordInv,
  NoSandboxLeak, Record, Operation, Steps, EndSteps, StartSteps, Terminal, Live

LEMMA SetAlarmInv == ASSUME IInv, SetAlarm PROVE IInv'
BY SMTT(20), ContractStates, NoneIsNoRecord, NoneAssumption, GotoType, FinishType
DEF SetAlarm, durable, sandbox, At, IInv, TypeOK, AwaitInv, RecordInv, NoSandboxLeak,
  Record, Operation, Steps, EndSteps, StartSteps, Terminal, Live

LEMMA StartThrowsInv == ASSUME IInv, StartThrows PROVE IInv'
BY SMTT(20), ContractStates, NoneIsNoRecord, NoneAssumption, GotoType, FinishType
DEF StartThrows, Fault, durable, At, IInv, TypeOK, AwaitInv, RecordInv, NoSandboxLeak,
  Record, Operation, Steps, EndSteps, StartSteps, Terminal, Live

LEMMA StartSettledInv == ASSUME IInv, StartSettled PROVE IInv'
<1>1. op.kind = "start" /\ op.message \in Messages /\ Terminal
  BY DEF IInv, AwaitInv, StartSettled, At
<1>2. op' \in Operation /\ fired' \in BOOLEAN
      /\ \/ op'.step = "threw" /\ op'.kind = "none"
         \/ op'.step = "claim" /\ op'.kind = "start" /\ op'.message = op.message
            /\ ~rec.cleanupPending
  <2>1. CASE Pending
    <3>1. Finish("threw")
      BY <2>1 DEF StartSettled
    <3> QED
      BY <3>1, FinishType DEF IInv, TypeOK, EndSteps
  <2>2. CASE ~Pending
    <3>1. Goto("claim") /\ fired' = fired
      BY <2>2 DEF StartSettled
    <3> QED
      BY <1>1, <2>2, <3>1, GotoType DEF IInv, TypeOK, Steps, Pending, Terminal
  <2> QED
    BY <2>1, <2>2
<1>3. TypeOK'
  BY <1>2 DEF IInv, TypeOK, StartSettled, durable, sandbox
<1>4. AwaitInv'
  BY <1>1, <1>2 DEF AwaitInv, StartSettled, StartSteps, durable, Terminal
<1>5. RecordInv' /\ NoSandboxLeak' /\ \A s \in Sandboxes : proc'[s] # "twice"
  BY DEF IInv, RecordInv, NoSandboxLeak, StartSettled, durable, sandbox
<1> QED
  BY <1>3, <1>4, <1>5 DEF IInv

LEMMA CreateQueuedInv == ASSUME IInv, CreateQueued PROVE IInv'
<1>1. rec = None /\ op.message \in Messages
  BY DEF IInv, AwaitInv, CreateQueued, At
<1>2. rec' = NewRecord("queued", op.message, FALSE)
  BY DEF CreateQueued, queuedRecord
<1>3. rec' \in Record /\ rec' # None /\ rec'.state = "queued" /\ rec'.sandboxId = None
      /\ rec'.cleanupPending = FALSE
  BY <1>1, <1>2, NewRecordType, NoneIsNoRecord, ContractStates DEF NewRecord
<1>4. op' \in Operation /\ op'.step = "provision" /\ op'.kind = op.kind /\ op'.message = op.message
  BY GotoType DEF IInv, TypeOK, CreateQueued, Steps
<1>5. TypeOK'
  BY <1>3, <1>4 DEF IInv, TypeOK, CreateQueued, alarms, sandbox
<1>6. AwaitInv'
  BY <1>1, <1>3, <1>4 DEF AwaitInv, StartSteps
<1>7. RecordInv' /\ NoSandboxLeak' /\ \A s \in Sandboxes : proc'[s] # "twice"
  BY <1>1, <1>3 DEF IInv, RecordInv, NoSandboxLeak, CreateQueued, sandbox
<1> QED
  BY <1>5, <1>6, <1>7 DEF IInv

LEMMA TransitionProvisioningInv == ASSUME IInv, TransitionProvisioning PROVE IInv'
<1>1. op.kind = "failStart" /\ op.message \in Messages /\ rec \in Record /\ rec # None
      /\ rec.state = "queued"
  BY DEF IInv, TypeOK, AwaitInv, TransitionProvisioning, At
<1>2. rec' \in Record
  BY <1>1, ContractStates DEF TransitionProvisioning, Record
<1>3. rec' # None
  BY <1>2, NoneIsNoRecord
<1>4. /\ rec'.state = "provisioning" /\ rec'.sandboxId = rec.sandboxId
      /\ rec'.cleanupPending = rec.cleanupPending /\ rec'.processId = rec.processId
  BY <1>1 DEF TransitionProvisioning, Record
<1>5. op' \in Operation /\ op'.step = "flag" /\ op'.kind = "failStart" /\ op'.message = op.message
  BY <1>1, GotoType DEF IInv, TypeOK, TransitionProvisioning, Steps
<1>6. TypeOK'
  BY <1>2, <1>5 DEF IInv, TypeOK, TransitionProvisioning, alarms, sandbox
<1>7. AwaitInv'
  BY <1>1, <1>3, <1>4, <1>5, ContractStates DEF AwaitInv, StartSteps, Live
<1>8. RecordInv' /\ NoSandboxLeak' /\ \A s \in Sandboxes : proc'[s] # "twice"
  BY <1>1, <1>3, <1>4, ContractStates DEF IInv, RecordInv, NoSandboxLeak,
     TransitionProvisioning, sandbox
<1> QED
  BY <1>6, <1>7, <1>8 DEF IInv

LEMMA TombstoneInv == ASSUME IInv, Tombstone PROVE IInv'
<1>1. rec = None
  BY DEF IInv, AwaitInv, Tombstone, At
<1>2. rec' \in Record
  <2> DEFINE r == NewRecord("superseded", None, FALSE)
  <2>1. r \in Record
    BY NewRecordType, ContractStates
  <2>2. rec' = [r EXCEPT !.conclusion = "neutral"]
    BY DEF Tombstone
  <2> HIDE DEF r
  <2> QED
    BY <2>1, <2>2 DEF Record
<1>3. rec' # None
  BY <1>2, NoneIsNoRecord
<1>4. rec'.state = "superseded" /\ rec'.sandboxId = None /\ rec'.cleanupPending = FALSE
  BY DEF Tombstone, NewRecord
<1>5. op' \in Operation /\ op'.step = "settled" /\ op'.kind = "supersede"
  BY GotoType DEF IInv, TypeOK, Tombstone, At, Steps
<1>6. TypeOK'
  BY <1>2, <1>5 DEF IInv, TypeOK, Tombstone, alarms, sandbox
<1>7. AwaitInv'
  BY <1>5 DEF AwaitInv, StartSteps
<1>8. RecordInv' /\ NoSandboxLeak' /\ \A s \in Sandboxes : proc'[s] # "twice"
  BY <1>1, <1>4 DEF IInv, RecordInv, NoSandboxLeak, Tombstone, sandbox
<1> QED
  BY <1>6, <1>7, <1>8 DEF IInv

LEMMA FlagObligationsInv == ASSUME IInv, FlagObligations PROVE IInv'
<1>1. rec \in Record /\ rec # None /\ ~isTerminalState(rec.state) /\ op.step = "flag"
  BY DEF IInv, TypeOK, AwaitInv, FlagObligations, At, Live
<1>2. PICK b \in BOOLEAN, c \in BOOLEAN :
        /\ b <=> rec.sandboxId # None
        /\ rec' = [rec EXCEPT !.conclusion = "neutral", !.checkUpdatePending = c,
                              !.cleanupPending = b]
  BY Zenon DEF FlagObligations
<1>3. rec' \in Record
  BY <1>1, <1>2 DEF Record
<1>4. rec' # None
  BY <1>3, NoneIsNoRecord
<1>5. rec'.state = rec.state /\ rec'.sandboxId = rec.sandboxId /\ rec'.processId = rec.processId
      /\ (rec'.cleanupPending <=> rec.sandboxId # None)
  BY <1>1, <1>2 DEF Record
<1>6. op' \in Operation /\ op'.step = "mark" /\ op'.kind = op.kind /\ op'.message = op.message
  BY GotoType DEF IInv, TypeOK, FlagObligations, Steps
<1>7. TypeOK'
  BY <1>3, <1>6 DEF IInv, TypeOK, FlagObligations, alarms, sandbox
<1>8. AwaitInv'
  BY <1>1, <1>4, <1>5, <1>6 DEF IInv, AwaitInv, StartSteps, Live
<1>9. RecordInv' /\ NoSandboxLeak' /\ \A s \in Sandboxes : proc'[s] # "twice"
  BY <1>1, <1>4, <1>5 DEF IInv, RecordInv, NoSandboxLeak, FlagObligations, sandbox, Record
<1> QED
  BY <1>7, <1>8, <1>9 DEF IInv

LEMMA MarkTerminalInv == ASSUME IInv, MarkTerminal PROVE IInv'
BY SMTT(20), ContractStates, NoneIsNoRecord, NoneAssumption, GotoType, FinishType
DEF MarkTerminal, SettleFrom, TargetState, canTransition, alarms, sandbox, AfterCleanup,
  At, IInv, TypeOK, AwaitInv, RecordInv, NoSandboxLeak, Record, Operation, Steps,
  EndSteps, StartSteps, Terminal, Live

LEMMA MarkThrowsInv == ASSUME IInv, MarkThrows PROVE IInv'
BY SMTT(20), ContractStates, NoneIsNoRecord, NoneAssumption, GotoType, FinishType
DEF MarkThrows, TargetState, canTransition, durable, sandbox, At, IInv, TypeOK, AwaitInv,
  RecordInv, NoSandboxLeak, Record, Operation, Steps, EndSteps, StartSteps, Terminal, Live

LEMMA AlarmFiresInv == ASSUME IInv, AlarmFires PROVE IInv'
<1>1. op' = op
  BY NoneAssumption DEF IInv, TypeOK, AwaitInv, AlarmFires, At, Terminal, Live, StartSteps
<1>2. op' \in Operation /\ op' = op
  BY <1>1, NoneAssumption DEF IInv, TypeOK, AlarmFires, Steps, EndSteps, At
<1>3. TypeOK'
  BY <1>1, <1>2, NoneAssumption
  DEF IInv, TypeOK, AlarmFires, durable, alarms, sandbox, EndSteps
<1>4. AwaitInv'
  BY <1>1, <1>2, ContractStates
  DEF IInv, AwaitInv, TypeOK, AlarmFires, StartSteps, EndSteps, Terminal, Live, durable,
    sandbox
<1>5. RecordInv' /\ NoSandboxLeak' /\ \A s \in Sandboxes : proc'[s] # "twice"
  BY DEF IInv, TypeOK, AwaitInv, RecordInv, NoSandboxLeak, AlarmFires, durable, sandbox
<1> QED
  BY <1>3, <1>4, <1>5 DEF IInv

LEMMA BeginAlarmInv == ASSUME IInv, BeginAlarm PROVE IInv'
<1>1. /\ op' \in Operation /\ op'.kind \in {"alarm", "publish"}
      /\ op'.step \in {"settled", "diagnose", "neutral", "flag", "collect", "poll"}
      /\ op'.step \in {"diagnose", "neutral"} => Terminal
      /\ op'.step = "diagnose" => rec.cleanupPending
      /\ op'.step \in {"flag", "poll"} => Live
      /\ op'.step = "collect" => rec # None /\ rec.state = "publishing"
  <2>1. CASE rec = None
    <3>1. serial("alarm", None, "settled")
      BY <2>1 DEF BeginAlarm, Live, Terminal
    <3> QED
      BY <3>1, SerialType DEF Kinds, Steps
  <2>2. CASE Terminal
    <3>1. rec # None /\ ~Live
      BY <2>2 DEF Terminal, Live
    <3>2. serial("alarm", None, SettleFrom("alarm", rec))
      BY <2>2, <3>1 DEF BeginAlarm
    <3>3. /\ SettleFrom("alarm", rec) \in {"diagnose", "neutral", "settled"}
          /\ SettleFrom("alarm", rec) = "diagnose" => rec.cleanupPending
      BY DEF SettleFrom, AfterCleanup
    <3> QED
      BY <2>2, <3>2, <3>3, SerialType DEF Kinds, Steps
  <2>3. CASE Live /\ DeadlineReached
    <3>1. rec # None /\ ~Terminal
      BY <2>3 DEF Terminal, Live
    <3>2. serial("alarm", None, "flag")
      BY <2>3, <3>1 DEF BeginAlarm
    <3> QED
      BY <2>3, <3>2, SerialType DEF Kinds, Steps
  <2>4. CASE Live /\ ~DeadlineReached /\ rec.state = "publishing"
    <3>1. rec # None /\ ~Terminal
      BY <2>4 DEF Terminal, Live
    <3>2. serial("publish", None, "collect")
      BY <2>4, <3>1 DEF BeginAlarm
    <3> QED
      BY <2>4, <3>1, <3>2, SerialType DEF Kinds, Steps
  <2>5. CASE Live /\ ~DeadlineReached /\ rec.state # "publishing"
    <3>1. rec # None /\ ~Terminal
      BY <2>5 DEF Terminal, Live
    <3>2. serial("alarm", None, "poll")
      BY <2>5, <3>1 DEF BeginAlarm
    <3> QED
      BY <2>5, <3>2, SerialType DEF Kinds, Steps
  <2> QED
    BY <2>1, <2>2, <2>3, <2>4, <2>5 DEF Terminal, Live
<1>2. TypeOK'
  BY <1>1 DEF IInv, TypeOK, BeginAlarm, durable, alarms, sandbox
<1>3. rec' = rec /\ box' = box /\ proc' = proc
  BY DEF BeginAlarm, durable, sandbox
<1>4. op'.step \in {"diagnose", "collect"} => rec.sandboxId \in Sandboxes
  BY <1>1 DEF IInv, RecordInv, Terminal
<1>5. AwaitInv'
  BY <1>1, <1>3, <1>4 DEF AwaitInv, StartSteps, Terminal, Live
<1>6. RecordInv' /\ NoSandboxLeak' /\ \A s \in Sandboxes : proc'[s] # "twice"
  BY <1>3 DEF IInv, RecordInv, NoSandboxLeak
<1> QED
  BY <1>2, <1>5, <1>6 DEF IInv

LEMMA PollThrowsInv == ASSUME IInv, PollThrows PROVE IInv'
BY SMTT(20), ContractStates, NoneIsNoRecord, NoneAssumption, GotoType, FinishType
DEF PollThrows, Rearm, Fault, durable, sandbox, At, IInv, TypeOK, AwaitInv, RecordInv,
  NoSandboxLeak, Record, Operation, Steps, EndSteps, StartSteps, Terminal, Live

LEMMA PollHealthyInv == ASSUME IInv, PollHealthy PROVE IInv'
BY SMTT(20), ContractStates, NoneIsNoRecord, NoneAssumption, GotoType, FinishType
DEF PollHealthy, Rearm, durable, sandbox, At, IInv, TypeOK, AwaitInv, RecordInv,
  NoSandboxLeak, Record, Operation, Steps, EndSteps, StartSteps, Terminal, Live

LEMMA PollEndedInv == ASSUME IInv, PollEnded PROVE IInv'
<1>1. rec \in Record /\ op.step = "poll" /\ rec # None /\ rec.state = "running" /\ op.kind = "alarm"
  BY NoneAssumption, NoneIsNoRecord, ContractStates
  DEF IInv, TypeOK, AwaitInv, PollEnded, At, StartSteps, Live, Terminal, Settling,
    Operation
<1>2. rec' \in Record
  BY <1>1, ContractStates DEF PollEnded, Record, Operation, Kinds
<1>3. rec' # None
  BY <1>2, NoneIsNoRecord
<1>4. rec'.sandboxId = rec.sandboxId /\ rec'.processId = rec.processId /\ rec'.cleanupPending = rec.cleanupPending /\ rec'.state = "publishing"
  BY <1>1 DEF PollEnded, Record, Operation, Kinds
<1>5. op' \in Operation /\ op'.step = "collect" /\ op'.kind \in {"publish", "publishLost"} /\ op'.message = op.message
  BY <1>1 DEF IInv, TypeOK, PollEnded, Steps, Operation, Kinds
<1>6. TypeOK'
  BY <1>2, <1>5 DEF IInv, TypeOK, PollEnded, durable, alarms, sandbox, Operation, Kinds
<1>7. AwaitInv'
  BY <1>1, <1>2, <1>3, <1>4, <1>5, ContractStates, NoneAssumption
  DEF IInv, AwaitInv, RecordInv, PollEnded, At, StartSteps, Terminal, Live, sandbox,
    Operation, Kinds
<1>8. RecordInv' /\ NoSandboxLeak' /\ \A s \in Sandboxes : proc'[s] # "twice"
  BY <1>1, <1>2, <1>3, <1>4, ContractStates, NoneAssumption
  DEF IInv, TypeOK, AwaitInv, RecordInv, NoSandboxLeak, PollEnded, At, Terminal, Live,
    sandbox, Operation, Kinds
<1> QED
  BY <1>6, <1>7, <1>8 DEF IInv

(* Collecting the evidence changes the record in one field only, may end the   *)
(* review process but start none, and touches no other sandbox.               *)
LEMMA PersistDiagnosticsType ==
  ASSUME IInv, rec # None, rec.sandboxId \in Sandboxes, PersistDiagnostics
  PROVE  /\ rec' \in Record /\ rec' # None
         /\ rec'.state = rec.state /\ rec'.sandboxId = rec.sandboxId
         /\ rec'.processId = rec.processId /\ rec'.cleanupPending = rec.cleanupPending
         /\ box' \in [Sandboxes -> {"none", "named", "up", "destroyed"}]
         /\ \A s \in Sandboxes : s # rec.sandboxId => box'[s] = box[s]
         /\ proc' \in [Sandboxes -> {"absent", "running", "exited", "twice"}]
         /\ \A s \in Sandboxes :
              proc'[s] = proc[s] \/ (proc[s] = "running" /\ proc'[s] = "exited")
         /\ exited' \in [Sandboxes -> Outcomes \cup {"none"}]
         /\ faults' \in Nat
<1> DEFINE s == rec.sandboxId
           active == proc[s] \in {"running", "twice"}
           Killed == /\ proc' = [proc EXCEPT ![s] = IF active THEN "exited" ELSE @]
                     /\ exited' = [exited EXCEPT ![s] = IF active THEN "broken" ELSE @]
<1>1. rec \in Record
  BY DEF IInv, TypeOK
<1>2. rec' = rec \/ rec' = [rec EXCEPT !.diagnosticsFinalized = TRUE]
  BY DEF PersistDiagnostics
<1>3. rec' \in Record
  BY <1>1, <1>2 DEF Record
<1>4. rec' # None
  BY <1>3, NoneIsNoRecord
<1>5. /\ rec'.state = rec.state /\ rec'.sandboxId = rec.sandboxId
      /\ rec'.processId = rec.processId /\ rec'.cleanupPending = rec.cleanupPending
  BY <1>1, <1>2 DEF Record
<1>6. box' = box \/ box' = [box EXCEPT ![s] = "up"]
  BY DEF PersistDiagnostics
<1>7. /\ box' \in [Sandboxes -> {"none", "named", "up", "destroyed"}]
      /\ \A t \in Sandboxes : t # rec.sandboxId => box'[t] = box[t]
  BY <1>6 DEF IInv, TypeOK
<1>8. Killed \/ UNCHANGED <<proc, exited>>
  BY DEF PersistDiagnostics
<1>9. /\ proc' \in [Sandboxes -> {"absent", "running", "exited", "twice"}]
      /\ exited' \in [Sandboxes -> Outcomes \cup {"none"}]
      /\ \A t \in Sandboxes :
           proc'[t] = proc[t] \/ (proc[t] = "running" /\ proc'[t] = "exited")
  BY <1>8 DEF IInv, TypeOK, Outcomes
<1>10. faults' \in Nat
  BY DEF PersistDiagnostics, Fault, IInv, TypeOK
<1> QED
  BY <1>3, <1>4, <1>5, <1>7, <1>9, <1>10

(* What the mapping of a result gives, whatever the policy.                    *)
LEMMA VerdictType ==
  ASSUME NEW o \in Outcomes, NEW p PROVE checkConclusionForResult(o, p) \in Verdicts
BY DEF checkConclusionForResult, Verdicts, Conclusions, Outcomes

LEMMA CollectInv == ASSUME IInv, Collect PROVE IInv'
<1>1. op \in Operation /\ rec # None /\ rec.state = "publishing" /\ rec.sandboxId \in Sandboxes
      /\ op.kind \in {"publish", "publishLost"}
  BY DEF IInv, TypeOK, AwaitInv, Collect, At
<1>2. PersistDiagnostics
  BY DEF Collect
<1>3. PICK o \in Outcomes : op' = [op EXCEPT !.step = "report",
                              !.verdict = checkConclusionForResult(o, rec.policy)]
  <2>1. exited[rec.sandboxId] \in Outcomes \cup {"none"} /\ "broken" \in Outcomes
    BY <1>1 DEF IInv, TypeOK, Outcomes
  <2> QED
    BY <2>1 DEF Collect
<1>4. /\ op' \in Operation /\ op'.step = "report" /\ op'.kind = op.kind
      /\ op'.verdict \in Verdicts
  BY <1>1, <1>3, VerdictType DEF Operation, Steps
<1>5. TypeOK'
  BY <1>1, <1>2, <1>4, PersistDiagnosticsType DEF IInv, TypeOK, Collect, alarms
<1>6. AwaitInv'
  BY <1>1, <1>2, <1>4, PersistDiagnosticsType DEF AwaitInv, StartSteps
<1>7. RecordInv' /\ NoSandboxLeak' /\ \A s \in Sandboxes : proc'[s] # "twice"
  BY <1>1, <1>2, PersistDiagnosticsType, ContractStates, NoneAssumption
  DEF IInv, TypeOK, RecordInv, NoSandboxLeak
<1> QED
  BY <1>5, <1>6, <1>7 DEF IInv

LEMMA ReportCheckInv == ASSUME IInv, ReportCheck PROVE IInv'
<1>1. op \in Operation /\ op.kind \in {"publish", "publishLost"} /\ op.verdict \in Verdicts
      /\ rec # None /\ rec.state = "publishing" /\ rec.sandboxId \in Sandboxes
  BY DEF IInv, TypeOK, AwaitInv, ReportCheck, At
<1>2. op' \in Operation /\ fired' \in BOOLEAN /\ alarm' \in BOOLEAN /\ faults' \in Nat
      /\ \/ op'.step = "idle" /\ op'.kind = "none"
         \/ op'.step = "conclude" /\ op'.kind = op.kind /\ op'.verdict = op.verdict
  <2>1. CASE Goto("conclude") /\ UNCHANGED <<alarm, fired, faults>>
    BY <1>1, <2>1, GotoType DEF IInv, TypeOK, Steps
  <2>2. CASE Fault /\ Rearm
    BY <2>2, FinishType DEF IInv, TypeOK, EndSteps, Fault, Rearm
  <2> QED
    BY <2>1, <2>2 DEF ReportCheck
<1>3. checks' \in [CheckRuns -> {"none", "in_progress", "success", "failure", "neutral"}]
  BY <1>1 DEF IInv, TypeOK, ReportCheck, Verdicts, Conclusions
<1>4. TypeOK'
  BY <1>2, <1>3 DEF IInv, TypeOK, ReportCheck, durable, sandbox
<1>5. AwaitInv'
  BY <1>1, <1>2 DEF AwaitInv, ReportCheck, StartSteps, durable
<1>6. RecordInv' /\ NoSandboxLeak' /\ \A s \in Sandboxes : proc'[s] # "twice"
  BY DEF IInv, RecordInv, NoSandboxLeak, ReportCheck, durable, sandbox
<1> QED
  BY <1>4, <1>5, <1>6 DEF IInv

LEMMA ReportThrowsInv == ASSUME IInv, ReportThrows PROVE IInv'
BY SMTT(20), ContractStates, NoneIsNoRecord, NoneAssumption, GotoType, FinishType
DEF ReportThrows, Rearm, Fault, durable, sandbox, At, IInv, TypeOK, AwaitInv, RecordInv,
  NoSandboxLeak, Record, Operation, Steps, EndSteps, StartSteps, Terminal, Live

LEMMA ConcludeInv == ASSUME IInv, Conclude PROVE IInv'
<1>1. rec \in Record /\ rec # None /\ rec.state = "publishing" /\ rec.sandboxId \in Sandboxes
      /\ rec.sandboxId # None /\ op.verdict \in Verdicts
  BY NoneAssumption DEF IInv, TypeOK, AwaitInv, Conclude, At
<1>2. PICK b \in BOOLEAN : rec' = [rec EXCEPT !.conclusion = op.verdict.conclusion,
                                      !.cleanupPending = TRUE, !.reviewCompleted = b]
  <2>1. (rec.sandboxId # None) = TRUE
    BY <1>1
  <2>2. (rec.reviewCompleted \/ op.verdict.reviewed) \in BOOLEAN
    OBVIOUS
  <2> QED
    BY <2>1, <2>2, Zenon DEF Conclude
<1>3. rec' \in Record
  <2>1. op.verdict.conclusion \in {"success", "failure", "neutral", None}
    BY <1>1 DEF Verdicts, Conclusions
  <2> QED
    BY <1>1, <1>2, <2>1 DEF Record
<1>4. rec' # None
  BY <1>3, NoneIsNoRecord
<1>5. rec'.state = rec.state /\ rec'.sandboxId = rec.sandboxId /\ rec'.processId = rec.processId
      /\ rec'.cleanupPending = TRUE
  BY <1>1, <1>2 DEF Record
<1>6. op' \in Operation /\ op'.step = "close" /\ op'.kind = op.kind /\ op'.message = op.message /\ op'.verdict = op.verdict
  BY GotoType DEF IInv, TypeOK, Conclude, Steps
<1>7. TypeOK'
  BY <1>3, <1>6 DEF IInv, TypeOK, Conclude, alarms, sandbox
<1>8. AwaitInv'
  BY <1>1, <1>4, <1>5, <1>6 DEF IInv, AwaitInv, StartSteps
<1>9. RecordInv' /\ NoSandboxLeak' /\ \A s \in Sandboxes : proc'[s] # "twice"
  BY <1>1, <1>4, <1>5 DEF IInv, RecordInv, NoSandboxLeak, Conclude, sandbox
<1> QED
  BY <1>7, <1>8, <1>9 DEF IInv

LEMMA CloseInv == ASSUME IInv, Close PROVE IInv'
<1>1. rec \in Record /\ op.step = "close" /\ rec # None /\ rec.state = "publishing" /\ rec.sandboxId \in Sandboxes /\ op.verdict \in Verdicts /\ rec.cleanupPending
  BY NoneAssumption, NoneIsNoRecord, ContractStates
  DEF IInv, TypeOK, AwaitInv, Close, At, StartSteps, Live, Terminal, Settling, Operation
<1>2. rec' \in Record
  BY <1>1, ContractStates DEF Close, Record, Verdicts, SettleFrom, Operation
<1>3. rec' # None
  BY <1>2, NoneIsNoRecord
<1>4. rec'.sandboxId = rec.sandboxId /\ rec'.processId = rec.processId /\ rec'.cleanupPending = rec.cleanupPending /\ rec'.state \in {"completed", "failed"}
  BY <1>1 DEF Close, Record, Verdicts, SettleFrom, Operation
<1>5. op' \in Operation /\ op'.step = "diagnose" /\ op'.kind = op.kind /\ op'.message = op.message
  BY <1>1 DEF IInv, TypeOK, Close, Steps, Verdicts, SettleFrom, Operation
<1>6. TypeOK'
  BY <1>2, <1>5
  DEF IInv, TypeOK, Close, durable, alarms, sandbox, Verdicts, SettleFrom, Operation
<1>7. AwaitInv'
  BY <1>1, <1>2, <1>3, <1>4, <1>5, ContractStates, NoneAssumption
  DEF IInv, AwaitInv, RecordInv, Close, At, StartSteps, Terminal, Live, sandbox,
    Verdicts, SettleFrom, Operation
<1>8. RecordInv' /\ NoSandboxLeak' /\ \A s \in Sandboxes : proc'[s] # "twice"
  BY <1>1, <1>2, <1>3, <1>4, ContractStates, NoneAssumption
  DEF IInv, TypeOK, AwaitInv, RecordInv, NoSandboxLeak, Close, At, Terminal, Live,
    sandbox, Verdicts, SettleFrom, Operation
<1> QED
  BY <1>6, <1>7, <1>8 DEF IInv

LEMMA DiagnoseInv == ASSUME IInv, Diagnose PROVE IInv'
<1>1. op \in Operation /\ Terminal /\ rec # None /\ rec.sandboxId \in Sandboxes
      /\ rec.cleanupPending
  BY DEF IInv, TypeOK, AwaitInv, Diagnose, At, Terminal
<1>2. PersistDiagnostics
  BY DEF Diagnose
<1>3. op' \in Operation /\ op'.step = "destroy" /\ op'.kind = op.kind /\ op'.message = op.message
  BY <1>1, GotoType DEF Diagnose, Steps
<1>4. op'.kind \in {"start", "failStart"} => op'.message \in Messages
  BY <1>3 DEF IInv, AwaitInv
<1>5. TypeOK'
  BY <1>1, <1>2, <1>3, PersistDiagnosticsType DEF IInv, TypeOK, Diagnose, alarms
<1>6. AwaitInv'
  BY <1>1, <1>2, <1>3, <1>4, PersistDiagnosticsType DEF AwaitInv, StartSteps, Terminal
<1>7. RecordInv' /\ NoSandboxLeak' /\ \A s \in Sandboxes : proc'[s] # "twice"
  <2>1. RecordInv'
    BY <1>1, <1>2, PersistDiagnosticsType DEF IInv, RecordInv
  <2>2. NoSandboxLeak'
    BY <1>1, <1>2, PersistDiagnosticsType DEF IInv, NoSandboxLeak
  <2> QED
    BY <1>1, <1>2, <2>1, <2>2, PersistDiagnosticsType DEF IInv
<1> QED
  BY <1>5, <1>6, <1>7 DEF IInv

LEMMA DestroySandboxInv == ASSUME IInv, DestroySandbox PROVE IInv'
BY SMTT(20), ContractStates, NoneIsNoRecord, NoneAssumption, GotoType, FinishType
DEF DestroySandbox, Settling, durable, alarms, At, IInv, TypeOK, AwaitInv, RecordInv,
  NoSandboxLeak, Record, Operation, Steps, EndSteps, StartSteps, Terminal, Live

LEMMA SaveDestroyedInv == ASSUME IInv, SaveDestroyed PROVE IInv'
<1>1. rec \in Record /\ op.step = "saveDestroyed" /\ rec # None /\ isTerminalState(rec.state) /\ rec.sandboxId \in Sandboxes
  BY NoneAssumption, NoneIsNoRecord, ContractStates
  DEF IInv, TypeOK, AwaitInv, SaveDestroyed, At, StartSteps, Live, Terminal, Settling,
    Operation
<1>2. rec' \in Record
  BY <1>1, ContractStates DEF SaveDestroyed, Record, AfterCleanup
<1>3. rec' # None
  BY <1>2, NoneIsNoRecord
<1>4. rec'.state = rec.state /\ rec'.sandboxId = rec.sandboxId /\ rec'.processId = rec.processId /\ rec'.cleanupPending = FALSE
  BY <1>1 DEF SaveDestroyed, Record, AfterCleanup
<1>5. op' \in Operation /\ op'.step \in {"neutral", "settled"} /\ op'.kind = op.kind /\ op'.message = op.message /\ op'.verdict = op.verdict
  BY GotoType DEF IInv, TypeOK, SaveDestroyed, Steps, AfterCleanup
<1>6. TypeOK'
  BY <1>2, <1>5 DEF IInv, TypeOK, SaveDestroyed, durable, alarms, sandbox, AfterCleanup
<1>7. AwaitInv'
  BY <1>1, <1>2, <1>3, <1>4, <1>5, ContractStates, NoneAssumption
  DEF IInv, AwaitInv, RecordInv, SaveDestroyed, At, StartSteps, Terminal, Live, sandbox,
    AfterCleanup
<1>8. RecordInv' /\ NoSandboxLeak' /\ \A s \in Sandboxes : proc'[s] # "twice"
  BY <1>1, <1>2, <1>3, <1>4, ContractStates, NoneAssumption
  DEF IInv, TypeOK, AwaitInv, RecordInv, NoSandboxLeak, SaveDestroyed, At, Terminal,
    Live, sandbox, AfterCleanup
<1> QED
  BY <1>6, <1>7, <1>8 DEF IInv

LEMMA DestroyFailsInv == ASSUME IInv, DestroyFails PROVE IInv'
BY SMTT(20), ContractStates, NoneIsNoRecord, NoneAssumption, GotoType, FinishType
DEF DestroyFails, Fault, Settling, durable, alarms, sandbox, At, IInv, TypeOK, AwaitInv,
  RecordInv, NoSandboxLeak, Record, Operation, Steps, EndSteps, StartSteps, Terminal, Live

LEMMA SaveUndestroyedInv == ASSUME IInv, SaveUndestroyed PROVE IInv'
<1>1. rec \in Record /\ op.step = "saveUndestroyed" /\ rec # None /\ isTerminalState(rec.state) /\ rec.sandboxId \in Sandboxes
  BY NoneAssumption, NoneIsNoRecord, ContractStates
  DEF IInv, TypeOK, AwaitInv, SaveUndestroyed, At, StartSteps, Live, Terminal, Settling,
    Operation
<1>2. rec' \in Record
  BY <1>1, ContractStates DEF SaveUndestroyed, Record
<1>3. rec' # None
  BY <1>2, NoneIsNoRecord
<1>4. rec'.state = rec.state /\ rec'.sandboxId = rec.sandboxId /\ rec'.processId = rec.processId /\ rec'.cleanupPending = TRUE
  BY <1>1 DEF SaveUndestroyed, Record
<1>5. op' \in Operation /\ op'.step = "rearmCleanup" /\ op'.kind = op.kind /\ op'.message = op.message /\ op'.verdict = op.verdict
  BY GotoType DEF IInv, TypeOK, SaveUndestroyed, Steps
<1>6. TypeOK'
  BY <1>2, <1>5 DEF IInv, TypeOK, SaveUndestroyed, durable, alarms, sandbox
<1>7. AwaitInv'
  BY <1>1, <1>2, <1>3, <1>4, <1>5, ContractStates, NoneAssumption
  DEF IInv, AwaitInv, RecordInv, SaveUndestroyed, At, StartSteps, Terminal, Live, sandbox
<1>8. RecordInv' /\ NoSandboxLeak' /\ \A s \in Sandboxes : proc'[s] # "twice"
  BY <1>1, <1>2, <1>3, <1>4, ContractStates, NoneAssumption
  DEF IInv, TypeOK, AwaitInv, RecordInv, NoSandboxLeak, SaveUndestroyed, At, Terminal,
    Live, sandbox
<1> QED
  BY <1>6, <1>7, <1>8 DEF IInv

LEMMA RearmCleanupInv == ASSUME IInv, RearmCleanup PROVE IInv'
BY SMTT(20), ContractStates, NoneIsNoRecord, NoneAssumption, GotoType, FinishType
DEF RearmCleanup, AfterCleanup, Settling, durable, alarms, sandbox, At, IInv, TypeOK, AwaitInv,
  RecordInv, NoSandboxLeak, Record, Operation, Steps, EndSteps, StartSteps, Terminal, Live

LEMMA UpdateNeutralInv == ASSUME IInv, UpdateNeutral PROVE IInv'
BY SMTT(20), ContractStates, NoneIsNoRecord, NoneAssumption, GotoType, FinishType
DEF UpdateNeutral, Settling, durable, alarms, sandbox, At, IInv, TypeOK, AwaitInv,
  RecordInv, NoSandboxLeak, Record, Operation, Steps, EndSteps, StartSteps, Terminal, Live

LEMMA SaveNeutralInv == ASSUME IInv, SaveNeutral PROVE IInv'
<1>1. rec \in Record /\ op.step = "saveNeutral" /\ rec # None /\ isTerminalState(rec.state)
  BY NoneAssumption, NoneIsNoRecord, ContractStates
  DEF IInv, TypeOK, AwaitInv, SaveNeutral, At, StartSteps, Live, Terminal, Settling,
    Operation
<1>2. rec' \in Record
  BY <1>1, ContractStates DEF SaveNeutral, Record
<1>3. rec' # None
  BY <1>2, NoneIsNoRecord
<1>4. rec'.state = rec.state /\ rec'.sandboxId = rec.sandboxId /\ rec'.processId = rec.processId /\ rec'.cleanupPending = rec.cleanupPending
  BY <1>1 DEF SaveNeutral, Record
<1>5. op' \in Operation /\ op'.step = "settled" /\ op'.kind = op.kind /\ op'.message = op.message /\ op'.verdict = op.verdict
  BY GotoType DEF IInv, TypeOK, SaveNeutral, Steps
<1>6. TypeOK'
  BY <1>2, <1>5 DEF IInv, TypeOK, SaveNeutral, durable, alarms, sandbox
<1>7. AwaitInv'
  BY <1>1, <1>2, <1>3, <1>4, <1>5, ContractStates, NoneAssumption
  DEF IInv, AwaitInv, RecordInv, SaveNeutral, At, StartSteps, Terminal, Live, sandbox
<1>8. RecordInv' /\ NoSandboxLeak' /\ \A s \in Sandboxes : proc'[s] # "twice"
  BY <1>1, <1>2, <1>3, <1>4, ContractStates, NoneAssumption
  DEF IInv, TypeOK, AwaitInv, RecordInv, NoSandboxLeak, SaveNeutral, At, Terminal, Live,
    sandbox
<1> QED
  BY <1>6, <1>7, <1>8 DEF IInv

LEMMA UpdateNeutralFailsInv == ASSUME IInv, UpdateNeutralFails PROVE IInv'
BY SMTT(20), ContractStates, NoneIsNoRecord, NoneAssumption, GotoType, FinishType
DEF UpdateNeutralFails, Fault, Settling, durable, alarms, sandbox, At, IInv, TypeOK, AwaitInv,
  RecordInv, NoSandboxLeak, Record, Operation, Steps, EndSteps, StartSteps, Terminal, Live

LEMMA SaveOwedInv == ASSUME IInv, SaveOwed PROVE IInv'
<1>1. rec \in Record /\ op.step = "saveOwed" /\ rec # None /\ isTerminalState(rec.state)
  BY NoneAssumption, NoneIsNoRecord, ContractStates
  DEF IInv, TypeOK, AwaitInv, SaveOwed, At, StartSteps, Live, Terminal,
    Settling, Operation
<1>2. rec' \in Record
  BY <1>1, ContractStates DEF SaveOwed, Record
<1>3. rec' # None
  BY <1>2, NoneIsNoRecord
<1>4. rec'.state = rec.state /\ rec'.sandboxId = rec.sandboxId /\ rec'.processId = rec.processId /\ rec'.cleanupPending = rec.cleanupPending
  BY <1>1 DEF SaveOwed, Record
<1>5. op' \in Operation /\ op'.step = "rearmCheck" /\ op'.kind = op.kind /\ op'.message = op.message /\ op'.verdict = op.verdict
  BY GotoType DEF IInv, TypeOK, SaveOwed, Steps
<1>6. TypeOK'
  BY <1>2, <1>5 DEF IInv, TypeOK, SaveOwed, durable, alarms, sandbox
<1>7. AwaitInv'
  BY <1>1, <1>2, <1>3, <1>4, <1>5, ContractStates, NoneAssumption
  DEF IInv, AwaitInv, RecordInv, SaveOwed, At, StartSteps, Terminal, Live,
    sandbox
<1>8. RecordInv' /\ NoSandboxLeak' /\ \A s \in Sandboxes : proc'[s] # "twice"
  BY <1>1, <1>2, <1>3, <1>4, ContractStates, NoneAssumption
  DEF IInv, TypeOK, AwaitInv, RecordInv, NoSandboxLeak, SaveOwed, At,
    Terminal, Live, sandbox
<1> QED
  BY <1>6, <1>7, <1>8 DEF IInv

LEMMA RearmCheckInv == ASSUME IInv, RearmCheck PROVE IInv'
BY SMTT(20), ContractStates, NoneIsNoRecord, NoneAssumption, GotoType, FinishType
DEF RearmCheck, Settling, durable, alarms, sandbox, At, IInv, TypeOK, AwaitInv,
  RecordInv, NoSandboxLeak, Record, Operation, Steps, EndSteps, StartSteps, Terminal, Live

LEMMA SettledInv == ASSUME IInv, Settled PROVE IInv'
BY SMTT(20), ContractStates, NoneIsNoRecord, NoneAssumption, GotoType, FinishType
DEF Settled, Settling, durable, sandbox, At, IInv, TypeOK, AwaitInv, RecordInv,
  NoSandboxLeak, Record, Operation, Steps, EndSteps, StartSteps, Terminal, Live

LEMMA EvictInv == ASSUME IInv, Evict PROVE IInv'
<1>1. op' \in Operation /\ op'.step = "evicted" /\ op'.kind = "none"
  BY DEF Evict, Ended, Operation, Kinds, Steps, EndSteps
<1>2. (alarm \/ fired) \in BOOLEAN /\ faults' \in Nat
  BY DEF IInv, TypeOK, Evict, Fault
<1>3. alarm' \in BOOLEAN /\ fired' \in BOOLEAN
  BY <1>2, Zenon DEF Evict
<1>4. TypeOK'
  BY <1>1, <1>2, <1>3 DEF IInv, TypeOK, Evict, durable, sandbox
<1>5. AwaitInv'
  BY <1>1 DEF AwaitInv, StartSteps
<1>6. RecordInv' /\ NoSandboxLeak' /\ \A s \in Sandboxes : proc'[s] # "twice"
  BY DEF IInv, RecordInv, NoSandboxLeak, Evict, durable, sandbox
<1> QED
  BY <1>4, <1>5, <1>6 DEF IInv

LEMMA ReviewExitsInv == ASSUME IInv, ReviewExits PROVE IInv'
BY SMTT(20), ContractStates, NoneIsNoRecord, NoneAssumption, GotoType, FinishType
DEF ReviewExits, durable, alarms, At, IInv, TypeOK, AwaitInv, RecordInv, NoSandboxLeak,
  Record, Operation, Steps, EndSteps, StartSteps, Terminal, Live

LEMMA ContainerLostInv == ASSUME IInv, ContainerLost PROVE IInv'
BY SMTT(20), ContractStates, NoneIsNoRecord, NoneAssumption, GotoType, FinishType
DEF ContainerLost, Fault, durable, alarms, At, IInv, TypeOK, AwaitInv, RecordInv,
  NoSandboxLeak, Record, Operation, Steps, EndSteps, StartSteps, Terminal, Live

LEMMA DeadlinePassesInv == ASSUME IInv, DeadlinePasses PROVE IInv'
BY SMTT(20), ContractStates, NoneIsNoRecord, NoneAssumption, GotoType, FinishType
DEF DeadlinePasses, durable, alarms, sandbox, At, IInv, TypeOK, AwaitInv, RecordInv,
  NoSandboxLeak, Record, Operation, Steps, EndSteps, StartSteps, Terminal, Live

LEMMA supersedeInv == ASSUME IInv, supersede PROVE IInv'
<1>1. /\ op' \in Operation /\ op'.kind = "supersede"
      /\ op'.step \in {"tombstone", "settled", "flag"}
      /\ op'.step = "tombstone" => rec = None
      /\ op'.step = "flag" => Live
  <2> DEFINE s == IF rec = None THEN "tombstone" ELSE IF Terminal THEN "settled" ELSE "flag"
  <2>1. serial("supersede", None, s)
    BY DEF supersede
  <2>2. s \in {"tombstone", "settled", "flag"} /\ (s = "tombstone" => rec = None)
        /\ (s = "flag" => Live)
    BY DEF Live, Terminal
  <2> HIDE DEF s
  <2> QED
    BY <2>1, <2>2, SerialType DEF Kinds, Steps
<1>2. TypeOK'
  BY <1>1 DEF IInv, TypeOK, supersede, durable, alarms, sandbox
<1>3. AwaitInv'
  BY <1>1 DEF AwaitInv, supersede, StartSteps, durable, Live
<1>4. RecordInv' /\ NoSandboxLeak' /\ \A s \in Sandboxes : proc'[s] # "twice"
  BY DEF IInv, RecordInv, NoSandboxLeak, supersede, durable, sandbox
<1> QED
  BY <1>2, <1>3, <1>4 DEF IInv

LEMMA failStartInv == ASSUME IInv, NEW m \in Messages, failStart(m) PROVE IInv'
<1>1. /\ op' \in Operation /\ op'.kind = "failStart" /\ op'.message = m
      /\ op'.step \in {"createQueued", "settled", "provision", "flag"}
      /\ op'.step = "createQueued" => rec = None
      /\ op'.step = "provision" => rec # None /\ rec.state = "queued"
      /\ op'.step = "flag" => Live
  <2> DEFINE s == CASE rec = None -> "createQueued"
         [] rec # None /\ rec.message # None /\ ~OwnDelivery(m) -> "settled"
         [] rec # None /\ rec.state \notin {"queued", "provisioning"} -> "settled"
         [] OTHER -> IF rec.state = "queued" THEN "provision" ELSE "flag"
  <2>1. serial("failStart", m, s)
    BY DEF failStart
  <2>2. /\ s \in {"createQueued", "settled", "provision", "flag"}
        /\ s = "createQueued" => rec = None
        /\ s = "provision" => rec # None /\ rec.state = "queued"
        /\ s = "flag" => rec # None /\ rec.state \in {"queued", "provisioning"}
    OBVIOUS
  <2>3. s = "flag" => Live
    BY <2>2, ContractStates DEF Live
  <2> HIDE DEF s
  <2> QED
    BY <2>1, <2>2, <2>3, SerialType DEF Kinds, Steps
<1>2. TypeOK'
  BY <1>1 DEF IInv, TypeOK, failStart, durable, alarms, sandbox
<1>3. AwaitInv'
  BY <1>1 DEF AwaitInv, failStart, StartSteps, durable, Live
<1>4. RecordInv' /\ NoSandboxLeak' /\ \A s \in Sandboxes : proc'[s] # "twice"
  BY DEF IInv, RecordInv, NoSandboxLeak, failStart, durable, sandbox
<1> QED
  BY <1>2, <1>3, <1>4 DEF IInv

(* The invariant is inductive: one lemma per action.                           *)
LEMMA NextInv == ASSUME IInv, [Next]_vars PROVE IInv'
<1>1. CASE UNCHANGED vars
  BY <1>1
  DEF vars, IInv, TypeOK, AwaitInv, RecordInv, NoSandboxLeak, StartSteps, Terminal, Live
<1>2. ASSUME NEW m \in Messages, start(m) \/ failStart(m) PROVE IInv'
  BY <1>2, StartInv, failStartInv
<1>3. CASE StartStep
  BY <1>3, ClaimFreshInv, ClaimResumedInv, NotClaimedInv, ReadPolicyInv, CreateCheckRunInv,
     SaveCheckRunIdInv, RejectPolicyInv, AllocateSandboxInv, RecoverProcessInv,
     StartProcessInv, SaveDeadlineInv, TransitionRunningInv, SetAlarmInv, StartThrowsInv,
     StartSettledInv DEF StartStep
<1>4. CASE StopStep
  BY <1>4, CreateQueuedInv, TransitionProvisioningInv, TombstoneInv, FlagObligationsInv,
     MarkTerminalInv, MarkThrowsInv DEF StopStep
<1>5. CASE PublishStep
  BY <1>5, PollThrowsInv, PollHealthyInv, PollEndedInv, CollectInv, ReportCheckInv,
     ReportThrowsInv, ConcludeInv, CloseInv DEF PublishStep
<1>6. CASE SettleStep
  BY <1>6, DiagnoseInv, DestroySandboxInv, SaveDestroyedInv, DestroyFailsInv,
     SaveUndestroyedInv, RearmCleanupInv, UpdateNeutralInv, SaveNeutralInv,
     UpdateNeutralFailsInv, SaveOwedInv, RearmCheckInv, SettledInv DEF SettleStep
<1>7. CASE Environment
  BY <1>7, AlarmFiresInv, EvictInv, ReviewExitsInv, ContainerLostInv, DeadlinePassesInv
  DEF Environment
<1>8. CASE supersede
  BY <1>8, supersedeInv
<1>9. CASE BeginAlarm
  BY <1>9, BeginAlarmInv
<1> QED
  BY <1>1, <1>2, <1>3, <1>4, <1>5, <1>6, <1>7, <1>8, <1>9 DEF Next, OpStep

THEOREM Invariance == Spec => []IInv
BY InitInv, NextInv, PTL DEF Spec

(* The state of the object, of GitHub and of the Sandbox service stays well      *)
(* formed: every record stored is a JobRecord, every operation in progress is    *)
(* at an await of the code.                                                      *)
THEOREM TypeCorrect == Spec => []TypeOK
<1>1. IInv => TypeOK
  BY DEF IInv
<1> QED
  BY <1>1, Invariance, PTL

(* No interleaving of deliveries, retries, reruns, supersessions, evictions and    *)
(* failed calls leaks a sandbox, whatever their number.                           *)
THEOREM NoLeak == Spec => []NoSandboxLeak
<1>1. IInv => NoSandboxLeak
  BY DEF IInv
<1> QED
  BY <1>1, Invariance, PTL

(* Nor does any start a second review process of one head.                        *)
THEOREM SingleProcess == Spec => []OneReviewProcess
<1>1. IInv => OneReviewProcess
  BY DEF IInv, NoSandboxLeak, OneReviewProcess
<1> QED
  BY <1>1, Invariance, PTL

-----------------------------------------------------------------------------
(* Claims: an identity that claimed an execution is among the handled ones.       *)

ClaimInv == \A i \in Identities : claims[i] <= 1 /\ (claims[i] > 0 => i \in handled)

LEMMA ClaimInit == Init => ClaimInv
BY DEF Init, ClaimInv

(* Only the transaction of start moves the handled identities and the claims.     *)
LEMMA ClaimNext == ASSUME IInv, ClaimInv, [Next]_vars PROVE ClaimInv'
<1>1. CASE ClaimFresh
  <2> DEFINE d == deliveryIdentity(op.message)
  <2>1. op.message \in Messages
    BY <1>1 DEF IInv, AwaitInv, ClaimFresh, At
  <2>2. d \in Identities /\ d \notin handled
    BY <1>1, <2>1 DEF ClaimFresh, Fresh, Identities
  <2>3. claims[d] = 0
    BY <2>2 DEF ClaimInv, IInv, TypeOK
  <2>4. claims' = [claims EXCEPT ![d] = 1]
    BY <1>1, <2>3 DEF ClaimFresh
  <2>5. handled \cup {d} \subseteq handled'
    BY <1>1 DEF ClaimFresh, Handle
  <2> HIDE DEF d
  <2> QED
    BY <2>2, <2>3, <2>4, <2>5 DEF ClaimInv, IInv, TypeOK
<1>2. CASE ClaimResumed \/ NotClaimed
  <2>1. claims' = claims /\ handled \subseteq handled'
    BY <1>2 DEF ClaimResumed, NotClaimed, Handle
  <2> QED
    BY <2>1 DEF ClaimInv
<1>3. CASE UNCHANGED <<handled, claims>>
  BY <1>3 DEF ClaimInv
<1>4. ASSUME NEW m \in Messages, start(m) \/ failStart(m) PROVE UNCHANGED <<handled, claims>>
  BY <1>4 DEF start, failStart, durable
<1>5. CASE UNCHANGED vars
  BY <1>5 DEF vars, ClaimInv
<1>6. CASE supersede \/ BeginAlarm
  BY <1>6, <1>3 DEF supersede, BeginAlarm, durable
<1>7. CASE StartStep
  <2>1. CASE ReadPolicy \/ CreateCheckRun \/ SaveCheckRunId \/ RejectPolicy \/ AllocateSandbox
             \/ RecoverProcess \/ StartProcess
    BY <2>1, <1>3 DEF ReadPolicy, CreateCheckRun, SaveCheckRunId, RejectPolicy,
       AllocateSandbox, RecoverProcess, StartProcess, durable
  <2>2. CASE SaveDeadline \/ TransitionRunning \/ SetAlarm \/ StartThrows \/ StartSettled
    BY <2>2, <1>3 DEF SaveDeadline, TransitionRunning, SetAlarm, StartThrows, StartSettled,
       durable
  <2> QED
    BY <1>1, <1>2, <1>7, <2>1, <2>2 DEF StartStep
<1>8. CASE StopStep
  BY <1>8, <1>3 DEF StopStep, CreateQueued, TransitionProvisioning, Tombstone,
     FlagObligations, MarkTerminal, MarkThrows, durable
<1>9. CASE PublishStep
  BY <1>9, <1>3 DEF PublishStep, PollThrows, PollHealthy, PollEnded, Collect, ReportCheck,
     ReportThrows, Conclude, Close, durable
<1>10. CASE SettleStep
  BY <1>10, <1>3 DEF SettleStep, Diagnose, DestroySandbox, SaveDestroyed, DestroyFails,
     SaveUndestroyed, RearmCleanup, UpdateNeutral, SaveNeutral, UpdateNeutralFails, SaveOwed,
     RearmCheck, Settled, durable
<1>11. CASE Environment
  BY <1>11, <1>3 DEF Environment, AlarmFires, Evict, ReviewExits, ContainerLost,
     DeadlinePasses, durable
<1> QED
  BY <1>3, <1>4, <1>5, <1>6, <1>7, <1>8, <1>9, <1>10, <1>11 DEF Next, OpStep

(* However often, late or out of order a delivery is repeated, its identity claims  *)
(* at most one execution.                                                          *)
THEOREM SingleClaim == Spec => []ClaimedOnce
<1>1. ClaimInv => ClaimedOnce
  BY DEF ClaimInv, ClaimedOnce
<1>2. Init => ClaimInv
  BY ClaimInit
<1>3. IInv /\ ClaimInv /\ [Next]_vars => ClaimInv'
  BY ClaimNext
<1> QED
  BY <1>1, <1>2, <1>3, Invariance, PTL DEF Spec

-----------------------------------------------------------------------------
(* The check run: what the record, the operation in progress and GitHub know of     *)
(* it together.                                                              *)

(* A check run is created for a record with a message; it is conclusive only once     *)
(* the process of the record's sandbox has ended, and no process runs there again.   *)
CheckRecord ==
  rec # None =>
    /\ rec.message = None => isTerminalState(rec.state) /\ rec.checkRunId = None
    /\ rec.checkRunId # None => checks[rec.checkRunId] # "none"
    /\ isTerminalState(rec.state) => rec.conclusion \in Conclusions
    /\ rec.state = "publishing" => proc[rec.sandboxId] # "running"
    /\ rec.checkRunId # None /\ checks[rec.checkRunId] \in {"success", "failure"} =>
         /\ rec.state \notin {"queued", "provisioning", "running"}
         /\ rec.sandboxId \in Sandboxes
         /\ proc[rec.sandboxId] # "running"

(* Between a call of GitHub and the write that records it, what was sent is what      *)
(* will be stored, and a verdict has the evidence of the process that ended.         *)
CheckAwait ==
  /\ op.step \in {"createCheck", "saveCheck"} => rec.checkRunId = None
  /\ op.step = "saveCheck" => op.check \in CheckRuns /\ checks[op.check] = "in_progress"
  /\ op.step \in {"report", "conclude", "close"} =>
       /\ op.verdict.conclusion = "success" => exited[rec.sandboxId] = "pass"
       /\ op.verdict.conclusion = "failure" => exited[rec.sandboxId] = "block"
  /\ op.step \in {"conclude", "close"} /\ rec.checkRunId # None
       => checks[rec.checkRunId] = op.verdict.conclusion
  /\ op.step = "close" => rec.conclusion = op.verdict.conclusion
  /\ op.step = "mark" => rec.conclusion = "neutral"
                         /\ (rec.checkRunId # None => rec.checkUpdatePending)
  /\ op.step \in {"neutral", "saveNeutral", "saveOwed", "rearmCheck"} => rec.checkUpdatePending
  /\ op.step = "saveNeutral" /\ rec.checkRunId # None => checks[rec.checkRunId] = "neutral"
  /\ op.step = "claim" /\ Terminal => ~Pending

(* Once the record is terminal and the check not owed, GitHub shows the conclusion,    *)
(* whether or not the cleanup is still owed.                                    *)
CheckAgrees ==
  Terminal /\ ~rec.checkUpdatePending /\ rec.checkRunId # None
    => checks[rec.checkRunId] = rec.conclusion

CheckInv == CheckRecord /\ CheckAwait /\ CheckAgrees /\ ConclusionHasEvidence

LEMMA InitCheck == Init => CheckInv
BY DEF Init, CheckInv, CheckRecord, CheckAwait, CheckAgrees, ConclusionHasEvidence, Terminal,
   Ended

LEMMA EndStep == ASSUME NEW s, Finish(s) PROVE op'.step = s
BY DEF Finish, Ended

LEMMA ClaimResumedCheck == ASSUME IInv, CheckInv, ClaimResumed PROVE CheckInv'
<1>1. op \in Operation /\ op.message \in Messages
      /\ rec \in Record /\ rec # None /\ rec.state \in {"queued", "provisioning"}
  BY DEF IInv, TypeOK, AwaitInv, ClaimResumed, Resumed, OwnDelivery, At
<1>2. /\ rec'.state = "provisioning" /\ rec'.message = op.message
      /\ rec'.checkRunId = rec.checkRunId /\ rec'.sandboxId = rec.sandboxId
  BY <1>1 DEF ClaimResumed, Record
<1>3. UNCHANGED <<checks, proc, exited>> /\ op'.step = "policy"
  BY <1>1, GotoType DEF ClaimResumed, sandbox, Steps
<1>4. rec'.message # None /\ ~isTerminalState(rec'.state) /\ ~isTerminalState(rec.state)
  BY <1>1, <1>2, ContractStates, NoneAssumption
<1> QED
  BY <1>1, <1>2, <1>3, <1>4
  DEF CheckInv, CheckRecord, CheckAwait, CheckAgrees, ConclusionHasEvidence, Terminal

LEMMA CreateCheckRunCheck == ASSUME IInv, CheckInv, CreateCheckRun PROVE CheckInv'
<1>1. rec # None /\ rec.state = "provisioning" /\ rec.checkRunId = None
      /\ ~isTerminalState(rec.state)
  BY ContractStates DEF IInv, AwaitInv, CheckInv, CheckAwait, CreateCheckRun, At, StartSteps
<1>2. PICK c \in CheckRuns :
        /\ checks' = [checks EXCEPT ![c] = "in_progress"]
        /\ \/ op' = [op EXCEPT !.step = "saveCheck", !.check = c]
           \/ Finish("threw")
  BY DEF CreateCheckRun
<1>3. \/ op'.step = "threw"
      \/ op'.step = "saveCheck" /\ op'.check \in CheckRuns /\ checks'[op'.check] = "in_progress"
  <2>1. op \in Operation /\ checks'[c] = "in_progress"
    BY <1>2 DEF IInv, TypeOK
  <2>2. CASE op' = [op EXCEPT !.step = "saveCheck", !.check = c]
    BY <2>1, <2>2 DEF Operation
  <2> QED
    BY <1>2, <2>2, EndStep
<1> QED
  BY <1>1, <1>3 DEF CheckInv, CheckRecord, CheckAwait, CheckAgrees, ConclusionHasEvidence,
     Terminal, CreateCheckRun, durable, sandbox

LEMMA StartProcessCheck == ASSUME IInv, CheckInv, StartProcess PROVE CheckInv'
<1>1. /\ rec # None /\ rec.state = "provisioning" /\ ~isTerminalState(rec.state)
      /\ UNCHANGED <<rec, checks, exited>>
  BY ContractStates DEF IInv, AwaitInv, StartProcess, At, StartSteps, durable
<1>2. op'.step \in {"record", "threw"}
  BY GotoType, EndStep DEF IInv, TypeOK, StartProcess, Steps
<1> QED
  BY <1>1, <1>2 DEF CheckInv, CheckRecord, CheckAwait, CheckAgrees, ConclusionHasEvidence, Terminal

LEMMA StartSettledCheck == ASSUME IInv, CheckInv, StartSettled PROVE CheckInv'
<1>1. UNCHANGED <<rec, checks, proc, exited>>
  BY DEF StartSettled, durable, sandbox
<1>2. op'.step = "threw" \/ (op'.step = "claim" /\ ~Pending)
  BY GotoType, EndStep DEF IInv, TypeOK, StartSettled, Steps
<1> QED
  BY <1>1, <1>2 DEF CheckInv, CheckRecord, CheckAwait, CheckAgrees, ConclusionHasEvidence,
     Terminal, Pending

LEMMA FlagObligationsCheck == ASSUME IInv, CheckInv, FlagObligations PROVE CheckInv'
<1>1. rec \in Record /\ rec # None /\ ~isTerminalState(rec.state)
  BY DEF IInv, TypeOK, AwaitInv, FlagObligations, At, Live
<1>2. /\ rec'.conclusion = "neutral" /\ rec'.checkUpdatePending = (rec.checkRunId # None)
      /\ rec'.state = rec.state /\ rec'.message = rec.message
      /\ rec'.checkRunId = rec.checkRunId /\ rec'.sandboxId = rec.sandboxId
  BY <1>1 DEF FlagObligations, Record
<1>3. UNCHANGED <<checks, proc, exited>> /\ op'.step = "mark"
  BY GotoType DEF IInv, TypeOK, FlagObligations, sandbox, Steps
<1> QED
  BY <1>1, <1>2, <1>3
  DEF CheckInv, CheckRecord, CheckAwait, CheckAgrees, ConclusionHasEvidence, Terminal

LEMMA CollectCheck == ASSUME IInv, CheckInv, Collect PROVE CheckInv'
<1> DEFINE s == rec.sandboxId
<1>1. rec \in Record /\ rec # None /\ rec.state = "publishing" /\ s \in Sandboxes
      /\ proc[s] # "running" /\ proc[s] # "twice" /\ ~isTerminalState(rec.state)
      /\ op \in Operation
  BY ContractStates DEF IInv, TypeOK, AwaitInv, Collect, At, CheckInv, CheckRecord
<1>2. /\ rec' \in {rec, [rec EXCEPT !.diagnosticsFinalized = TRUE]}
      /\ UNCHANGED <<proc, exited, checks>>
  BY <1>1 DEF Collect, PersistDiagnostics, IInv, TypeOK
<1>3. /\ rec'.state = rec.state /\ rec'.message = rec.message
      /\ rec'.checkRunId = rec.checkRunId /\ rec'.sandboxId = s
  BY <1>1, <1>2 DEF Record
<1>4. PICK o \in {exited[s], "broken"} :
        op' = [op EXCEPT !.step = "report", !.verdict = checkConclusionForResult(o, rec.policy)]
  BY DEF Collect
<1>5. op'.step = "report" /\ op'.verdict = checkConclusionForResult(o, rec.policy)
  BY <1>1, <1>4 DEF Operation
<1>6. /\ op'.verdict.conclusion = "success" => exited[s] = "pass"
      /\ op'.verdict.conclusion = "failure" => exited[s] = "block"
  BY <1>4, <1>5 DEF checkConclusionForResult
<1> HIDE DEF s
<1> QED
  BY <1>1, <1>2, <1>3, <1>5, <1>6
  DEF s, CheckInv, CheckRecord, CheckAwait, CheckAgrees, ConclusionHasEvidence, Terminal

LEMMA ReportCheckCheck == ASSUME IInv, CheckInv, ReportCheck PROVE CheckInv'
<1>1. rec \in Record /\ rec # None /\ rec.state = "publishing" /\ rec.sandboxId \in Sandboxes
      /\ ~isTerminalState(rec.state) /\ op.verdict.conclusion \in Conclusions
      /\ UNCHANGED <<rec, proc, exited>>
  BY ContractStates DEF IInv, TypeOK, AwaitInv, ReportCheck, At, Verdicts, durable, sandbox
<1>2. /\ op.verdict.conclusion = "success" => exited[rec.sandboxId] = "pass"
      /\ op.verdict.conclusion = "failure" => exited[rec.sandboxId] = "block"
  BY DEF CheckInv, CheckAwait, ReportCheck, At
<1>3. rec.checkRunId # None =>
        rec.checkRunId \in CheckRuns /\ checks'[rec.checkRunId] = op.verdict.conclusion
  BY <1>1 DEF ReportCheck, IInv, TypeOK, Record
<1>4. op'.step = "idle" \/ (op'.step = "conclude" /\ op'.verdict = op.verdict)
  BY GotoType, EndStep DEF IInv, TypeOK, ReportCheck, Rearm, Steps
<1>5. CheckRecord' /\ ConclusionHasEvidence'
  BY <1>1, <1>2, <1>3 DEF CheckInv, CheckRecord, ConclusionHasEvidence, Conclusions
<1>6. CheckAwait' /\ CheckAgrees'
  BY <1>1, <1>2, <1>3, <1>4 DEF CheckAwait, CheckAgrees, Terminal
<1> QED
  BY <1>5, <1>6 DEF CheckInv

USE DEF CheckInv, CheckRecord, CheckAwait, CheckAgrees, ConclusionHasEvidence, Terminal

LEMMA ClaimFreshCheck == ASSUME IInv, CheckInv, ClaimFresh PROVE CheckInv'
BY ContractStates, NoneAssumption DEF ClaimFresh, Goto, NewRecord, queuedRecord, At, IInv,
   AwaitInv

LEMMA NotClaimedCheck == ASSUME IInv, CheckInv, NotClaimed PROVE CheckInv'
BY DEF NotClaimed, Ended, Finish, sandbox

LEMMA ReadPolicyCheck == ASSUME IInv, CheckInv, ReadPolicy PROVE CheckInv'
BY DEF ReadPolicy, Goto, At, IInv, AwaitInv, StartSteps

LEMMA SaveCheckRunIdCheck == ASSUME IInv, CheckInv, SaveCheckRunId PROVE CheckInv'
BY ContractStates DEF SaveCheckRunId, sandbox, At, IInv, AwaitInv, StartSteps

LEMMA RejectPolicyCheck == ASSUME IInv, CheckInv, RejectPolicy PROVE CheckInv'
BY DEF RejectPolicy, Ended, Finish, durable, sandbox

LEMMA AllocateSandboxCheck == ASSUME IInv, CheckInv, AllocateSandbox PROVE CheckInv'
BY DEF AllocateSandbox, Goto, At, IInv, TypeOK, AwaitInv, Record, StartSteps

LEMMA RecoverProcessCheck == ASSUME IInv, CheckInv, RecoverProcess PROVE CheckInv'
BY DEF RecoverProcess, Goto, sandbox, At, IInv, AwaitInv, StartSteps

LEMMA SaveDeadlineCheck == ASSUME IInv, CheckInv, SaveDeadline PROVE CheckInv'
BY DEF SaveDeadline, Goto, sandbox, At, IInv, AwaitInv, StartSteps

LEMMA TransitionRunningCheck == ASSUME IInv, CheckInv, TransitionRunning PROVE CheckInv'
BY ContractStates DEF TransitionRunning, Goto, sandbox, At, IInv, AwaitInv, StartSteps

LEMMA SetAlarmCheck == ASSUME IInv, CheckInv, SetAlarm PROVE CheckInv'
BY DEF SetAlarm, Ended, Finish, durable, sandbox

LEMMA StartThrowsCheck == ASSUME IInv, CheckInv, StartThrows PROVE CheckInv'
BY DEF StartThrows, Ended, Finish, durable

LEMMA CreateQueuedCheck == ASSUME IInv, CheckInv, CreateQueued PROVE CheckInv'
BY ContractStates, NoneAssumption DEF CreateQueued, Goto, NewRecord, queuedRecord, At, IInv,
   AwaitInv

LEMMA TransitionProvisioningCheck == ASSUME IInv, CheckInv, TransitionProvisioning PROVE CheckInv'
BY ContractStates DEF TransitionProvisioning, Goto, sandbox, At, IInv, AwaitInv

LEMMA TombstoneCheck == ASSUME IInv, CheckInv, Tombstone PROVE CheckInv'
BY ContractStates DEF Tombstone, Goto, NewRecord, Conclusions

LEMMA MarkTerminalCheck == ASSUME IInv, CheckInv, MarkTerminal PROVE CheckInv'
BY DEF MarkTerminal, AfterCleanup, Goto, SettleFrom, TargetState, sandbox, At, IInv,
   AwaitInv, Live, Conclusions

LEMMA MarkThrowsCheck == ASSUME IInv, CheckInv, MarkThrows PROVE CheckInv'
BY DEF MarkThrows, Ended, Finish, durable, sandbox

LEMMA PollThrowsCheck == ASSUME IInv, CheckInv, PollThrows PROVE CheckInv'
BY DEF PollThrows, Ended, Fault, Finish, Rearm, durable, sandbox

LEMMA PollHealthyCheck == ASSUME IInv, CheckInv, PollHealthy PROVE CheckInv'
BY DEF PollHealthy, Ended, Finish, Rearm, durable, sandbox

LEMMA PollEndedCheck == ASSUME IInv, CheckInv, PollEnded PROVE CheckInv'
BY ContractStates DEF PollEnded, alarms, sandbox, At, IInv, AwaitInv, TypeOK, Record, Live

LEMMA ReportThrowsCheck == ASSUME IInv, CheckInv, ReportThrows PROVE CheckInv'
BY DEF ReportThrows, Ended, Fault, Finish, Rearm, durable, sandbox

LEMMA ConcludeCheck == ASSUME IInv, CheckInv, Conclude PROVE CheckInv'
BY ContractStates DEF Conclude, Goto, alarms, sandbox, At, IInv, AwaitInv

LEMMA CloseCheck == ASSUME IInv, CheckInv, Close PROVE CheckInv'
BY ContractStates DEF Close, AfterCleanup, SettleFrom, alarms, sandbox, At, IInv, AwaitInv,
   Conclusions, Verdicts

LEMMA DiagnoseCheck == ASSUME IInv, CheckInv, Diagnose PROVE CheckInv'
BY DEF Diagnose, Fault, Forced, Goto, PersistDiagnostics, Settling, alarms, At, IInv,
   AwaitInv, TypeOK, Record

LEMMA DestroySandboxCheck == ASSUME IInv, CheckInv, DestroySandbox PROVE CheckInv'
BY DEF DestroySandbox, Goto, Settling, alarms, durable

LEMMA SaveDestroyedCheck == ASSUME IInv, CheckInv, SaveDestroyed PROVE CheckInv'
BY DEF SaveDestroyed, AfterCleanup, Goto, Settling, alarms, sandbox, At, IInv, AwaitInv

LEMMA DestroyFailsCheck == ASSUME IInv, CheckInv, DestroyFails PROVE CheckInv'
BY DEF DestroyFails, Fault, Goto, Settling, alarms, durable, sandbox

LEMMA SaveUndestroyedCheck == ASSUME IInv, CheckInv, SaveUndestroyed PROVE CheckInv'
BY DEF SaveUndestroyed, Goto, Settling, alarms, sandbox, At, IInv, AwaitInv

LEMMA RearmCleanupCheck == ASSUME IInv, CheckInv, RearmCleanup PROVE CheckInv'
BY DEF RearmCleanup, AfterCleanup, Goto, Settling, durable, sandbox, At, IInv, AwaitInv

LEMMA UpdateNeutralCheck == ASSUME IInv, CheckInv, UpdateNeutral PROVE CheckInv'
BY DEF UpdateNeutral, Goto, Settling, alarms, durable, sandbox, At, IInv, AwaitInv, TypeOK,
   Record

LEMMA SaveNeutralCheck == ASSUME IInv, CheckInv, SaveNeutral PROVE CheckInv'
BY ContractStates DEF SaveNeutral, Goto, Settling, alarms, sandbox, At, IInv, AwaitInv,
   Conclusions

LEMMA UpdateNeutralFailsCheck == ASSUME IInv, CheckInv, UpdateNeutralFails PROVE CheckInv'
BY DEF UpdateNeutralFails, Fault, Goto, Settling, alarms, durable, sandbox, At, IInv,
   AwaitInv, TypeOK, Record

LEMMA SaveOwedCheck == ASSUME IInv, CheckInv, SaveOwed PROVE CheckInv'
BY ContractStates DEF SaveOwed, Goto, Settling, alarms, sandbox, At, IInv, AwaitInv,
   Conclusions

LEMMA RearmCheckCheck == ASSUME IInv, CheckInv, RearmCheck PROVE CheckInv'
BY DEF RearmCheck, Goto, Settling, durable, sandbox, At, IInv, AwaitInv

LEMMA SettledCheck == ASSUME IInv, CheckInv, Settled PROVE CheckInv'
BY DEF Settled, Ended, Finish, Settling, durable, sandbox

LEMMA AlarmFiresCheck == ASSUME IInv, CheckInv, AlarmFires PROVE CheckInv'
BY DEF AlarmFires, durable, sandbox, Pending

LEMMA EvictCheck == ASSUME IInv, CheckInv, Evict PROVE CheckInv'
BY DEF Evict, Ended, Fault, durable, sandbox

LEMMA ReviewExitsCheck == ASSUME IInv, CheckInv, ReviewExits PROVE CheckInv'
BY ContractStates, NoneIsNoRecord DEF ReviewExits, alarms, durable, At, IInv, AwaitInv,
   TypeOK, Record, Live, Pending, Operation

LEMMA ContainerLostCheck == ASSUME IInv, CheckInv, ContainerLost PROVE CheckInv'
BY DEF ContainerLost, Fault, alarms, durable, Pending

LEMMA DeadlinePassesCheck == ASSUME IInv, CheckInv, DeadlinePasses PROVE CheckInv'
BY DEF DeadlinePasses, alarms, durable, sandbox, Pending

LEMMA supersedeCheck == ASSUME IInv, CheckInv, supersede PROVE CheckInv'
BY DEF supersede, alarms, durable, sandbox, serial

LEMMA BeginAlarmCheck == ASSUME IInv, CheckInv, BeginAlarm PROVE CheckInv'
BY DEF BeginAlarm, AfterCleanup, DeadlineReached, SettleFrom, alarms, durable, sandbox,
   serial

LEMMA startCheck == ASSUME IInv, CheckInv, NEW m \in Messages, start(m) PROVE CheckInv'
BY DEF start, AfterCleanup, SettleFrom, alarms, durable, sandbox, serial

LEMMA failStartCheck == ASSUME IInv, CheckInv, NEW m \in Messages, failStart(m) PROVE CheckInv'
BY DEF failStart, OwnDelivery, alarms, durable, sandbox, serial

HIDE DEF CheckInv, CheckRecord, CheckAwait, CheckAgrees, ConclusionHasEvidence, Terminal

LEMMA NextCheck == ASSUME IInv, CheckInv, [Next]_vars PROVE CheckInv'
<1>1. CASE UNCHANGED vars
  BY <1>1 DEF vars, CheckInv, CheckRecord, CheckAwait, CheckAgrees, ConclusionHasEvidence,
     Terminal, Pending
<1>2. ASSUME NEW m \in Messages, start(m) \/ failStart(m) PROVE CheckInv'
  BY <1>2, startCheck, failStartCheck
<1>3. CASE StartStep
  BY <1>3, ClaimFreshCheck, ClaimResumedCheck, NotClaimedCheck, ReadPolicyCheck,
     CreateCheckRunCheck, SaveCheckRunIdCheck, RejectPolicyCheck, AllocateSandboxCheck,
     RecoverProcessCheck, StartProcessCheck, SaveDeadlineCheck, TransitionRunningCheck,
     SetAlarmCheck, StartThrowsCheck, StartSettledCheck DEF StartStep
<1>4. CASE StopStep
  BY <1>4, CreateQueuedCheck, TransitionProvisioningCheck, TombstoneCheck,
     FlagObligationsCheck, MarkTerminalCheck, MarkThrowsCheck DEF StopStep
<1>5. CASE PublishStep
  BY <1>5, PollThrowsCheck, PollHealthyCheck, PollEndedCheck, CollectCheck, ReportCheckCheck,
     ReportThrowsCheck, ConcludeCheck, CloseCheck DEF PublishStep
<1>6. CASE SettleStep
  BY <1>6, DiagnoseCheck, DestroySandboxCheck, SaveDestroyedCheck, DestroyFailsCheck,
     SaveUndestroyedCheck, RearmCleanupCheck, UpdateNeutralCheck, SaveNeutralCheck,
     UpdateNeutralFailsCheck, SaveOwedCheck, RearmCheckCheck, SettledCheck DEF SettleStep
<1>7. CASE Environment
  BY <1>7, AlarmFiresCheck, EvictCheck, ReviewExitsCheck, ContainerLostCheck,
     DeadlinePassesCheck DEF Environment
<1>8. CASE supersede \/ BeginAlarm
  BY <1>8, supersedeCheck, BeginAlarmCheck
<1> QED
  BY <1>1, <1>2, <1>3, <1>4, <1>5, <1>6, <1>7, <1>8 DEF Next, OpStep

THEOREM CheckInvariance == Spec => [](IInv /\ CheckInv)
<1>1. IInv /\ CheckInv /\ [Next]_vars => CheckInv'
  BY NextCheck
<1> QED
  BY <1>1, InitCheck, Invariance, PTL DEF Spec

(* A check run says success or failure only if the review process of this very        *)
(* execution ended so, whatever was evicted, retried or lost before.               *)
THEOREM EvidenceOfConclusion == Spec => []ConclusionHasEvidence
<1>1. CheckInv => ConclusionHasEvidence
  BY DEF CheckInv
<1> QED
  BY <1>1, CheckInvariance, PTL

(* Once nothing is owed, GitHub and the record agree on the conclusion.                *)
THEOREM CheckAgreement == Spec => []SettledCheckAgrees
<1>1. CheckInv => SettledCheckAgrees
  BY DEF CheckInv, CheckAgrees, SettledCheckAgrees
<1> QED
  BY <1>1, CheckInvariance, PTL

(* Only the claim of a fresh execution gives up the check run or the sandbox that the   *)
(* record names.                                                              *)
Keeps(r, s) == /\ r.checkRunId # None => s.checkRunId = r.checkRunId
               /\ r.sandboxId # None => s.sandboxId = r.sandboxId

LEMMA StepKeeps == ASSUME IInv, CheckInv, [Next]_vars, rec # None PROVE ClaimFresh \/ Keeps(rec, rec')
<1>1. rec \in Record
  BY DEF IInv, TypeOK
<1>2. CASE UNCHANGED rec
  BY <1>2 DEF Keeps
<1>3. ASSUME NEW m \in Messages, start(m) \/ failStart(m) PROVE UNCHANGED rec
  BY <1>3 DEF start, failStart, durable
<1>4. CASE supersede \/ BeginAlarm
  BY <1>2, <1>4 DEF supersede, BeginAlarm, durable
<1>5. CASE StartStep
  <2>1. CASE ClaimResumed \/ ReadPolicy \/ RecoverProcess \/ SaveDeadline \/ TransitionRunning
    BY <1>1, <2>1 DEF ClaimResumed, ReadPolicy, RecoverProcess, SaveDeadline, TransitionRunning,
       Keeps, Record
  <2>2. CASE SaveCheckRunId
    <3>1. rec.checkRunId = None
      BY <2>2 DEF CheckInv, CheckAwait, SaveCheckRunId, At
    <3> QED
      BY <1>1, <2>2, <3>1 DEF SaveCheckRunId, Keeps, Record
  <2>3. CASE AllocateSandbox
    BY <1>1, <2>3 DEF AllocateSandbox, Keeps, Record
  <2>4. CASE NotClaimed \/ CreateCheckRun \/ RejectPolicy \/ StartProcess \/ SetAlarm
             \/ StartThrows \/ StartSettled
    BY <1>2, <2>4 DEF NotClaimed, CreateCheckRun, RejectPolicy, StartProcess, SetAlarm,
       StartThrows, StartSettled, durable
  <2> QED
    BY <1>5, <2>1, <2>2, <2>3, <2>4 DEF StartStep
<1>6. CASE StopStep
  <2>1. ~CreateQueued /\ ~Tombstone
    BY DEF IInv, AwaitInv, CreateQueued, Tombstone, At
  <2>2. CASE TransitionProvisioning \/ FlagObligations \/ MarkTerminal
    BY <1>1, <2>2 DEF TransitionProvisioning, FlagObligations, MarkTerminal, Keeps, Record
  <2>3. CASE MarkThrows
    BY <1>2, <2>3 DEF MarkThrows, durable
  <2> QED
    BY <1>6, <2>1, <2>2, <2>3 DEF StopStep
<1>7. CASE PublishStep
  <2>1. CASE PollEnded \/ Collect \/ Conclude \/ Close
    BY <1>1, <2>1 DEF PollEnded, Collect, PersistDiagnostics, Conclude, Close, Keeps, Record
  <2>2. CASE PollThrows \/ PollHealthy \/ ReportCheck \/ ReportThrows
    BY <1>2, <2>2 DEF PollThrows, PollHealthy, ReportCheck, ReportThrows, durable
  <2> QED
    BY <1>7, <2>1, <2>2 DEF PublishStep
<1>8. CASE SettleStep
  <2>1. CASE Diagnose \/ SaveDestroyed \/ SaveUndestroyed \/ SaveNeutral \/ SaveOwed
    BY <1>1, <2>1 DEF Diagnose, PersistDiagnostics, SaveDestroyed, SaveUndestroyed, SaveNeutral,
       SaveOwed, Keeps, Record
  <2>2. CASE \/ DestroySandbox \/ DestroyFails \/ RearmCleanup
             \/ UpdateNeutral \/ UpdateNeutralFails \/ RearmCheck \/ Settled
    BY <1>2, <2>2 DEF DestroySandbox, DestroyFails, RearmCleanup, UpdateNeutral,
       UpdateNeutralFails, RearmCheck, Settled, durable
  <2> QED
    BY <1>8, <2>1, <2>2 DEF SettleStep
<1>9. CASE Environment
  BY <1>2, <1>9 DEF Environment, AlarmFires, Evict, ReviewExits, ContainerLost, DeadlinePasses,
     durable
<1>10. CASE UNCHANGED vars
  BY <1>2, <1>10 DEF vars
<1> QED
  BY <1>2, <1>3, <1>4, <1>5, <1>6, <1>7, <1>8, <1>9, <1>10 DEF Next, OpStep

(* What a rerun gives up is settled: the check is completed with the conclusion of the  *)
(* record, and the sandbox holds nothing.                                       *)
LEMMA ReplacedIsSettled ==
  ASSUME IInv, CheckInv, ClaimFresh, rec # None
  PROVE  /\ rec.checkRunId # None => checks[rec.checkRunId] # "in_progress"
         /\ rec.sandboxId # None => box[rec.sandboxId] # "up"
<1>1. Terminal /\ ~rec.cleanupPending /\ ~rec.checkUpdatePending /\ rec \in Record
  BY DEF ClaimFresh, Fresh, At, CheckInv, CheckAwait, Pending, IInv, TypeOK
<1>2. rec.checkRunId # None => checks[rec.checkRunId] \in Conclusions
  BY <1>1 DEF CheckInv, CheckAgrees, CheckRecord, Terminal
<1>3. rec.sandboxId # None => box[rec.sandboxId] # "up"
  BY <1>1 DEF IInv, NoSandboxLeak, Terminal, Record
<1> QED
  BY <1>2, <1>3 DEF Conclusions

(* A rerun never abandons what the execution before it still owes.                    *)
THEOREM NothingAbandoned == Spec => ReplacesSettled
<1> DEFINE Replaces ==
      rec # None /\ rec' # rec =>
        /\ rec.checkRunId # None /\ rec'.checkRunId # rec.checkRunId
             => checks[rec.checkRunId] # "in_progress"
        /\ rec.sandboxId # None /\ rec'.sandboxId # rec.sandboxId
             => box[rec.sandboxId] # "up"
<1>1. IInv /\ CheckInv /\ [Next]_vars => [Replaces]_vars
  BY StepKeeps, ReplacedIsSettled DEF Keeps
<1> QED
  BY <1>1, CheckInvariance, PTL DEF Spec, ReplacesSettled

-----------------------------------------------------------------------------
(* The flags of the record: what a terminal job owes, and which conclusion it has.         *)

(* Between flagging what will be owed and the terminal state, and between the deadline     *)
(* and the running state, an eviction leaves what the next operation misreads.         *)
NoStaleFlags ==
  /\ \A k \in Kinds : <<k, "mark">> \notin CrashPoints
  /\ <<"start", "run">> \notin CrashPoints

FlagRecord ==
  rec # None =>
    /\ rec.state \in {"queued", "provisioning"} /\ rec.deadlineAt => op.step = "run"
    /\ ~isTerminalState(rec.state) /\ op.step # "mark" => ~rec.checkUpdatePending
    /\ isTerminalState(rec.state) =>
         /\ rec.state # "completed" => rec.conclusion = "neutral"
         /\ rec.checkUpdatePending => rec.state # "completed"

FlagAwait ==
  /\ op.step = "run" => op.kind = "start"
  /\ op.step \in {"flag", "mark"} => canTransition(rec.state, TargetState(op.kind))
  /\ op.step \in {"report", "conclude", "close"} /\ op.verdict.terminalState = "failed"
       => op.verdict.conclusion = "neutral"

FlagInv == FlagRecord /\ FlagAwait

LEMMA Targets ==
  /\ canTransition("provisioning", "failed")
  /\ \A s \in {"running", "publishing"} : canTransition(s, "timed_out")
  /\ \A s \in JobStates : ~isTerminalState(s) => canTransition(s, "superseded")
BY DEF canTransition, isTerminalState, TRANSITIONS, JobStates

(* A step that touches neither the flags nor the state, outside the awaits that read them.  *)
SameFlags(r, s) == r # None /\ s # None /\ s.state = r.state /\ s.deadlineAt = r.deadlineAt
                   /\ s.checkUpdatePending = r.checkUpdatePending /\ s.conclusion = r.conclusion

LEMMA FlagFrame ==
  ASSUME FlagInv, SameFlags(rec, rec'), op.step \notin {"run", "mark"},
         op'.step \notin {"run", "flag", "mark", "report", "conclude", "close"}
  PROVE  FlagInv'
BY DEF FlagInv, FlagRecord, FlagAwait, SameFlags

USE DEF FlagInv, FlagRecord, FlagAwait

LEMMA ClaimFreshFlag == ASSUME IInv, FlagInv, ClaimFresh PROVE FlagInv'
BY ContractStates DEF ClaimFresh, Goto, NewRecord, queuedRecord, At, IInv, AwaitInv

LEMMA NotClaimedFlag == ASSUME FlagInv, NotClaimed PROVE FlagInv'
BY DEF NotClaimed, Ended, Finish, At

LEMMA RejectPolicyFlag == ASSUME FlagInv, RejectPolicy PROVE FlagInv'
BY DEF RejectPolicy, Ended, Finish, durable, At

LEMMA RecoverProcessFlag == ASSUME IInv, FlagInv, RecoverProcess PROVE FlagInv'
BY DEF RecoverProcess, Goto, At, IInv, AwaitInv

LEMMA SaveDeadlineFlag == ASSUME IInv, FlagInv, SaveDeadline PROVE FlagInv'
BY DEF SaveDeadline, Goto, At, IInv, AwaitInv

LEMMA SetAlarmFlag == ASSUME FlagInv, SetAlarm PROVE FlagInv'
BY DEF SetAlarm, Ended, Finish, durable, At

LEMMA StartThrowsFlag == ASSUME FlagInv, StartThrows PROVE FlagInv'
BY DEF StartThrows, Ended, Finish, durable, At

LEMMA CreateQueuedFlag == ASSUME IInv, FlagInv, CreateQueued PROVE FlagInv'
BY ContractStates DEF CreateQueued, Goto, NewRecord, queuedRecord, At, IInv, AwaitInv

LEMMA TransitionProvisioningFlag == ASSUME IInv, FlagInv, TransitionProvisioning PROVE FlagInv'
BY ContractStates, Targets DEF TransitionProvisioning, Goto, At, IInv, TypeOK, Record,
   AwaitInv, Live, Terminal, EndSteps, TargetState

LEMMA TombstoneFlag == ASSUME FlagInv, Tombstone PROVE FlagInv'
BY DEF Tombstone, Goto, NewRecord

LEMMA FlagObligationsFlag == ASSUME IInv, FlagInv, FlagObligations PROVE FlagInv'
BY ContractStates, Targets DEF FlagObligations, Goto, At, IInv, TypeOK, Record, AwaitInv,
   Live, Terminal

LEMMA MarkThrowsFlag == ASSUME FlagInv, MarkThrows PROVE FlagInv'
BY DEF MarkThrows, Ended, Finish, durable, At

LEMMA PollThrowsFlag == ASSUME FlagInv, PollThrows PROVE FlagInv'
BY DEF PollThrows, Ended, Finish, Rearm, durable, At

LEMMA PollHealthyFlag == ASSUME FlagInv, PollHealthy PROVE FlagInv'
BY DEF PollHealthy, Ended, Finish, Rearm, durable, At

LEMMA PollEndedFlag == ASSUME IInv, FlagInv, PollEnded PROVE FlagInv'
BY ContractStates, Targets DEF PollEnded, At, IInv, TypeOK, Record, AwaitInv, Live, Terminal

LEMMA ReportThrowsFlag == ASSUME FlagInv, ReportThrows PROVE FlagInv'
BY DEF ReportThrows, Ended, Finish, Rearm, durable, At

LEMMA ConcludeFlag == ASSUME IInv, FlagInv, Conclude PROVE FlagInv'
BY ContractStates DEF Conclude, Goto, At, IInv, AwaitInv

LEMMA DiagnoseFlag == ASSUME IInv, FlagInv, Diagnose PROVE FlagInv'
BY ContractStates, Targets DEF Diagnose, Goto, PersistDiagnostics, Settling, At, IInv,
   TypeOK, Record, AwaitInv, Live, Terminal

LEMMA DestroySandboxFlag == ASSUME FlagInv, DestroySandbox PROVE FlagInv'
BY DEF DestroySandbox, Goto, Settling, durable, At

LEMMA SaveDestroyedFlag == ASSUME IInv, FlagInv, SaveDestroyed PROVE FlagInv'
BY ContractStates, Targets DEF SaveDestroyed, AfterCleanup, Goto, Settling, At, IInv,
   TypeOK, Record, AwaitInv, Live, Terminal

LEMMA DestroyFailsFlag == ASSUME FlagInv, DestroyFails PROVE FlagInv'
BY DEF DestroyFails, Goto, Settling, durable, At

LEMMA SaveUndestroyedFlag == ASSUME IInv, FlagInv, SaveUndestroyed PROVE FlagInv'
BY ContractStates, Targets DEF SaveUndestroyed, Goto, Settling, At, IInv, TypeOK,
   Record, AwaitInv, Live, Terminal

LEMMA RearmCleanupFlag == ASSUME FlagInv, RearmCleanup PROVE FlagInv'
BY DEF RearmCleanup, AfterCleanup, Goto, Settling, durable, At

LEMMA UpdateNeutralFailsFlag == ASSUME FlagInv, UpdateNeutralFails PROVE FlagInv'
BY DEF UpdateNeutralFails, Goto, Settling, durable, At

LEMMA RearmCheckFlag == ASSUME FlagInv, RearmCheck PROVE FlagInv'
BY DEF RearmCheck, Goto, Settling, durable, At

LEMMA UpdateNeutralFlag == ASSUME FlagInv, UpdateNeutral PROVE FlagInv'
BY DEF UpdateNeutral, Goto, Settling, durable, At

LEMMA SaveNeutralFlag == ASSUME IInv, FlagInv, SaveNeutral PROVE FlagInv'
BY ContractStates, Targets DEF SaveNeutral, Goto, Settling, At, IInv, TypeOK, Record,
   AwaitInv, Live, Terminal

LEMMA SettledFlag == ASSUME FlagInv, Settled PROVE FlagInv'
BY DEF Settled, Ended, Finish, Settling, durable, At

LEMMA AlarmFiresFlag == ASSUME FlagInv, AlarmFires PROVE FlagInv'
BY DEF AlarmFires, durable

LEMMA ReviewExitsFlag == ASSUME FlagInv, ReviewExits PROVE FlagInv'
BY DEF ReviewExits, durable

LEMMA ContainerLostFlag == ASSUME FlagInv, ContainerLost PROVE FlagInv'
BY DEF ContainerLost, durable

LEMMA DeadlinePassesFlag == ASSUME FlagInv, DeadlinePasses PROVE FlagInv'
BY DEF DeadlinePasses, durable

LEMMA supersedeFlag == ASSUME IInv, FlagInv, supersede PROVE FlagInv'
BY ContractStates, Targets DEF supersede, durable, serial, At, IInv, TypeOK, Record,
   AwaitInv, Live, Terminal, EndSteps, TargetState

LEMMA BeginAlarmFlag == ASSUME IInv, FlagInv, BeginAlarm PROVE FlagInv'
BY ContractStates, Targets DEF BeginAlarm, AfterCleanup, DeadlineReached, SettleFrom,
   durable, serial, At, IInv, TypeOK, Record, AwaitInv, Live, Terminal, EndSteps,
   TargetState

LEMMA startFlag == ASSUME FlagInv, NEW m \in Messages, start(m) PROVE FlagInv'
BY ContractStates, Targets DEF start, AfterCleanup, SettleFrom, durable, serial, At,
   Terminal, Live, EndSteps

LEMMA failStartFlag == ASSUME IInv, FlagInv, NEW m \in Messages, failStart(m) PROVE FlagInv'
BY ContractStates, Targets DEF failStart, OwnDelivery, durable, serial, At, IInv, TypeOK,
   Record, AwaitInv, Live, Terminal, EndSteps, TargetState

HIDE DEF FlagInv, FlagRecord, FlagAwait

LEMMA ClaimResumedFlag == ASSUME IInv, FlagInv, ClaimResumed PROVE FlagInv'
<1>1. op \in Operation /\ op.step = "claim" /\ rec \in Record /\ rec # None
      /\ rec.state \in {"queued", "provisioning"}
  BY DEF IInv, TypeOK, ClaimResumed, Resumed, OwnDelivery, At
<1>2. /\ rec'.state = "provisioning" /\ rec'.deadlineAt = rec.deadlineAt
      /\ rec'.checkUpdatePending = rec.checkUpdatePending
  BY <1>1 DEF ClaimResumed, Record
<1>3. op'.step = "policy"
  BY <1>1, GotoType DEF ClaimResumed, Steps
<1>4. ~isTerminalState("provisioning") /\ ~isTerminalState(rec.state)
  BY <1>1, ContractStates
<1> QED
  BY <1>1, <1>2, <1>3, <1>4 DEF FlagInv, FlagRecord, FlagAwait

LEMMA PreparingFlag ==
  ASSUME IInv, FlagInv,
         ReadPolicy \/ CreateCheckRun \/ SaveCheckRunId \/ AllocateSandbox \/ StartProcess
  PROVE  FlagInv'
<1>1. rec \in Record /\ rec # None /\ op \in Operation
      /\ op.step \in {"policy", "createCheck", "saveCheck", "allocate", "launch"}
  BY DEF IInv, TypeOK, AwaitInv, StartSteps, At, ReadPolicy, CreateCheckRun, SaveCheckRunId,
     AllocateSandbox, StartProcess
<1>2. SameFlags(rec, rec')
  <2>1. CASE ReadPolicy
    <3>1. PICK p \in Policies : rec' = IF rec.policy = "unread" THEN [rec EXCEPT !.policy = p] ELSE rec
      BY <2>1 DEF ReadPolicy
    <3>2. [rec EXCEPT !.policy = p] \in Record
      BY <1>1 DEF Record
    <3> QED
      BY <1>1, <3>1, <3>2, NoneIsNoRecord DEF SameFlags, Record
  <2>2. CASE SaveCheckRunId
    <3>1. [rec EXCEPT !.checkRunId = op.check] \in Record
      BY <1>1 DEF Record, Operation
    <3> QED
      BY <1>1, <2>2, <3>1, NoneIsNoRecord DEF SaveCheckRunId, SameFlags, Record
  <2>3. CASE AllocateSandbox
    <3>1. \A s \in Sandboxes : [rec EXCEPT !.sandboxId = s] \in Record
      BY <1>1 DEF Record
    <3> QED
      BY <1>1, <2>3, <3>1, NoneIsNoRecord DEF AllocateSandbox, SameFlags, Record
  <2>4. CASE CreateCheckRun \/ StartProcess
    BY <1>1, <2>4 DEF CreateCheckRun, StartProcess, durable, SameFlags
  <2> QED
    BY <2>1, <2>2, <2>3, <2>4
<1>3. op'.step \in {"createCheck", "saveCheck", "allocate", "process", "record", "threw"}
  <2>1. CASE ReadPolicy
    BY <1>1, <2>1, GotoType DEF ReadPolicy, Steps
  <2>2. CASE CreateCheckRun
    BY <1>1, <2>2, EndStep DEF CreateCheckRun, Operation
  <2>3. CASE SaveCheckRunId
    BY <1>1, <2>3 DEF SaveCheckRunId, Operation
  <2>4. CASE AllocateSandbox \/ StartProcess
    BY <1>1, <2>4, GotoType, EndStep DEF AllocateSandbox, StartProcess, Steps
  <2> QED
    BY <2>1, <2>2, <2>3, <2>4
<1> QED
  BY <1>1, <1>2, <1>3, FlagFrame

LEMMA TransitionRunningFlag == ASSUME IInv, FlagInv, TransitionRunning PROVE FlagInv'
<1>1. rec \in Record /\ rec # None /\ rec.state = "provisioning" /\ op.step = "run"
  BY DEF IInv, TypeOK, AwaitInv, StartSteps, TransitionRunning, At
<1>2. rec'.state = "running" /\ rec'.checkUpdatePending = rec.checkUpdatePending
  BY <1>1 DEF TransitionRunning, Record
<1>3. op'.step = "schedule"
  BY GotoType DEF IInv, TypeOK, TransitionRunning, Steps
<1>4. ~isTerminalState("provisioning") /\ ~isTerminalState("running")
  BY ContractStates
<1> QED
  BY <1>1, <1>2, <1>3, <1>4 DEF FlagInv, FlagRecord, FlagAwait

LEMMA StartSettledFlag == ASSUME IInv, FlagInv, StartSettled PROVE FlagInv'
<1>1. op.step = "settled" /\ rec # None
  BY DEF IInv, AwaitInv, StartSettled, At, Terminal
<1>2. op'.step \in {"claim", "threw"}
  BY GotoType, EndStep DEF IInv, TypeOK, StartSettled, Steps
<1> QED
  BY <1>1, <1>2, FlagFrame DEF SameFlags, StartSettled, durable

(* What the contract makes of an outcome fails only as neutral.                        *)
LEMMA CollectFlag == ASSUME IInv, FlagInv, Collect PROVE FlagInv'
<1>1. rec \in Record /\ rec # None /\ op \in Operation /\ op.step = "collect"
  BY DEF IInv, TypeOK, AwaitInv, Collect, At
<1>2. rec' \in {rec, [rec EXCEPT !.diagnosticsFinalized = TRUE]}
  BY DEF Collect, PersistDiagnostics
<1>3. /\ rec'.state = rec.state /\ rec'.deadlineAt = rec.deadlineAt
      /\ rec'.checkUpdatePending = rec.checkUpdatePending /\ rec'.conclusion = rec.conclusion
  BY <1>1, <1>2 DEF Record
<1>4. PICK o \in {exited[rec.sandboxId], "broken"} :
        op' = [op EXCEPT !.step = "report", !.verdict = checkConclusionForResult(o, rec.policy)]
  BY DEF Collect
<1>5. op'.step = "report" /\ op'.verdict = checkConclusionForResult(o, rec.policy)
  BY <1>1, <1>4 DEF Operation
<1>6. op'.verdict.terminalState = "failed" => op'.verdict.conclusion = "neutral"
  BY <1>5 DEF checkConclusionForResult
<1> QED
  BY <1>1, <1>3, <1>5, <1>6 DEF FlagInv, FlagRecord, FlagAwait

LEMMA ReportCheckFlag == ASSUME IInv, FlagInv, ReportCheck PROVE FlagInv'
<1>1. rec # None /\ op.step = "report" /\ rec' = rec
  BY DEF IInv, AwaitInv, ReportCheck, At, durable
<1>2. op'.step = "idle" \/ (op'.step = "conclude" /\ op'.verdict = op.verdict)
  BY GotoType, EndStep DEF IInv, TypeOK, ReportCheck, Rearm, Steps
<1> QED
  BY <1>1, <1>2 DEF FlagInv, FlagRecord, FlagAwait

LEMMA EvictFlag == ASSUME NoStaleFlags, IInv, FlagInv, Evict PROVE FlagInv'
<1>1. op.step \notin {"mark", "run"}
  BY DEF Evict, NoStaleFlags, FlagInv, FlagAwait, IInv, TypeOK, Operation
<1>2. op'.step = "evicted" /\ rec' = rec
  BY DEF Evict, Ended, durable
<1> QED
  BY <1>1, <1>2 DEF FlagInv, FlagRecord, FlagAwait

LEMMA MarkTerminalFlag == ASSUME IInv, CheckInv, FlagInv, MarkTerminal PROVE FlagInv'
<1>1. op \in Operation /\ rec \in Record /\ rec # None /\ rec.conclusion = "neutral"
  BY DEF IInv, TypeOK, AwaitInv, Live, CheckInv, CheckAwait, MarkTerminal, At
<1>2. TargetState(op.kind) \in {"failed", "superseded", "timed_out"}
  BY DEF TargetState
<1>3. rec'.state = TargetState(op.kind) /\ rec'.conclusion = "neutral"
  BY <1>1 DEF MarkTerminal, Record
<1>4. isTerminalState(rec'.state)
  BY <1>2, <1>3, ContractStates
<1>5. op'.step \in {"diagnose", "neutral", "settled"}
  BY <1>1, GotoType DEF MarkTerminal, SettleFrom, AfterCleanup, Steps
<1> QED
  BY <1>2, <1>3, <1>4, <1>5, ContractStates DEF FlagInv, FlagRecord, FlagAwait

LEMMA CloseFlag == ASSUME IInv, CheckInv, FlagInv, Close PROVE FlagInv'
<1>1. /\ op \in Operation /\ rec \in Record /\ rec # None /\ rec.state = "publishing"
      /\ op.step = "close" /\ op.verdict.terminalState \in {"completed", "failed"}
      /\ rec.conclusion = op.verdict.conclusion
  BY DEF IInv, TypeOK, AwaitInv, CheckInv, CheckAwait, Close, At, Verdicts
<1>2. /\ rec'.state = op.verdict.terminalState /\ rec'.conclusion = op.verdict.conclusion
      /\ rec'.checkUpdatePending = rec.checkUpdatePending
  BY <1>1 DEF Close, Record
<1>3. ~rec.checkUpdatePending
  BY <1>1, ContractStates DEF FlagInv, FlagRecord
<1>4. isTerminalState(rec'.state)
  BY <1>1, <1>2, ContractStates
<1>5. op'.step \in {"diagnose", "neutral", "settled"}
  BY <1>1 DEF Close, SettleFrom, AfterCleanup, Operation
<1> QED
  BY <1>1, <1>2, <1>3, <1>4, <1>5, ContractStates DEF FlagInv, FlagRecord, FlagAwait

LEMMA SaveOwedFlag == ASSUME IInv, CheckInv, FlagInv, SaveOwed PROVE FlagInv'
<1>1. rec \in Record /\ rec # None /\ isTerminalState(rec.state) /\ rec.checkUpdatePending
  BY DEF IInv, TypeOK, AwaitInv, Terminal, CheckInv, CheckAwait, SaveOwed, At
<1>2. rec'.state = rec.state /\ rec'.conclusion = "neutral"
  BY <1>1 DEF SaveOwed, Record
<1>3. op'.step = "rearmCheck"
  BY GotoType DEF IInv, TypeOK, SaveOwed, Steps
<1> QED
  BY <1>1, <1>2, <1>3, ContractStates DEF FlagInv, FlagRecord, FlagAwait

LEMMA NextFlags == ASSUME NoStaleFlags, IInv, CheckInv, FlagInv, [Next]_vars PROVE FlagInv'
<1>1. CASE UNCHANGED vars
  BY <1>1 DEF vars, FlagInv, FlagRecord, FlagAwait
<1>2. ASSUME NEW m \in Messages, start(m) \/ failStart(m) PROVE FlagInv'
  BY <1>2, startFlag, failStartFlag
<1>3. CASE StartStep
  BY <1>3, ClaimFreshFlag, ClaimResumedFlag, NotClaimedFlag, PreparingFlag, RejectPolicyFlag,
     RecoverProcessFlag, SaveDeadlineFlag, TransitionRunningFlag, SetAlarmFlag,
     StartThrowsFlag, StartSettledFlag DEF StartStep
<1>4. CASE StopStep
  BY <1>4, CreateQueuedFlag, TransitionProvisioningFlag, TombstoneFlag, FlagObligationsFlag,
     MarkTerminalFlag, MarkThrowsFlag DEF StopStep
<1>5. CASE PublishStep
  BY <1>5, PollThrowsFlag, PollHealthyFlag, PollEndedFlag, CollectFlag, ReportCheckFlag,
     ReportThrowsFlag, ConcludeFlag, CloseFlag DEF PublishStep
<1>6. CASE SettleStep
  BY <1>6, DiagnoseFlag, DestroySandboxFlag, SaveDestroyedFlag, DestroyFailsFlag,
     SaveUndestroyedFlag, RearmCleanupFlag, UpdateNeutralFlag, SaveNeutralFlag,
     UpdateNeutralFailsFlag, SaveOwedFlag, RearmCheckFlag, SettledFlag DEF SettleStep
<1>7. CASE Environment
  BY <1>7, AlarmFiresFlag, EvictFlag, ReviewExitsFlag, ContainerLostFlag, DeadlinePassesFlag
  DEF Environment
<1>8. CASE supersede \/ BeginAlarm
  BY <1>8, supersedeFlag, BeginAlarmFlag
<1> QED
  BY <1>1, <1>2, <1>3, <1>4, <1>5, <1>6, <1>7, <1>8 DEF Next, OpStep

-----------------------------------------------------------------------------
(* The refinement: how a step of the record looks to a reader of its status.           *)

Stays(r, s) == s.state = r.state /\ s.reviewCompleted = r.reviewCompleted

LEMMA SameContract ==
  /\ Lifecycle!TRANSITIONS = TRANSITIONS /\ Lifecycle!JobStates = JobStates
  /\ Lifecycle!Conclusions = Conclusions
  /\ \A s : Lifecycle!isTerminalState(s) <=> isTerminalState(s)
BY DEF Lifecycle!TRANSITIONS, TRANSITIONS, Lifecycle!JobStates, JobStates,
   Lifecycle!isTerminalState, isTerminalState, Lifecycle!Conclusions, Conclusions

LEMMA StutterMove ==
  ASSUME rec \in Record, rec' \in Record, Stays(rec, rec'),
         isTerminalState(rec.state) =>
           /\ rec'.conclusion = rec.conclusion
           /\ rec'.cleanupPending = rec.cleanupPending
           /\ rec'.checkUpdatePending = rec.checkUpdatePending
  PROVE  UNCHANGED Lifecycle!view
BY NoneIsNoRecord DEF Lifecycle!view, Stays, Terminal

LEMMA AdvanceMove ==
  ASSUME rec \in Record, rec' \in Record,
         rec'.state \in TRANSITIONS[rec.state], rec'.reviewCompleted = rec.reviewCompleted,
         rec'.conclusion \in Conclusions \cup {None},
         isTerminalState(rec'.state) =>
           /\ rec'.conclusion \in Conclusions
           /\ rec'.state # "completed" => rec'.conclusion = "neutral"
  PROVE  Lifecycle!Next
<1>1. rec.state \in JobStates /\ ~isTerminalState(rec.state)
  BY DEF Record, isTerminalState
<1>2. Lifecycle!Advance
  BY <1>1, SameContract, NoneIsNoRecord DEF Lifecycle!Advance, Lifecycle!Obligations, Terminal
<1> QED
  BY <1>2 DEF Lifecycle!Next

LEMMA SettleMove ==
  ASSUME rec \in Record, rec' \in Record, Stays(rec, rec'),
         isTerminalState(rec.state), rec'.conclusion = rec.conclusion,
         rec'.cleanupPending => rec.cleanupPending,
         rec'.checkUpdatePending => rec.checkUpdatePending
  PROVE  Lifecycle!Next
<1>1. rec.state \in JobStates
  BY DEF Record
<1>2. Lifecycle!Settle
  BY <1>1, SameContract, NoneIsNoRecord DEF Lifecycle!Settle, Lifecycle!Ended, Terminal, Stays
<1> QED
  BY <1>2 DEF Lifecycle!Next

LEMMA CreateMove ==
  ASSUME rec = None, rec' \in Record, ~rec'.reviewCompleted,
         \/ rec'.state \in {"queued", "provisioning"}
         \/ /\ rec'.state = "superseded" /\ rec'.conclusion = "neutral"
            /\ ~rec'.cleanupPending /\ ~rec'.checkUpdatePending
  PROVE  Lifecycle!Next
<1>1. Lifecycle!Create
  BY ContractStates, NoneIsNoRecord DEF Lifecycle!Create, Terminal
<1> QED
  BY <1>1 DEF Lifecycle!Next

LEMMA RerunMove ==
  ASSUME rec \in Record, rec' \in Record, isTerminalState(rec.state),
         ~rec.cleanupPending, ~rec.checkUpdatePending,
         rec'.state = "provisioning", rec'.reviewCompleted = rec.reviewCompleted
  PROVE  Lifecycle!Next
<1>1. rec.state \in JobStates /\ ~isTerminalState("provisioning")
  BY ContractStates DEF Record
<1>2. Lifecycle!Rerun
  BY <1>1, SameContract, NoneIsNoRecord DEF Lifecycle!Rerun, Lifecycle!Ended, Terminal
<1> QED
  BY <1>2 DEF Lifecycle!Next

LEMMA ReviewMove ==
  ASSUME rec \in Record, rec' \in Record,
         rec.state = "publishing", rec'.state = "publishing",
         rec.reviewCompleted => rec'.reviewCompleted
  PROVE  Lifecycle!Next \/ UNCHANGED Lifecycle!view
<1>1. ~isTerminalState("publishing")
  BY ContractStates
<1>2. CASE rec'.reviewCompleted = rec.reviewCompleted
  BY <1>1, <1>2, StutterMove DEF Stays
<1>3. CASE rec'.reviewCompleted
  <2>1. Lifecycle!RecordReview
    BY <1>1, <1>3, NoneIsNoRecord DEF Lifecycle!RecordReview, Terminal
  <2> QED
    BY <2>1 DEF Lifecycle!Next
<1>4. rec.reviewCompleted \in BOOLEAN /\ rec'.reviewCompleted \in BOOLEAN
  BY DEF Record
<1> QED
  BY <1>2, <1>3, <1>4

LEMMA NothingSeen == ASSUME UNCHANGED rec PROVE UNCHANGED Lifecycle!view
BY DEF Lifecycle!view, Terminal

LEMMA StartImplements ==
  ASSUME IInv, CheckInv, FlagInv, StartStep
  PROVE  Lifecycle!Next \/ UNCHANGED Lifecycle!view
<1>1. rec \in Record \cup {None} /\ op \in Operation
  BY DEF IInv, TypeOK
<1>2. CASE ClaimFresh
  <2>1. op.message \in Messages
    BY <1>2 DEF IInv, AwaitInv, ClaimFresh, At
  <2>2. (rec # None /\ rec.reviewCompleted) \in BOOLEAN
    OBVIOUS
  <2>3. rec' = NewRecord("provisioning", op.message, rec # None /\ rec.reviewCompleted)
    BY <1>2 DEF ClaimFresh, queuedRecord, NewRecord
  <2>4. rec' \in Record
    BY <2>1, <2>2, <2>3, NewRecordType, ContractStates
  <2>5. rec'.state = "provisioning" /\ rec'.reviewCompleted = (rec # None /\ rec.reviewCompleted)
    BY <2>3 DEF NewRecord
  <2>6. CASE rec = None
    BY <2>4, <2>5, <2>6, CreateMove
  <2>7. CASE rec # None
    <3>1. Terminal /\ ~Pending
      BY <1>2, <2>7 DEF ClaimFresh, Fresh, At, CheckInv, CheckAwait
    <3>2. rec \in Record /\ rec.reviewCompleted \in BOOLEAN
      BY <1>1, <2>7 DEF Record
    <3>3. rec'.reviewCompleted = rec.reviewCompleted
      BY <2>5, <2>7, <3>2, Zenon
    <3> QED
      BY <2>4, <2>5, <3>1, <3>2, <3>3, RerunMove DEF Terminal, Pending
  <2> QED
    BY <2>6, <2>7
<1>3. CASE ClaimResumed
  <2>1. rec \in Record /\ rec.state \in {"queued", "provisioning"}
        /\ op.message \in Messages
    BY <1>1, <1>3 DEF ClaimResumed, Resumed, OwnDelivery, At, IInv, AwaitInv
  <2>2. rec' = [rec EXCEPT !.message = op.message, !.state = "provisioning"]
    BY <1>3 DEF ClaimResumed
  <2>3. rec' \in Record
    BY <2>1, <2>2, ContractStates DEF Record
  <2>4. rec'.state = "provisioning" /\ rec'.reviewCompleted = rec.reviewCompleted
        /\ rec'.conclusion = rec.conclusion /\ rec.conclusion \in Conclusions \cup {None}
    BY <2>1, <2>2 DEF Record, Conclusions
  <2>5. ~isTerminalState("provisioning") /\ "provisioning" \in TRANSITIONS["queued"]
    BY ContractStates DEF TRANSITIONS
  <2>6. CASE rec.state = "queued"
    BY <2>1, <2>3, <2>4, <2>5, <2>6, AdvanceMove
  <2>7. CASE rec.state = "provisioning"
    BY <2>1, <2>3, <2>4, <2>5, <2>7, StutterMove DEF Stays
  <2> QED
    BY <2>1, <2>6, <2>7
<1>4. CASE ReadPolicy \/ SaveCheckRunId \/ AllocateSandbox \/ RecoverProcess \/ SaveDeadline
  <2>1. rec \in Record /\ rec.state = "provisioning"
    BY <1>1, <1>4 DEF ReadPolicy, SaveCheckRunId, AllocateSandbox, RecoverProcess, SaveDeadline,
       At, IInv, AwaitInv, StartSteps
  <2>2. rec' \in Record /\ Stays(rec, rec')
    <3>1. CASE ReadPolicy
      BY <2>1, <3>1 DEF ReadPolicy, Record, Stays
    <3>2. CASE SaveCheckRunId
      BY <1>1, <2>1, <3>2 DEF SaveCheckRunId, Record, Operation, Stays
    <3>3. CASE AllocateSandbox
      BY <2>1, <3>3 DEF AllocateSandbox, Record, Stays
    <3>4. CASE RecoverProcess \/ SaveDeadline
      BY <2>1, <3>4 DEF RecoverProcess, SaveDeadline, Record, Stays
    <3> QED
      BY <1>4, <3>1, <3>2, <3>3, <3>4
  <2> QED
    BY <2>1, <2>2, StutterMove, ContractStates
<1>5. CASE TransitionRunning
  <2>1. rec \in Record /\ rec.state = "provisioning"
    BY <1>1, <1>5 DEF TransitionRunning, At, IInv, AwaitInv, StartSteps
  <2>2. rec' \in Record /\ rec'.state = "running"
        /\ rec'.reviewCompleted = rec.reviewCompleted
        /\ rec'.conclusion \in Conclusions \cup {None}
    BY <1>5, <2>1, ContractStates DEF TransitionRunning, Record, Conclusions
  <2>3. "running" \in TRANSITIONS["provisioning"] /\ ~isTerminalState("running")
    BY ContractStates DEF TRANSITIONS
  <2> QED
    BY <2>1, <2>2, <2>3, AdvanceMove
<1>6. CASE NotClaimed \/ CreateCheckRun \/ RejectPolicy \/ StartProcess \/ SetAlarm
           \/ StartThrows \/ StartSettled
  BY <1>6, NothingSeen DEF NotClaimed, CreateCheckRun, RejectPolicy, StartProcess, SetAlarm,
     StartThrows, StartSettled, durable
<1> QED
  BY <1>2, <1>3, <1>4, <1>5, <1>6 DEF StartStep

LEMMA StopImplements ==
  ASSUME IInv, CheckInv, FlagInv, StopStep
  PROVE  Lifecycle!Next \/ UNCHANGED Lifecycle!view
<1>1. rec \in Record \cup {None} /\ op \in Operation
  BY DEF IInv, TypeOK
<1>2. CASE CreateQueued
  <2>1. rec = None /\ op.message \in Messages
    BY <1>2 DEF CreateQueued, At, IInv, AwaitInv
  <2>2. rec' = NewRecord("queued", op.message, FALSE)
    BY <1>2 DEF CreateQueued, queuedRecord, NewRecord
  <2>3. rec' \in Record
    BY <2>1, <2>2, NewRecordType, ContractStates
  <2>4. rec'.state = "queued" /\ ~rec'.reviewCompleted
    BY <2>2 DEF NewRecord
  <2> QED
    BY <2>1, <2>3, <2>4, CreateMove
<1>3. CASE Tombstone
  <2>1. rec = None
    BY <1>3 DEF Tombstone, At, IInv, AwaitInv
  <2>2. rec' \in Record
    BY <1>3, ContractStates DEF Tombstone, NewRecord, Record
  <2>3. rec'.state = "superseded" /\ rec'.conclusion = "neutral" /\ ~rec'.reviewCompleted
        /\ ~rec'.cleanupPending /\ ~rec'.checkUpdatePending
    BY <1>3 DEF Tombstone, NewRecord
  <2> QED
    BY <2>1, <2>2, <2>3, CreateMove
<1>4. CASE TransitionProvisioning
  <2>1. rec \in Record /\ rec.state = "queued"
    BY <1>1, <1>4 DEF TransitionProvisioning, At, IInv, AwaitInv
  <2>2. rec' \in Record /\ rec'.state = "provisioning"
        /\ rec'.reviewCompleted = rec.reviewCompleted
        /\ rec'.conclusion \in Conclusions \cup {None}
    BY <1>4, <2>1, ContractStates DEF TransitionProvisioning, Record, Conclusions
  <2>3. "provisioning" \in TRANSITIONS["queued"] /\ ~isTerminalState("provisioning")
    BY ContractStates DEF TRANSITIONS
  <2> QED
    BY <2>1, <2>2, <2>3, AdvanceMove
<1>5. CASE FlagObligations
  <2>1. rec \in Record /\ ~isTerminalState(rec.state)
    BY <1>1, <1>5 DEF FlagObligations, At, IInv, AwaitInv, Live
  <2>2. rec' \in Record /\ Stays(rec, rec')
    BY <1>5, <2>1 DEF FlagObligations, Record, Stays
  <2> QED
    BY <2>1, <2>2, StutterMove
<1>6. CASE MarkTerminal
  <2> DEFINE s == TargetState(op.kind)
  <2>1. rec \in Record /\ rec.conclusion = "neutral"
    BY <1>1, <1>6 DEF MarkTerminal, At, IInv, AwaitInv, Live, CheckInv, CheckAwait
  <2>2. s \in {"failed", "superseded", "timed_out"} /\ s \in TRANSITIONS[rec.state]
    BY <1>6 DEF MarkTerminal, canTransition, TargetState
  <2> HIDE DEF s
  <2>3. rec' = [rec EXCEPT !.state = s]
    BY <1>6 DEF MarkTerminal, s
  <2>4. rec' \in Record /\ rec'.state = s /\ rec'.conclusion = "neutral"
        /\ rec'.reviewCompleted = rec.reviewCompleted
    BY <2>1, <2>2, <2>3, ContractStates DEF Record
  <2> QED
    BY <2>1, <2>2, <2>4, AdvanceMove DEF Conclusions
<1>7. CASE MarkThrows
  BY <1>7, NothingSeen DEF MarkThrows, durable
<1> QED
  BY <1>2, <1>3, <1>4, <1>5, <1>6, <1>7 DEF StopStep

LEMMA PublishImplements ==
  ASSUME IInv, CheckInv, FlagInv, PublishStep
  PROVE  Lifecycle!Next \/ UNCHANGED Lifecycle!view
<1>1. rec \in Record \cup {None} /\ op \in Operation
  BY DEF IInv, TypeOK
<1>2. CASE PollEnded
  <2>1. rec \in Record /\ rec.state = "running"
    BY <1>1, <1>2 DEF PollEnded, At, IInv, AwaitInv, Live
  <2>2. rec' \in Record /\ rec'.state = "publishing"
        /\ rec'.reviewCompleted = rec.reviewCompleted
        /\ rec'.conclusion \in Conclusions \cup {None}
    BY <1>2, <2>1, ContractStates DEF PollEnded, Record, Conclusions
  <2>3. "publishing" \in TRANSITIONS["running"] /\ ~isTerminalState("publishing")
    BY ContractStates DEF TRANSITIONS
  <2> QED
    BY <2>1, <2>2, <2>3, AdvanceMove
<1>3. CASE Collect
  <2>1. rec \in Record /\ rec.state = "publishing"
    BY <1>1, <1>3 DEF Collect, At, IInv, AwaitInv
  <2>2. rec' \in {rec, [rec EXCEPT !.diagnosticsFinalized = TRUE]}
    BY <1>3 DEF Collect, PersistDiagnostics
  <2>3. rec' \in Record /\ Stays(rec, rec')
    BY <2>1, <2>2 DEF Record, Stays
  <2> QED
    BY <2>1, <2>3, StutterMove, ContractStates
<1>4. CASE Conclude
  <2>1. rec \in Record /\ rec.state = "publishing" /\ op.verdict \in Verdicts
    BY <1>1, <1>4 DEF Conclude, At, IInv, AwaitInv
  <2>2. (rec.reviewCompleted \/ op.verdict.reviewed) \in BOOLEAN
    OBVIOUS
  <2>3. rec' \in Record
    BY <1>4, <2>1, <2>2 DEF Conclude, Record, Verdicts, Conclusions
  <2>4. rec'.state = "publishing" /\ (rec.reviewCompleted => rec'.reviewCompleted)
    BY <1>4, <2>1 DEF Conclude, Record
  <2> QED
    BY <2>1, <2>3, <2>4, ReviewMove
<1>5. CASE Close
  <2>1. rec \in Record /\ rec.state = "publishing" /\ op.verdict \in Verdicts
        /\ rec.conclusion = op.verdict.conclusion
        /\ (op.verdict.terminalState = "failed" => op.verdict.conclusion = "neutral")
    BY <1>1, <1>5 DEF Close, At, IInv, AwaitInv, CheckInv, CheckAwait, FlagInv, FlagAwait
  <2>2. op.verdict.terminalState \in {"completed", "failed"} /\ rec.conclusion \in Conclusions
        /\ {"completed", "failed"} \subseteq TRANSITIONS["publishing"]
    BY <2>1 DEF Verdicts, TRANSITIONS
  <2>3. rec' = [rec EXCEPT !.state = op.verdict.terminalState]
    BY <1>5 DEF Close
  <2>4. rec' \in Record /\ rec'.state = op.verdict.terminalState
        /\ rec'.conclusion = rec.conclusion /\ rec'.reviewCompleted = rec.reviewCompleted
    BY <2>1, <2>2, <2>3, ContractStates DEF Record
  <2> QED
    BY <2>1, <2>2, <2>4, AdvanceMove
<1>6. CASE PollThrows \/ PollHealthy \/ ReportCheck \/ ReportThrows
  BY <1>6, NothingSeen DEF PollThrows, PollHealthy, ReportCheck, ReportThrows, durable
<1> QED
  BY <1>2, <1>3, <1>4, <1>5, <1>6 DEF PublishStep

LEMMA SettleImplements ==
  ASSUME IInv, CheckInv, FlagInv, SettleStep
  PROVE  Lifecycle!Next \/ UNCHANGED Lifecycle!view
<1>1. rec \in Record \cup {None}
  BY DEF IInv, TypeOK
<1>2. CASE \/ DestroySandbox \/ DestroyFails \/ RearmCleanup
           \/ UpdateNeutral \/ UpdateNeutralFails \/ RearmCheck \/ Settled
  BY <1>2, NothingSeen DEF DestroySandbox, DestroyFails, RearmCleanup, UpdateNeutral,
     UpdateNeutralFails, RearmCheck, Settled, durable
<1>3. CASE Diagnose \/ SaveDestroyed \/ SaveUndestroyed
  <2>1. rec \in Record /\ isTerminalState(rec.state) /\ rec.cleanupPending
    BY <1>1, <1>3 DEF Diagnose, SaveDestroyed, SaveUndestroyed, At, IInv, AwaitInv, Terminal
  <2>2. rec' \in {rec, [rec EXCEPT !.diagnosticsFinalized = TRUE],
                 [rec EXCEPT !.cleanupPending = FALSE], [rec EXCEPT !.cleanupPending = TRUE]}
    BY <1>3 DEF Diagnose, PersistDiagnostics, SaveDestroyed, SaveUndestroyed
  <2>3. rec' \in Record /\ Stays(rec, rec') /\ rec'.conclusion = rec.conclusion
        /\ rec'.checkUpdatePending = rec.checkUpdatePending
    BY <2>1, <2>2 DEF Record, Stays
  <2> QED
    BY <2>1, <2>3, SettleMove
<1>4. CASE SaveNeutral \/ SaveOwed
  <2>1. rec \in Record /\ isTerminalState(rec.state) /\ rec.checkUpdatePending
    BY <1>1, <1>4
    DEF SaveNeutral, SaveOwed, At, IInv, AwaitInv, Terminal, CheckInv, CheckAwait
  <2>2. rec.conclusion = "neutral"
    BY <2>1, NoneIsNoRecord DEF FlagInv, FlagRecord
  <2>3. PICK b \in BOOLEAN : rec' = [rec EXCEPT !.conclusion = "neutral", !.checkUpdatePending = b]
    BY <1>4 DEF SaveNeutral, SaveOwed
  <2>4. rec' \in Record /\ Stays(rec, rec') /\ rec'.conclusion = "neutral"
        /\ rec'.cleanupPending = rec.cleanupPending
    BY <2>1, <2>3 DEF Record, Stays
  <2> QED
    BY <2>1, <2>2, <2>4, SettleMove
<1> QED
  BY <1>2, <1>3, <1>4 DEF SettleStep

LEMMA NextImplements ==
  ASSUME IInv, CheckInv, FlagInv, [Next]_vars
  PROVE  [Lifecycle!Next]_(Lifecycle!view)
<1>1. CASE OpStep
  BY <1>1, StartImplements, StopImplements, PublishImplements, SettleImplements DEF OpStep
<1>2. CASE UNCHANGED rec
  BY <1>2, NothingSeen
<1>3. ASSUME NEW m \in Messages, start(m) \/ failStart(m) PROVE UNCHANGED rec
  BY <1>3 DEF start, failStart, durable
<1>4. CASE supersede \/ BeginAlarm \/ Environment
  BY <1>2, <1>4 DEF supersede, BeginAlarm, Environment, AlarmFires, Evict, ReviewExits,
     ContainerLost, DeadlinePasses, durable
<1>5. CASE UNCHANGED vars
  BY <1>2, <1>5 DEF vars
<1> QED
  BY <1>1, <1>2, <1>3, <1>4, <1>5 DEF Next

LEMMA InitImplements == Init => Lifecycle!Init
BY DEF Init, Lifecycle!Init, Terminal

LEMMA InitFlags == Init => FlagInv
BY DEF Init, FlagInv, FlagRecord, FlagAwait, Ended

(* The object implements JobLifecycle, if it is not evicted where a flag would outlive the  *)
(* step it was set for.                                                        *)
THEOREM LifecycleImplemented == ASSUME NoStaleFlags PROVE Spec => LifecycleSpec
<1>1. Init => Lifecycle!Init /\ FlagInv
  BY InitImplements, InitFlags
<1>2. IInv /\ CheckInv /\ FlagInv /\ [Next]_vars => FlagInv' /\ [Lifecycle!Next]_(Lifecycle!view)
  BY NextFlags, NextImplements
<1> QED
  BY <1>1, <1>2, CheckInvariance, PTL DEF Spec, LifecycleSpec, Lifecycle!Spec

(* So a completed job keeps its classification (openspec/specs/cloud-app-platform/spec.md:299)  *)
(* unless the object is evicted there, which the run about stale flags shows.          *)
THEOREM ClassificationKept == ASSUME NoStaleFlags PROVE Spec => ClassificationPreserved
<1> DEFINE Preserves == rec # None /\ rec' # None /\ rec.state = "completed" /\ rec'.state = "completed"
                          => rec'.conclusion = rec.conclusion
<1>1. IInv /\ CheckInv /\ FlagInv /\ [Next]_vars => [Preserves]_vars
  <2> SUFFICES ASSUME IInv, CheckInv, FlagInv, [Next]_vars, rec # None, rec' # None,
                      rec.state = "completed", rec'.state = "completed"
               PROVE  rec'.conclusion = rec.conclusion
    OBVIOUS
  <2>1. Terminal /\ rec'.state \notin {"provisioning"}
    BY ContractStates DEF Terminal
  <2>2. CASE Lifecycle!Next
    <3>1. isTerminalState(rec'.state) /\ rec.state \in JobStates
      BY ContractStates
    <3>2. ~Lifecycle!Create /\ ~Lifecycle!Advance /\ ~Lifecycle!RecordReview /\ ~Lifecycle!Rerun
      BY <2>1, <3>1, SameContract DEF Lifecycle!Create, Lifecycle!Advance, Lifecycle!RecordReview,
         Lifecycle!Rerun, isTerminalState
    <3>3. Lifecycle!Settle
      BY <2>2, <3>2 DEF Lifecycle!Next
    <3> QED
      BY <2>1, <3>1, <3>3 DEF Lifecycle!Settle, Terminal
  <2>3. CASE UNCHANGED Lifecycle!view
    BY <2>1, <2>3, ContractStates DEF Lifecycle!view, Terminal
  <2> QED
    BY <2>2, <2>3, NextImplements
<1>2. IInv /\ CheckInv /\ FlagInv /\ [Next]_vars => FlagInv'
  BY NextFlags
<1>3. Init => FlagInv
  BY InitFlags
<1> QED
  BY <1>1, <1>2, <1>3, CheckInvariance, PTL DEF Spec, ClassificationPreserved

-----------------------------------------------------------------------------
(* Alarms: who moves a job that has started, and who pays what a terminal job owes.        *)

CleanSteps  == {"diagnose", "destroy", "saveDestroyed", "saveUndestroyed", "rearmCleanup"}
SettleSteps == CleanSteps \cup {"neutral", "saveNeutral", "saveOwed", "rearmCheck"}

(* A working job has an alarm, or is about to get its first; a debt has one, or the           *)
(* operation that is settling it has not passed it yet.  An alarm handler is itself the       *)
(* delivered alarm until it ends, and a publication never has a check to settle.          *)
AlarmInv ==
  /\ op.kind \in Alarms => fired
  /\ rec # None /\ rec.state \in {"running", "publishing"}
       => alarm \/ fired \/ (op.kind = "start" /\ op.step = "schedule")
  /\ op.kind \in Alarms /\ op.step = "settled" => rec = None \/ Terminal
  /\ Terminal /\ rec.cleanupPending =>
       \/ alarm
       \/ fired /\ (op.kind \in Alarms => op.step \in CleanSteps)
       \/ op.kind \in {"supersede", "failStart"} /\ op.step \in CleanSteps
  /\ Terminal /\ rec.checkUpdatePending =>
       \/ alarm
       \/ fired /\ (op.kind \in Alarms => op.kind = "alarm" /\ op.step \in SettleSteps)
       \/ op.kind \in {"supersede", "failStart"} /\ op.step \in SettleSteps

(* An eviction between the running state and the first alarm, or in the settlement of a       *)
(* supersession or of a failed start, which schedule none, leaves the job to nobody.        *)
AlarmsRun ==
  /\ <<"start", "schedule">> \notin CrashPoints
  /\ \A k \in {"supersede", "failStart"}, s \in SettleSteps : <<k, s>> \notin CrashPoints

LEMMA InitAlarm == Init => AlarmInv
BY DEF Init, AlarmInv, Terminal, Ended, Alarms

(* A job whose review is not started yet has nothing to poll and owes nothing.             *)
LEMMA AlarmUnstarted ==
  ASSUME AlarmInv, rec'.state \in {"queued", "provisioning"}, op'.kind \notin Alarms
  PROVE  AlarmInv'
BY ContractStates DEF AlarmInv, Terminal

(* A step that keeps the record and the alarm, outside the awaits an alarm must not miss.      *)
LEMMA AlarmKept ==
  ASSUME AlarmInv, rec' = rec, alarm => alarm', fired => fired' \/ alarm',
         ~(op.kind = "start" /\ op.step = "schedule"),
         op.kind \in {"supersede", "failStart"} => op.step \notin SettleSteps,
         op'.kind \notin Alarms
  PROVE  AlarmInv'
BY DEF AlarmInv, Terminal, SettleSteps

(* The caller of an operation that is no alarm keeps the alarm that was delivered.            *)
LEMMA FinishedFired ==
  ASSUME NEW s, Finish(s)
  PROVE  /\ op'.kind \notin Alarms /\ op'.step = s
         /\ op.kind \notin Alarms => fired' = fired
BY DEF Finish, Ended, Alarms

LEMMA StartAlarm == ASSUME IInv, AlarmInv, StartStep PROVE AlarmInv'
<1>1. op.kind = "start" /\ op.kind \notin Alarms /\ op \in Operation
  BY DEF StartStep, ClaimFresh, ClaimResumed, NotClaimed, ReadPolicy, CreateCheckRun,
     SaveCheckRunId, RejectPolicy, AllocateSandbox, RecoverProcess, StartProcess, SaveDeadline,
     TransitionRunning, SetAlarm, StartThrows, StartSettled, At, Alarms, IInv, TypeOK
<1>2. CASE NotClaimed
  BY <1>1, <1>2, FinishedFired, AlarmKept DEF NotClaimed, At
<1>3. CASE RejectPolicy \/ StartThrows
  BY <1>1, <1>3, FinishedFired, AlarmKept DEF RejectPolicy, StartThrows, At, durable
<1>4. CASE StartSettled
  <2>1. rec' = rec /\ alarm' = alarm /\ op.step = "settled"
    BY <1>4 DEF StartSettled, durable, At
  <2>2. fired' = fired /\ op'.kind \notin Alarms
    BY <1>1, <1>4, FinishedFired DEF StartSettled, Goto, Operation
  <2> QED
    BY <1>1, <2>1, <2>2, AlarmKept
<1>5. CASE ClaimFresh \/ ClaimResumed
  <2>1. rec'.state = "provisioning"
    BY <1>5
    DEF ClaimFresh, ClaimResumed, queuedRecord, NewRecord, IInv, TypeOK, Record, Resumed,
        OwnDelivery
  <2>2. op'.kind \notin Alarms
    BY <1>1, <1>5 DEF ClaimFresh, ClaimResumed, Goto, Operation
  <2> QED
    BY <2>1, <2>2, AlarmUnstarted
<1>6. CASE ReadPolicy \/ SaveCheckRunId \/ AllocateSandbox \/ RecoverProcess \/ SaveDeadline
  <2>1. op.step \in StartSteps
    BY <1>6 DEF ReadPolicy, SaveCheckRunId, AllocateSandbox, RecoverProcess, SaveDeadline, At,
       StartSteps
  <2>2. rec # None /\ rec \in Record /\ rec.state = "provisioning"
    BY <2>1 DEF IInv, TypeOK, AwaitInv
  <2>3. rec'.state = "provisioning"
    BY <1>6, <2>2
    DEF ReadPolicy, SaveCheckRunId, AllocateSandbox, RecoverProcess, SaveDeadline, Record
  <2>4. op'.kind \notin Alarms
    BY <1>1, <1>6
    DEF ReadPolicy, SaveCheckRunId, AllocateSandbox, RecoverProcess, SaveDeadline, Goto, Operation
  <2> QED
    BY <2>3, <2>4, AlarmUnstarted
<1>7. CASE CreateCheckRun \/ StartProcess
  <2>1. rec' = rec /\ alarm' = alarm /\ op.step \in {"createCheck", "launch"}
    BY <1>7 DEF CreateCheckRun, StartProcess, durable, At
  <2>2. fired' = fired /\ op'.kind \notin Alarms
    BY <1>1, <1>7, FinishedFired DEF CreateCheckRun, StartProcess, Goto, Operation
  <2> QED
    BY <1>1, <2>1, <2>2, AlarmKept
<1>8. CASE TransitionRunning
  <2>1. rec \in Record /\ rec # None /\ rec' = [rec EXCEPT !.state = "running"]
    BY <1>8 DEF TransitionRunning, At, IInv, TypeOK, AwaitInv
  <2>2. op'.kind = "start" /\ op'.step = "schedule"
    BY <1>1, <1>8 DEF TransitionRunning, Goto, Operation
  <2> QED
    BY <1>1, <2>1, <2>2, ContractStates DEF AlarmInv, Terminal, Record, Alarms
<1>9. CASE SetAlarm
  <2>1. rec' = rec /\ alarm' /\ op'.kind \notin Alarms
    BY <1>9, FinishedFired DEF SetAlarm, durable
  <2> QED
    BY <2>1 DEF AlarmInv, Terminal
<1> QED
  BY <1>2, <1>3, <1>4, <1>5, <1>6, <1>7, <1>8, <1>9 DEF StartStep

LEMMA StopAlarm == ASSUME IInv, AlarmInv, StopStep PROVE AlarmInv'
<1>1. CASE CreateQueued \/ TransitionProvisioning
  <2>1. op.kind = "failStart" /\ op \in Operation
    BY <1>1 DEF CreateQueued, TransitionProvisioning, At, IInv, TypeOK
  <2>2. rec'.state \in {"queued", "provisioning"}
    BY <1>1
    DEF CreateQueued, TransitionProvisioning, queuedRecord, NewRecord, IInv, TypeOK, AwaitInv,
        At, Record
  <2>3. op'.kind \notin Alarms
    BY <1>1, <2>1 DEF CreateQueued, TransitionProvisioning, Goto, Operation, Alarms
  <2> QED
    BY <2>2, <2>3, AlarmUnstarted
<1>2. CASE Tombstone
  <2>1. op \in Operation /\ op.kind = "supersede"
    BY <1>2 DEF Tombstone, At, IInv, TypeOK
  <2>2. op'.kind = "supersede"
    BY <1>2, <2>1 DEF Tombstone, Goto, Operation
  <2>3. /\ rec'.state = "superseded" /\ ~rec'.cleanupPending /\ ~rec'.checkUpdatePending
    BY <1>2 DEF Tombstone, NewRecord
  <2> QED
    BY <2>2, <2>3 DEF AlarmInv, Alarms
<1>3. CASE FlagObligations
  <2>1. /\ op \in Operation /\ op.step = "flag" /\ op.kind \in {"failStart", "supersede", "alarm"}
        /\ rec \in Record /\ rec # None /\ ~isTerminalState(rec.state)
    BY <1>3 DEF FlagObligations, At, IInv, TypeOK, AwaitInv, Live
  <2>2. rec'.state = rec.state /\ op'.kind = op.kind /\ op'.step = "mark"
    BY <1>3, <2>1 DEF FlagObligations, Goto, Operation, Record
  <2>3. alarm' = alarm /\ fired' = fired
    BY <1>3 DEF FlagObligations, alarms
  <2> QED
    BY <2>1, <2>2, <2>3 DEF AlarmInv, Terminal
<1>4. CASE MarkTerminal
  <2>1. /\ op \in Operation /\ op.kind \in {"failStart", "supersede", "alarm"}
        /\ rec \in Record /\ rec # None
    BY <1>4 DEF MarkTerminal, At, IInv, TypeOK, AwaitInv, Live
  <2>2. /\ rec' = [rec EXCEPT !.state = TargetState(op.kind)]
        /\ op' = [op EXCEPT !.step = SettleFrom(op.kind, rec)]
        /\ alarm' = alarm /\ fired' = fired
    BY <1>4 DEF MarkTerminal, Goto, alarms
  <2>3. /\ rec' # None /\ isTerminalState(rec'.state)
        /\ rec'.state \notin {"running", "publishing"}
        /\ rec'.cleanupPending = rec.cleanupPending
        /\ rec'.checkUpdatePending = rec.checkUpdatePending
    BY <2>1, <2>2, ContractStates, NoneIsNoRecord DEF TargetState, Record
  <2>4. /\ op'.kind = op.kind
        /\ rec.cleanupPending => op'.step \in CleanSteps
        /\ rec.checkUpdatePending => op'.step \in SettleSteps
    BY <2>1, <2>2 DEF SettleFrom, AfterCleanup, CleanSteps, SettleSteps, Operation
  <2> QED
    BY <2>1, <2>2, <2>3, <2>4 DEF AlarmInv, Terminal, Alarms
<1>5. CASE MarkThrows
  <2>1. rec' = rec /\ alarm' /\ op'.kind \notin Alarms
    BY <1>5, FinishedFired DEF MarkThrows, durable
  <2> QED
    BY <2>1 DEF AlarmInv, Terminal
<1> QED
  BY <1>1, <1>2, <1>3, <1>4, <1>5 DEF StopStep

LEMMA PublishAlarm == ASSUME IInv, FlagInv, AlarmInv, PublishStep PROVE AlarmInv'
<1>1. CASE PollThrows \/ PollHealthy \/ ReportThrows
  <2>1. rec' = rec /\ alarm' /\ op'.kind \notin Alarms
    BY <1>1, FinishedFired DEF PollThrows, PollHealthy, ReportThrows, Rearm, durable
  <2> QED
    BY <2>1 DEF AlarmInv, Terminal
<1>2. CASE PollEnded
  <2>1. /\ op \in Operation /\ op.kind \in Alarms /\ rec \in Record /\ rec # None
    BY <1>2 DEF PollEnded, At, Alarms, IInv, TypeOK, AwaitInv, Live
  <2>2. /\ rec'.state = "publishing" /\ op'.step = "collect" /\ fired' = fired
    BY <1>2, <2>1 DEF PollEnded, alarms, Record, Operation
  <2> QED
    BY <2>1, <2>2, ContractStates DEF AlarmInv, Terminal
<1>3. CASE Collect \/ Conclude
  <2>1. /\ op \in Operation /\ op.kind \in Alarms /\ rec \in Record /\ rec # None
        /\ rec.state = "publishing"
    BY <1>3 DEF Collect, Conclude, At, Alarms, IInv, TypeOK, AwaitInv
  <2>2. /\ rec'.state = "publishing" /\ fired' = fired
    BY <1>3, <2>1 DEF Collect, Conclude, PersistDiagnostics, alarms, Record
  <2>3. op'.step \in {"report", "close"}
    BY <1>3, <2>1 DEF Collect, Conclude, Goto, Operation
  <2> QED
    BY <2>1, <2>2, <2>3, ContractStates DEF AlarmInv, Terminal
<1>4. CASE ReportCheck
  <2>1. op \in Operation /\ op.kind \in Alarms /\ rec # None /\ rec.state = "publishing" /\ rec' = rec
    BY <1>4 DEF ReportCheck, At, Alarms, IInv, TypeOK, AwaitInv, durable
  <2>2. \/ op'.step = "conclude" /\ fired' = fired
        \/ op'.kind \notin Alarms /\ alarm'
    BY <1>4, <2>1, FinishedFired DEF ReportCheck, Rearm, Goto, Operation
  <2> QED
    BY <2>1, <2>2, ContractStates DEF AlarmInv, Terminal
<1>5. CASE Close
  <2>1. /\ op \in Operation /\ op.kind \in {"publish", "publishLost"} /\ op.step = "close"
        /\ rec \in Record /\ rec # None /\ rec.state = "publishing" /\ rec.cleanupPending
        /\ op.verdict.terminalState \in {"completed", "failed"}
    BY <1>5 DEF Close, At, IInv, TypeOK, AwaitInv, Verdicts
  <2>2. ~rec.checkUpdatePending
    BY <2>1, ContractStates DEF FlagInv, FlagRecord
  <2>3. /\ rec'.state \in {"completed", "failed"} /\ ~rec'.checkUpdatePending
        /\ op'.step = "diagnose" /\ fired' = fired
    BY <1>5, <2>1, <2>2 DEF Close, SettleFrom, alarms, Record, Operation
  <2> QED
    BY <2>1, <2>3 DEF AlarmInv, Terminal, CleanSteps, Alarms
<1> QED
  BY <1>1, <1>2, <1>3, <1>4, <1>5 DEF PublishStep

LEMMA SettleAlarm == ASSUME IInv, CheckInv, AlarmInv, SettleStep PROVE AlarmInv'
<1>1. op \in Operation /\ (rec # None => rec \in Record)
  BY DEF IInv, TypeOK
<1>2. op.step \in SettleSteps => Terminal /\ rec # None /\ rec.state \notin {"running", "publishing"}
  BY ContractStates DEF IInv, AwaitInv, Terminal, SettleSteps, CleanSteps
<1>3. CASE Diagnose \/ DestroySandbox \/ DestroyFails \/ SaveUndestroyed
  <2>1. /\ op.step \in {"diagnose", "destroy", "saveUndestroyed"}
        /\ op'.step \in CleanSteps /\ op'.kind = op.kind
        /\ alarm' = alarm /\ fired' = fired
    BY <1>1, <1>3
    DEF Diagnose, DestroySandbox, DestroyFails, SaveUndestroyed, At, Goto, CleanSteps, Operation,
        alarms
  <2>2. /\ rec.state = rec'.state /\ rec'.cleanupPending = rec.cleanupPending
        /\ rec'.checkUpdatePending = rec.checkUpdatePending /\ rec # None
    BY <1>1, <1>2, <1>3, <2>1
    DEF Diagnose, DestroySandbox, DestroyFails, SaveUndestroyed, PersistDiagnostics, durable,
        Record, SettleSteps, CleanSteps, IInv, AwaitInv
  <2> QED
    BY <1>2, <2>1, <2>2 DEF AlarmInv, Terminal, SettleSteps, CleanSteps
<1>4. CASE SaveDestroyed
  <2>1. /\ op.step = "saveDestroyed" /\ op'.kind = op.kind
        /\ op'.step = AfterCleanup(op.kind, rec) /\ alarm' = alarm /\ fired' = fired
    BY <1>1, <1>4 DEF SaveDestroyed, At, Goto, Operation, alarms
  <2>2. /\ rec.state = rec'.state /\ ~rec'.cleanupPending
        /\ rec'.checkUpdatePending = rec.checkUpdatePending /\ rec # None
    BY <1>1, <1>2, <1>4, <2>1 DEF SaveDestroyed, Record, SettleSteps, CleanSteps
  <2> QED
    BY <1>2, <2>1, <2>2
    DEF AlarmInv, Terminal, SettleSteps, CleanSteps, AfterCleanup, Alarms
<1>5. CASE RearmCleanup \/ RearmCheck
  <2>1. /\ op.step \in SettleSteps /\ op'.kind = op.kind /\ alarm' /\ fired' = fired
        /\ rec' = rec
    BY <1>1, <1>5
    DEF RearmCleanup, RearmCheck, At, Goto, Operation, SettleSteps, CleanSteps, durable
  <2> QED
    BY <1>2, <2>1 DEF AlarmInv, Terminal
<1>6. CASE UpdateNeutral \/ UpdateNeutralFails
  <2>1. /\ op.step = "neutral" /\ op'.step \in {"saveNeutral", "saveOwed"} /\ op'.kind = op.kind
        /\ rec' = rec /\ alarm' = alarm /\ fired' = fired
    BY <1>1, <1>6 DEF UpdateNeutral, UpdateNeutralFails, At, Goto, Operation, alarms, durable
  <2> QED
    BY <1>2, <2>1 DEF AlarmInv, Terminal, SettleSteps, CleanSteps
<1>7. CASE SaveNeutral
  <2>1. /\ op.step = "saveNeutral" /\ op'.step = "settled" /\ op'.kind = op.kind
        /\ alarm' = alarm /\ fired' = fired
    BY <1>1, <1>7 DEF SaveNeutral, At, Goto, Operation, alarms
  <2>2. /\ rec.state = rec'.state /\ ~rec'.checkUpdatePending
        /\ rec'.cleanupPending = rec.cleanupPending /\ rec # None
    BY <1>1, <1>2, <1>7, <2>1 DEF SaveNeutral, Record, SettleSteps
  <2> QED
    BY <1>2, <2>1, <2>2 DEF AlarmInv, Terminal, SettleSteps, CleanSteps
<1>8. CASE Settled
  <2>1. /\ op.step = "settled" /\ rec' = rec /\ alarm' = alarm /\ op'.kind \notin Alarms
        /\ op.kind \notin Alarms => fired' = fired
    BY <1>8, FinishedFired DEF Settled, At, durable
  <2>2. op.kind \in Alarms => rec = None \/ Terminal
    BY <2>1 DEF AlarmInv
  <2> QED
    BY <2>1, <2>2, ContractStates DEF AlarmInv, Terminal, SettleSteps, CleanSteps
<1>9. CASE SaveOwed
  <2>1. /\ op.step = "saveOwed" /\ op'.step = "rearmCheck" /\ op'.kind = op.kind
        /\ alarm' = alarm /\ fired' = fired
    BY <1>1, <1>9 DEF SaveOwed, At, Goto, Operation, alarms
  <2>2. /\ rec.state = rec'.state /\ rec'.checkUpdatePending = rec.checkUpdatePending
        /\ rec'.cleanupPending = rec.cleanupPending /\ rec # None
    BY <1>1, <1>2, <1>9, <2>1 DEF SaveOwed, Record, SettleSteps, CheckInv, CheckAwait
  <2> QED
    BY <1>2, <2>1, <2>2 DEF AlarmInv, Terminal, SettleSteps, CleanSteps
<1> QED
  BY <1>3, <1>4, <1>5, <1>6, <1>7, <1>8, <1>9 DEF SettleStep

LEMMA EnvironmentAlarm ==
  ASSUME AlarmsRun, IInv, AlarmInv, Environment
  PROVE  AlarmInv'
<1>1. CASE AlarmFires
  BY <1>1 DEF AlarmFires, AlarmInv, Terminal, durable
<1>2. CASE Evict
  <2>1. /\ rec' = rec /\ alarm' = (alarm \/ fired) /\ op'.kind \notin Alarms
        /\ <<op.kind, op.step>> \in CrashPoints
    BY <1>2 DEF Evict, Ended, durable, Alarms
  <2>2. alarm \in BOOLEAN /\ fired \in BOOLEAN
    BY DEF IInv, TypeOK
  <2> QED
    BY <2>1, <2>2, AlarmKept DEF AlarmsRun
<1>3. CASE ReviewExits \/ ContainerLost \/ DeadlinePasses
  BY <1>3 DEF ReviewExits, ContainerLost, DeadlinePasses, AlarmInv, Terminal, durable, alarms
<1> QED
  BY <1>1, <1>2, <1>3 DEF Environment

LEMMA CallAlarm ==
  ASSUME AlarmInv, (\E m \in Messages : start(m) \/ failStart(m)) \/ supersede
  PROVE  AlarmInv'
<1>1. /\ rec' = rec /\ alarm' = alarm /\ fired' = fired /\ op.step \in EndSteps
      /\ op'.kind \in {"start", "failStart", "supersede"}
  BY DEF start, failStart, supersede, serial, durable, alarms
<1> QED
  BY <1>1, AlarmKept DEF EndSteps, SettleSteps, CleanSteps, Alarms

LEMMA BeginAlarmAlarm == ASSUME AlarmInv, BeginAlarm PROVE AlarmInv'
<1>1. rec' = rec /\ fired /\ fired' = fired /\ op'.kind \in {"alarm", "publish"}
  BY DEF BeginAlarm, serial, durable, alarms
<1>2. /\ op'.step = "settled" => rec = None \/ Terminal
      /\ Terminal => op'.kind = "alarm" /\ op'.step = SettleFrom("alarm", rec)
  BY ContractStates DEF BeginAlarm, serial, Terminal, Live
<1> QED
  BY <1>1, <1>2 DEF AlarmInv, Terminal, SettleFrom, AfterCleanup, SettleSteps, CleanSteps, Alarms

LEMMA NextAlarm ==
  ASSUME AlarmsRun, IInv, CheckInv, FlagInv, AlarmInv, [Next]_vars
  PROVE  AlarmInv'
<1>1. CASE UNCHANGED vars
  BY <1>1 DEF vars, AlarmInv, Terminal
<1> QED
  BY <1>1, CallAlarm, BeginAlarmAlarm, StartAlarm, StopAlarm, PublishAlarm, SettleAlarm,
     EnvironmentAlarm DEF Next, OpStep

LEMMA AlarmSuffices == AlarmInv => WorkIsPolled /\ DebtIsRetried
BY DEF AlarmInv, WorkIsPolled, DebtIsRetried, Pending, Terminal, EndSteps, SettleSteps, CleanSteps

(* Whenever no operation is in progress, a job whose work has begun has an alarm that will    *)
(* poll it, and a terminal job one that retries what it owes: a live or indebted job is        *)
(* never left to nobody, unless the object is evicted at the awaits the assumptions name.    *)
THEOREM NobodyIsLeftAlone ==
  ASSUME NoStaleFlags, AlarmsRun
  PROVE  Spec => [](WorkIsPolled /\ DebtIsRetried)
<1>1. Init => FlagInv /\ AlarmInv
  BY InitFlags, InitAlarm
<1>2. IInv /\ CheckInv /\ FlagInv /\ AlarmInv /\ [Next]_vars => (FlagInv /\ AlarmInv)'
  BY NextFlags, NextAlarm
<1> QED
  BY <1>1, <1>2, AlarmSuffices, CheckInvariance, PTL DEF Spec

-----------------------------------------------------------------------------
(* The job as its callers see it.                                                *)

SeenNext == [SeenStep]_<<jobSeen, claims>>

LEMMA SeenSame ==
  ASSUME UNCHANGED <<handled, claims>>, rec # None, rec' # None,
         isTerminalState(rec'.state) <=> isTerminalState(rec.state),
         rec'.message = rec.message, rec'.reviewCompleted = rec.reviewCompleted
  PROVE  SeenNext
<1>1. UNCHANGED jobSeen
  BY DEF jobSeen, Terminal
<1> QED
  BY <1>1 DEF SeenNext

LEMMA SeenUnchanged == ASSUME UNCHANGED <<rec, handled, claims>> PROVE SeenNext
BY DEF SeenNext, jobSeen, Terminal

(* The guard of the transaction is the one its callers know.                          *)
LEMMA FreshIsMayStart ==
  ASSUME NEW m \in Messages
  PROVE  /\ Fresh(m) <=> mayStart(jobSeen, m)
         /\ Resumed(m) => jobSeen.state = "live" /\ ~m.skipped /\ startedBy(jobSeen, m)
BY ContractStates DEF Fresh, mayStart, Resumed, startedBy, OwnDelivery, jobSeen, Terminal

LEMMA SeenHandled ==
  ASSUME NEW m \in Messages, Handle(m)
  PROVE  handled' = jobSeen.handled \cup {deliveryIdentity(n) : n \in {m, jobSeen.message} \ {None}}
BY NoneAssumption DEF Handle, jobSeen

(* The outcomes of start, field by field.                                             *)
LEMMA StartedFields ==
  ASSUME NEW s, NEW n, NEW h, NEW r, NEW m,
         NEW j, j = [state |-> s, message |-> n, handled |-> h, reviewed |-> r],
         NEW g, g = h \cup {deliveryIdentity(x) : x \in {m, n} \ {None}}
  PROVE  /\ mayStart(j, m) => [state |-> "live", message |-> m, handled |-> g, reviewed |-> r]
                                 \in started(j, m)
         /\ ~mayStart(j, m) => [state |-> s, message |-> n, handled |-> g, reviewed |-> r]
                                 \in started(j, m)
         /\ ~mayStart(j, m) /\ s = "live" /\ ~m.skipped /\ startedBy(j, m)
              => [state |-> "live", message |-> m, handled |-> g, reviewed |-> r]
                   \in started(j, m)
<1> DEFINE seen == {deliveryIdentity(x) : x \in {m, j.message} \ {None}}
           others == [j EXCEPT !.handled = @ \cup seen]
           working == [others EXCEPT !.state = "live", !.message = m]
<1>1. j.message = n /\ j.handled = h /\ j.state = s
  OBVIOUS
<1>2. g = h \cup seen
  BY <1>1
<1>3. others = [state |-> s, message |-> n, handled |-> g, reviewed |-> r]
  <2> HIDE DEF seen
  <2> QED BY <1>2
<1>4. working = [state |-> "live", message |-> m, handled |-> g, reviewed |-> r]
  <2> HIDE DEF others
  <2>1. PICK w : w = [others EXCEPT !.state = "live", !.message = m]
    BY Zenon
  <2>2. w = [state |-> "live", message |-> m, handled |-> g, reviewed |-> r]
    BY <1>3, <2>1
  <2> QED BY <2>1, <2>2, Zenon
<1>5. started(j, m) = IF mayStart(j, m) THEN {working}
                      ELSE IF j.state = "live" /\ ~m.skipped /\ startedBy(j, m)
                             THEN {others, working} ELSE {others}
  BY Zenon DEF started
<1> HIDE DEF others, working
<1> QED
  BY <1>1, <1>3, <1>4, <1>5

(* One step of start at its transaction.                                            *)
LEMMA StartSeen ==
  ASSUME IInv, ClaimFresh \/ ClaimResumed \/ NotClaimed
  PROVE  SeenNext
<1> DEFINE m == op.message
           s == jobSeen.state
           n == jobSeen.message
           h == jobSeen.handled
           r == jobSeen.reviewed
           g == h \cup {deliveryIdentity(x) : x \in {m, n} \ {None}}
           working == [state |-> "live", message |-> m, handled |-> g, reviewed |-> r]
           others == [state |-> s, message |-> n, handled |-> g, reviewed |-> r]
<1>1. m \in Messages /\ Handle(m) /\ At({"start"}, "claim")
  BY DEF ClaimFresh, ClaimResumed, NotClaimed, At, IInv, AwaitInv
<1>2. handled' = g
  BY <1>1, SeenHandled
<1>3. /\ Fresh(m) <=> mayStart(jobSeen, m)
      /\ Resumed(m) => jobSeen.state = "live" /\ ~m.skipped /\ startedBy(jobSeen, m)
  BY <1>1, FreshIsMayStart
<1>4. /\ mayStart(jobSeen, m) => working \in started(jobSeen, m)
      /\ ~mayStart(jobSeen, m) => others \in started(jobSeen, m)
      /\ ~mayStart(jobSeen, m) /\ s = "live" /\ ~m.skipped /\ startedBy(jobSeen, m)
           => working \in started(jobSeen, m)
  <2>1. jobSeen = [state |-> s, message |-> n, handled |-> h, reviewed |-> r]
    BY DEF jobSeen
  <2> HIDE DEF s, n, h, r
  <2> QED BY <2>1, StartedFields
<1>5. CASE ClaimFresh
  <2>1. jobSeen' = working
    <3>1. rec' = NewRecord("provisioning", m, rec # None /\ rec.reviewCompleted)
      BY <1>5 DEF ClaimFresh, queuedRecord, NewRecord
    <3>2. rec' # None
      BY <3>1, <1>1, NewRecordType, ContractStates, NoneIsNoRecord
    <3>3. rec'.message = m /\ ~isTerminalState(rec'.state)
      BY <3>1, ContractStates DEF NewRecord
    <3>4. rec'.reviewCompleted = (rec # None /\ rec.reviewCompleted)
      BY <3>1 DEF NewRecord
    <3>5. (rec' # None /\ rec'.reviewCompleted) = r
      BY <3>2, <3>4, Zenon DEF jobSeen
    <3> QED
      BY <3>2, <3>3, <3>5, <1>2 DEF jobSeen, Terminal
  <2>2. claims' = [claims EXCEPT ![deliveryIdentity(m)] = @ + 1] /\ Fresh(m)
    BY <1>5 DEF ClaimFresh
  <2> HIDE DEF working
  <2> QED
    BY <1>1, <1>3, <1>4, <2>1, <2>2 DEF SeenNext, SeenStep
<1>6. CASE ClaimResumed
  <2>1. jobSeen' = working
    <3>1. rec \in Record /\ ~isTerminalState("provisioning") /\ Resumed(m)
      BY <1>6, ContractStates DEF ClaimResumed, Resumed, OwnDelivery, IInv, TypeOK
    <3>2. rec' = [rec EXCEPT !.message = m, !.state = "provisioning"]
      BY <1>6 DEF ClaimResumed
    <3> HIDE DEF m
    <3>3. rec' \in Record
      BY <3>1, <3>2, <1>1, ContractStates DEF Record
    <3>4. rec'.message = m /\ ~isTerminalState(rec'.state)
          /\ rec'.reviewCompleted = rec.reviewCompleted
      BY <3>1, <3>2 DEF Record
    <3>5. rec # None /\ rec' # None
      BY <3>1, <3>3, NoneIsNoRecord
    <3>6. (rec' # None /\ rec'.reviewCompleted) = r
      BY <3>4, <3>5, Zenon DEF jobSeen
    <3> QED
      BY <3>4, <3>5, <3>6, <1>2 DEF jobSeen, Terminal
  <2>2. claims' = claims /\ Resumed(m) /\ ~Fresh(m)
    BY <1>6, ContractStates DEF ClaimResumed, Resumed, Fresh, Terminal, OwnDelivery
  <2> HIDE DEF working
  <2> QED
    BY <1>1, <1>3, <1>4, <2>1, <2>2 DEF SeenNext, SeenStep
<1>7. CASE NotClaimed
  <2>1. jobSeen' = others
    BY <1>2, <1>7 DEF NotClaimed, jobSeen, Terminal
  <2>2. claims' = claims /\ ~Fresh(m)
    BY <1>7 DEF NotClaimed
  <2> HIDE DEF others
  <2> QED
    BY <1>1, <1>3, <1>4, <2>1, <2>2 DEF SeenNext, SeenStep
<1> QED
  BY <1>5, <1>6, <1>7

(* The record moves without its callers noticing.                                     *)
LEMMA SeenKept ==
  ASSUME UNCHANGED <<handled, claims>>, rec \in Record, rec' \in Record,
         isTerminalState(rec'.state) <=> isTerminalState(rec.state),
         rec'.message = rec.message, rec'.reviewCompleted = rec.reviewCompleted
  PROVE  SeenNext
BY SeenSame, NoneIsNoRecord

(* A live job ends.                                                           *)
LEMMA SeenEnds ==
  ASSUME UNCHANGED <<handled, claims>>, rec \in Record, rec' \in Record,
         ~isTerminalState(rec.state), isTerminalState(rec'.state),
         rec'.message = rec.message, rec'.reviewCompleted = rec.reviewCompleted
  PROVE  SeenNext
<1>1. rec # None /\ rec' # None
  BY NoneIsNoRecord
<1>2. jobSeen' = ended(jobSeen) /\ jobSeen.state = "live"
  BY <1>1 DEF jobSeen, ended, Terminal
<1> QED
  BY <1>2 DEF SeenNext, SeenStep

LEMMA StartStepSeen == ASSUME IInv, StartStep PROVE SeenNext
<1>1. rec \in Record \cup {None} /\ op \in Operation
  BY DEF IInv, TypeOK
<1>2. CASE ClaimFresh \/ ClaimResumed \/ NotClaimed
  BY <1>2, StartSeen
<1>3. CASE ReadPolicy \/ SaveCheckRunId \/ AllocateSandbox \/ RecoverProcess \/ SaveDeadline
  <2>1. rec \in Record /\ rec.state = "provisioning"
    BY <1>1, <1>3 DEF ReadPolicy, SaveCheckRunId, AllocateSandbox, RecoverProcess, SaveDeadline,
       At, IInv, AwaitInv, StartSteps
  <2>2. rec' \in Record /\ rec'.state = rec.state /\ rec'.message = rec.message
        /\ rec'.reviewCompleted = rec.reviewCompleted
    <3>1. CASE ReadPolicy
      BY <2>1, <3>1 DEF ReadPolicy, Record
    <3>2. CASE SaveCheckRunId
      BY <1>1, <2>1, <3>2 DEF SaveCheckRunId, Record, Operation
    <3>3. CASE AllocateSandbox
      BY <2>1, <3>3 DEF AllocateSandbox, Record
    <3>4. CASE RecoverProcess \/ SaveDeadline
      BY <2>1, <3>4 DEF RecoverProcess, SaveDeadline, Record
    <3> QED
      BY <1>3, <3>1, <3>2, <3>3, <3>4
  <2>3. UNCHANGED <<handled, claims>>
    BY <1>3 DEF ReadPolicy, SaveCheckRunId, AllocateSandbox, RecoverProcess, SaveDeadline
  <2> QED
    BY <2>1, <2>2, <2>3, SeenKept
<1>4. CASE TransitionRunning
  <2>1. rec \in Record /\ rec.state = "provisioning"
    BY <1>1, <1>4 DEF TransitionRunning, At, IInv, AwaitInv, StartSteps
  <2>2. rec' \in Record /\ rec'.state = "running" /\ rec'.message = rec.message
        /\ rec'.reviewCompleted = rec.reviewCompleted
    BY <1>4, <2>1, ContractStates DEF TransitionRunning, Record
  <2>3. UNCHANGED <<handled, claims>>
    BY <1>4 DEF TransitionRunning
  <2> QED
    BY <2>1, <2>2, <2>3, SeenKept, ContractStates
<1>5. CASE CreateCheckRun \/ RejectPolicy \/ StartProcess \/ SetAlarm \/ StartThrows \/ StartSettled
  <2>1. UNCHANGED <<durable, claims>>
    BY <1>5, Zenon DEF CreateCheckRun, RejectPolicy, StartProcess, SetAlarm, StartThrows, StartSettled
  <2> QED
    BY <2>1, SeenUnchanged DEF durable
<1> QED
  BY <1>2, <1>3, <1>4, <1>5 DEF StartStep

LEMMA StopStepSeen == ASSUME IInv, StopStep PROVE SeenNext
<1>1. rec \in Record \cup {None} /\ op \in Operation
  BY DEF IInv, TypeOK
<1>2. CASE CreateQueued
  <2>1. rec = None /\ op.message \in Messages
    BY <1>2 DEF CreateQueued, At, IInv, AwaitInv
  <2>2. rec' = NewRecord("queued", op.message, FALSE) /\ UNCHANGED <<handled, claims>>
        /\ op.kind = "failStart"
    BY <1>2 DEF CreateQueued, queuedRecord, NewRecord, At
  <2>3. rec' # None
    BY <2>1, <2>2, NewRecordType, ContractStates, NoneIsNoRecord
  <2>4. rec'.message = op.message /\ ~isTerminalState(rec'.state) /\ ~rec'.reviewCompleted
    BY <2>2, ContractStates DEF NewRecord
  <2>5. jobSeen.state = "absent"
    BY <2>1 DEF jobSeen
  <2>6. jobSeen' = [state |-> "live", message |-> op.message, handled |-> handled, reviewed |-> FALSE]
    BY <2>2, <2>3, <2>4 DEF jobSeen, Terminal
  <2>7. PICK w : w = [jobSeen EXCEPT !.state = "live", !.message = op.message]
    BY Zenon
  <2>8. jobSeen = [state |-> "absent", message |-> None, handled |-> handled, reviewed |-> FALSE]
    BY <2>1 DEF jobSeen
  <2>9. w = [state |-> "live", message |-> op.message, handled |-> handled, reviewed |-> FALSE]
    BY <2>7, <2>8
  <2> QED
    BY <2>1, <2>2, <2>5, <2>6, <2>7, <2>9, Zenon DEF SeenNext, SeenStep, givenUp
<1>3. CASE Tombstone
  <2>1. rec = None /\ UNCHANGED <<handled, claims>> /\ op.kind = "supersede"
    BY <1>3 DEF Tombstone, At, IInv, AwaitInv
  <2>2. rec' \in Record /\ rec'.message = None /\ rec'.state = "superseded" /\ ~rec'.reviewCompleted
    BY <1>3, ContractStates DEF Tombstone, NewRecord, Record
  <2>3. rec' # None /\ isTerminalState(rec'.state)
    BY <2>2, ContractStates, NoneIsNoRecord
  <2>4. jobSeen' = ended(jobSeen)
    BY <2>1, <2>2, <2>3 DEF jobSeen, ended, Terminal
  <2> QED
    BY <2>1, <2>4 DEF SeenNext, SeenStep
<1>4. CASE TransitionProvisioning
  <2>1. rec \in Record /\ rec.state = "queued"
    BY <1>1, <1>4 DEF TransitionProvisioning, At, IInv, AwaitInv
  <2>2. rec' \in Record /\ rec'.state = "provisioning" /\ rec'.message = rec.message
        /\ rec'.reviewCompleted = rec.reviewCompleted /\ UNCHANGED <<handled, claims>>
    BY <1>4, <2>1, ContractStates DEF TransitionProvisioning, Record
  <2> QED
    BY <2>1, <2>2, SeenKept, ContractStates
<1>5. CASE FlagObligations
  <2>1. rec \in Record
    BY <1>1, <1>5 DEF FlagObligations, At, IInv, AwaitInv, Live
  <2>2. rec' \in Record /\ rec'.state = rec.state /\ rec'.message = rec.message
        /\ rec'.reviewCompleted = rec.reviewCompleted /\ UNCHANGED <<handled, claims>>
    BY <1>5, <2>1 DEF FlagObligations, Record
  <2> QED
    BY <2>1, <2>2, SeenKept
<1>6. CASE MarkTerminal
  <2> DEFINE s == TargetState(op.kind)
  <2>1. rec \in Record /\ ~isTerminalState(rec.state)
    BY <1>1, <1>6 DEF MarkTerminal, At, IInv, AwaitInv, Live
  <2>2. s \in {"failed", "superseded", "timed_out"}
    BY DEF TargetState
  <2> HIDE DEF s
  <2>3. rec' = [rec EXCEPT !.state = s] /\ UNCHANGED <<handled, claims>>
    BY <1>6 DEF MarkTerminal, s
  <2>4. rec' \in Record /\ rec'.state = s /\ rec'.message = rec.message
        /\ rec'.reviewCompleted = rec.reviewCompleted
    BY <2>1, <2>2, <2>3, ContractStates DEF Record
  <2> QED
    BY <2>1, <2>2, <2>3, <2>4, SeenEnds, ContractStates
<1>7. CASE MarkThrows
  BY <1>7, SeenUnchanged DEF MarkThrows, durable
<1> QED
  BY <1>2, <1>3, <1>4, <1>5, <1>6, <1>7 DEF StopStep

LEMMA PublishStepSeen == ASSUME IInv, PublishStep PROVE SeenNext
<1>1. rec \in Record \cup {None} /\ op \in Operation
  BY DEF IInv, TypeOK
<1>2. CASE PollEnded
  <2>1. rec \in Record /\ rec.state = "running"
    BY <1>1, <1>2 DEF PollEnded, At, IInv, AwaitInv, Live
  <2>2. rec' \in Record /\ rec'.state = "publishing" /\ rec'.message = rec.message
        /\ rec'.reviewCompleted = rec.reviewCompleted /\ UNCHANGED <<handled, claims>>
    BY <1>2, <2>1, ContractStates DEF PollEnded, Record
  <2> QED
    BY <2>1, <2>2, SeenKept, ContractStates
<1>3. CASE Collect
  <2>1. rec \in Record /\ UNCHANGED <<handled, claims>>
    BY <1>1, <1>3 DEF Collect, At, IInv, AwaitInv
  <2>2. rec' \in {rec, [rec EXCEPT !.diagnosticsFinalized = TRUE]}
    BY <1>3 DEF Collect, PersistDiagnostics
  <2>3. rec' \in Record /\ rec'.state = rec.state /\ rec'.message = rec.message
        /\ rec'.reviewCompleted = rec.reviewCompleted
    BY <2>1, <2>2 DEF Record
  <2> QED
    BY <2>1, <2>3, SeenKept
<1>4. CASE Conclude
  <2>1. rec \in Record /\ rec.state = "publishing" /\ op.verdict \in Verdicts
    BY <1>1, <1>4 DEF Conclude, At, IInv, AwaitInv
  <2>9. UNCHANGED <<handled, claims>>
    BY <1>4 DEF Conclude
  <2>2. (rec.reviewCompleted \/ op.verdict.reviewed) \in BOOLEAN
    OBVIOUS
  <2>3. rec' \in Record
    <3> DEFINE c == op.verdict.conclusion
               b == rec.sandboxId # None
               d == rec.reviewCompleted \/ op.verdict.reviewed
    <3>1. c \in {"success", "failure", "neutral"} /\ b \in BOOLEAN /\ d \in BOOLEAN
      BY <2>1, <2>2 DEF Verdicts, Conclusions
    <3>2. rec' = [rec EXCEPT !.conclusion = c, !.cleanupPending = b, !.reviewCompleted = d]
      BY <1>4 DEF Conclude
    <3> HIDE DEF c, b, d
    <3> QED
      BY <2>1, <3>1, <3>2 DEF Record
  <2>4. rec'.state = "publishing" /\ rec'.message = rec.message
        /\ (rec'.reviewCompleted <=> rec.reviewCompleted \/ op.verdict.reviewed)
    BY <1>4, <2>1 DEF Conclude, Record
  <2>5. rec # None /\ rec' # None /\ ~isTerminalState("publishing")
    BY <2>1, <2>3, NoneIsNoRecord, ContractStates
  <2>6. rec.reviewCompleted \in BOOLEAN /\ rec'.reviewCompleted \in BOOLEAN
    BY <2>1, <2>3 DEF Record
  <2>7. CASE op.verdict.reviewed
    <3>1. jobSeen' = concluded(jobSeen) /\ jobSeen.state = "live"
      <4>1. rec'.reviewCompleted = TRUE /\ jobSeen.state = "live"
        BY <2>1, <2>4, <2>5, <2>6, <2>7 DEF jobSeen, Terminal
      <4>2. ~Terminal /\ ~Terminal' /\ handled' = handled /\ rec'.message = rec.message
        BY <2>1, <2>4, <2>5, <2>9 DEF Terminal
      <4>3. jobSeen' = [state |-> "live", message |-> rec.message, handled |-> handled,
                        reviewed |-> TRUE]
        BY <2>5, <4>1, <4>2, Zenon DEF jobSeen
      <4>4. jobSeen = [state |-> "live", message |-> rec.message, handled |-> handled,
                       reviewed |-> rec.reviewCompleted]
        BY <2>5, <2>6, <4>2 DEF jobSeen
      <4>5. \A n, h, r, v :
              [[state |-> "live", message |-> n, handled |-> h, reviewed |-> r] EXCEPT !.reviewed = v]
                = [state |-> "live", message |-> n, handled |-> h, reviewed |-> v]
        OBVIOUS
      <4>6. concluded(jobSeen) = jobSeen'
        BY <4>3, <4>4, <4>5, Zenon DEF concluded
      <4> QED
        BY <4>1, <4>6
    <3> QED
      BY <2>9, <3>1 DEF SeenNext, SeenStep
  <2>8. CASE ~op.verdict.reviewed
    BY <2>1, <2>3, <2>4, <2>6, <2>8, <2>9, SeenKept
  <2> QED
    BY <2>7, <2>8
<1>5. CASE Close
  <2>1. rec \in Record /\ rec.state = "publishing" /\ op.verdict \in Verdicts
    BY <1>1, <1>5 DEF Close, At, IInv, AwaitInv
  <2>2. op.verdict.terminalState \in {"completed", "failed"}
    BY <2>1 DEF Verdicts
  <2>3. rec' = [rec EXCEPT !.state = op.verdict.terminalState] /\ UNCHANGED <<handled, claims>>
    BY <1>5 DEF Close
  <2>4. rec' \in Record /\ rec'.state = op.verdict.terminalState
        /\ rec'.message = rec.message /\ rec'.reviewCompleted = rec.reviewCompleted
    BY <2>1, <2>2, <2>3, ContractStates DEF Record
  <2> QED
    BY <2>1, <2>2, <2>3, <2>4, SeenEnds, ContractStates
<1>6. CASE PollThrows \/ PollHealthy \/ ReportCheck \/ ReportThrows
  BY <1>6, SeenUnchanged DEF PollThrows, PollHealthy, ReportCheck, ReportThrows, durable
<1> QED
  BY <1>2, <1>3, <1>4, <1>5, <1>6 DEF PublishStep

LEMMA SettleStepSeen == ASSUME IInv, SettleStep PROVE SeenNext
<1>1. rec \in Record \cup {None}
  BY DEF IInv, TypeOK
<1>2. CASE \/ DestroySandbox \/ DestroyFails \/ RearmCleanup
           \/ UpdateNeutral \/ UpdateNeutralFails \/ RearmCheck \/ Settled
  BY <1>2, SeenUnchanged DEF DestroySandbox, DestroyFails, RearmCleanup, UpdateNeutral,
     UpdateNeutralFails, RearmCheck, Settled, durable
<1>3. CASE Diagnose \/ SaveDestroyed \/ SaveUndestroyed
  <2>1. rec \in Record /\ UNCHANGED <<handled, claims>>
    BY <1>1, <1>3 DEF Diagnose, SaveDestroyed, SaveUndestroyed, At, IInv, AwaitInv, Terminal
  <2>2. rec' \in {rec, [rec EXCEPT !.diagnosticsFinalized = TRUE],
                 [rec EXCEPT !.cleanupPending = FALSE], [rec EXCEPT !.cleanupPending = TRUE]}
    BY <1>3 DEF Diagnose, PersistDiagnostics, SaveDestroyed, SaveUndestroyed
  <2>3. rec' \in Record /\ rec'.state = rec.state /\ rec'.message = rec.message
        /\ rec'.reviewCompleted = rec.reviewCompleted
    BY <2>1, <2>2 DEF Record
  <2> QED
    BY <2>1, <2>3, SeenKept
<1>4. CASE SaveNeutral \/ SaveOwed
  <2>1. rec \in Record /\ UNCHANGED <<handled, claims>>
    BY <1>1, <1>4 DEF SaveNeutral, SaveOwed, At, IInv, AwaitInv, Terminal
  <2>2. \/ rec' = [rec EXCEPT !.conclusion = "neutral", !.checkUpdatePending = FALSE]
        \/ rec' = [rec EXCEPT !.conclusion = "neutral", !.checkUpdatePending = TRUE]
    BY <1>4 DEF SaveNeutral, SaveOwed
  <2>3. rec' \in Record /\ rec'.state = rec.state /\ rec'.message = rec.message
        /\ rec'.reviewCompleted = rec.reviewCompleted
    BY <2>1, <2>2 DEF Record
  <2> QED
    BY <2>1, <2>3, SeenKept
<1> QED
  BY <1>2, <1>3, <1>4 DEF SettleStep

LEMMA NextSeen == ASSUME IInv, [Next]_vars PROVE SeenNext
<1>1. CASE OpStep
  BY <1>1, StartStepSeen, StopStepSeen, PublishStepSeen, SettleStepSeen DEF OpStep
<1>2. ASSUME NEW m \in Messages, start(m) \/ failStart(m) PROVE SeenNext
  BY <1>2, SeenUnchanged DEF start, failStart, durable
<1>3. CASE supersede \/ BeginAlarm \/ Environment
  BY <1>3, SeenUnchanged DEF supersede, BeginAlarm, Environment, AlarmFires, Evict, ReviewExits,
     ContainerLost, DeadlinePasses, durable
<1>4. CASE UNCHANGED vars
  BY <1>4, SeenUnchanged DEF vars
<1> QED
  BY <1>1, <1>2, <1>3, <1>4 DEF Next

(* Whatever a head's object does, interleaved with evictions, retries and lost responses,    *)
(* its callers see it take no step but those from which Webhook composes the jobs of all      *)
(* heads, and a delivery claims an execution exactly when those steps say it may start:       *)
(* what is proved of that composition holds of the object modelled here await by await.       *)
THEOREM JobAsCallersSeeIt == Spec => SeenByCallers
<1>1. Init => jobSeen = newJob /\ IInv
  BY InitInv DEF Init, jobSeen, newJob
<1>2. IInv /\ [Next]_vars => IInv' /\ [SeenStep]_<<jobSeen, claims>>
  BY NextInv, NextSeen DEF SeenNext
<1> QED
  BY <1>1, <1>2, PTL DEF Spec, SeenByCallers

=============================================================================
