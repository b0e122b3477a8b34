----------------------------- MODULE ReviewQueue -----------------------------
(***************************************************************************)
(* The queue consumer of cloud/worker/src/queue-consumer.ts around one      *)
(* review job: the platform delivers a message at least once, the consumer  *)
(* calls start and acknowledges, or asks for a retry; the last attempt that  *)
(* fails calls failStart before the message goes to the dead-letter queue,   *)
(* which nobody reads.  A newer head of the pull request supersedes the job. *)
(***************************************************************************)
EXTENDS ReviewJob

CONSTANT LostAttempts  \* attempts in which the consumer itself may be lost

VARIABLES
  queue,  \* per message: where it is, and how often it was delivered
  newer   \* the supersession a newer head asks for

queueVars == <<queue, newer>>
allVars   == <<vars, queueVars>>

FINAL_DELIVERY_ATTEMPT == 4

QueueInit ==
  /\ Init
  /\ queue = [m \in Messages |-> [status |-> "unsent", attempts |-> 0]]
  /\ newer = "none"

Moves(m, from, to) ==
  /\ queue[m].status = from
  /\ queue' = [queue EXCEPT ![m].status = to]

(* The webhook accepted an event and sent the message.                        *)
Send(m) == Moves(m, "unsent", "waiting") /\ UNCHANGED <<vars, newer>>

(* Faulty variants: the last attempt is not recognized, and a failed start is      *)
(* acknowledged.                                                              *)
NeverFinal(attempts) == "waiting"

AckOnFailure(attempts) == "acked"

(* A failed attempt is retried; the last one finalizes the job first.          *)
AfterFailure(attempts) ==
  IF attempts >= FINAL_DELIVERY_ATTEMPT THEN "finalize" ELSE "waiting"

Deliver(m) ==
  /\ queue[m].status = "waiting"
  /\ queue' = [queue EXCEPT ![m] = [status |-> "starting", attempts |-> @.attempts + 1]]
  /\ start(m)
  /\ UNCHANGED newer

(* The supersession of the previous head throws before start is called.        *)
DeliverThrows(m) ==
  /\ queue[m].status = "waiting" /\ Fault
  /\ LET n == queue[m].attempts + 1 IN
       queue' = [queue EXCEPT ![m] = [status |-> AfterFailure(n), attempts |-> n]]
  /\ UNCHANGED <<durable, alarms, op, late, checks, sandbox, claims, newer>>

Finalize(m) ==
  /\ Moves(m, "finalize", "finalizing")
  /\ failStart(m)
  /\ UNCHANGED newer

(* The consumer is gone; the platform counts the attempt and redelivers, or       *)
(* gives up without failStart.  The operation it called goes on.                *)
ConsumerLost(m) ==
  /\ Fault /\ queue[m].attempts \in LostAttempts
  /\ \/ Moves(m, "starting", IF queue[m].attempts >= FINAL_DELIVERY_ATTEMPT
                               THEN "dead" ELSE "waiting")
     \/ Moves(m, "finalizing", "dead")
  /\ UNCHANGED <<durable, alarms, op, late, checks, sandbox, claims, newer>>

(* The answer of the operation that ends reaches its caller.                   *)
Answer ==
  LET m == op.message
      ends == op.step \notin EndSteps /\ op'.step \in EndSteps
  IN
  /\ queue' =
       IF ends /\ op.kind = "start" /\ queue[m].status = "starting"
         THEN [queue EXCEPT ![m].status = IF op'.step = "returned" THEN "acked"
                                          ELSE AfterFailure(queue[m].attempts)]
       ELSE IF ends /\ op.kind = "failStart" /\ queue[m].status = "finalizing"
         THEN [queue EXCEPT ![m].status = "dead"]
       ELSE queue
  /\ IF ends /\ op.kind = "supersede"
       THEN newer' \in (IF op'.step = "returned" THEN {"done"} ELSE {"wanted", "done"})
       ELSE newer' = newer

JobStep == (BeginAlarm \/ OpStep \/ Environment) /\ Answer

(* The consumer of the newer head retries supersede; the webhook that skips a     *)
(* newer head calls it once.                                                   *)
NewHead == newer = "none" /\ newer' = "wanted" /\ UNCHANGED <<vars, queue>>

Supersede ==
  /\ newer = "wanted" /\ newer' = "calling"
  /\ supersede
  /\ UNCHANGED queue

QueueNext == \/ \E m \in Messages : \/ Send(m) \/ Deliver(m) \/ DeliverThrows(m)
                                    \/ Finalize(m) \/ ConsumerLost(m)
             \/ JobStep
             \/ NewHead \/ Supersede

(* Awaits return, alarms fire, waiting operations get their turn in the promise   *)
(* chain, the queue redelivers what is not acknowledged, and time passes.  That   *)
(* a review process ends is not assumed.                                       *)
Fairness ==
  /\ WF_allVars(OpStep /\ Answer)
  /\ WF_allVars(AlarmFires /\ Answer)
  /\ WF_allVars(DeadlinePasses /\ Answer)
  /\ SF_allVars(BeginAlarm /\ Answer)
  /\ \A m \in Messages : SF_allVars(Deliver(m)) /\ SF_allVars(Finalize(m))
  /\ SF_allVars(Supersede)

QueueSpec == QueueInit /\ [][QueueNext]_allVars

FairQueueSpec == QueueSpec /\ Fairness

-----------------------------------------------------------------------------
(* Properties.                                                               *)

QueueTypeOK ==
  /\ queue \in [Messages ->
       [status   : {"unsent", "waiting", "starting", "finalize", "finalizing", "acked", "dead"},
        attempts : 0 .. FINAL_DELIVERY_ATTEMPT]]
  /\ newer \in {"none", "wanted", "calling", "done"}

(* Nothing is dropped silently: a message is acknowledged only when the job it      *)
(* asked for has been claimed or its identity was already handled.               *)
AckedIsHandled ==
  \A m \in Messages : queue[m].status = "acked" => deliveryIdentity(m) \in handled

(* A job that has not started is pursued: the queue holds the very message that      *)
(* claimed it, to deliver it again or to finalize the job.  Neither an early           *)
(* acknowledgement nor the dead-letter queue, which nobody reads, leaves a job in      *)
(* provisioning with an open check that nothing would ever close.                  *)
StartIsPursued ==
  rec # None /\ rec.state \in {"queued", "provisioning"} /\ op.step \in EndSteps
    => queue[rec.message].status \in {"waiting", "finalize"}

(* No job is stranded, in whatever state the failures leave it: the queue pursues its     *)
(* start, an alarm polls its work, an alarm retries its debts.  It fails at the very       *)
(* moment nobody is left who would move a job that cannot end.                      *)
NeverStranded == StartIsPursued /\ WorkIsPolled /\ DebtIsRetried

(* Once the work of a job has begun it reaches a terminal state: "schedule one       *)
(* alarm at 30-second intervals while work remains" (cloud-a1-review-pipeline       *)
(* spec.md:75).                                                               *)
EventuallyTerminal == Live ~> Terminal

(* A terminal job does not stay in debt: the sandbox is destroyed and the check       *)
(* completed, through failed calls and evictions.                               *)
EventuallySettled == Terminal ~> (Terminal /\ ~Pending)

=============================================================================
