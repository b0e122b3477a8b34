----------------------------- MODULE WebhookProofs -----------------------------
(***************************************************************************)
(* Proofs about Webhook, for any heads, comments, policy files, results of a *)
(* review and checks of other pull requests, and any number of deliveries.   *)
(***************************************************************************)
EXTENDS Webhook, FiniteSetTheorems, TLAPS

Steps == {"status", "pin", "supersede", "check", "send"}

Identities == {deliveryIdentity(m) : m \in Messages}

JobRecord == [state : {"absent", "live", "ended"}, message : Messages \cup {None},
              handled : SUBSET Identities, reviewed : BOOLEAN]

(* An event of the pull request, as the handlers read it.                         *)
EventOK(e) ==
  /\ e.delivery \in 1 .. MaxEvents
  /\ e.before \in Heads \cup {None}
  /\ e.event \in {"pull_request", "check_run"} => e.head \in Heads
  /\ e.before # None => e.event = "pull_request" /\ e.head # e.before
  /\ e.event \in Surfaces => e.comment \in Comments /\ e.comment.surface = e.event

HandlerRecord ==
  [event : events, step : Steps, message : Messages, reason : Skips \cup {None}]

Types ==
  /\ head \in Heads /\ done \subseteq Heads
  /\ IsFiniteSet(events) /\ \A e \in events : EventOK(e)
  /\ handlers \subseteq HandlerRecord
  /\ answered \subseteq events /\ ready \subseteq queue /\ queue \subseteq Messages
  /\ pins \in [Comments -> Messages \cup {None}]
  /\ claims \in [Comments -> Nat]
  /\ checks \in [Heads -> SUBSET CheckRun]
  /\ job \in [Heads -> JobRecord]
  /\ \A h \in Heads :
       /\ job[h].state = "live" => job[h].message # None /\ job[h].message.head = h
       /\ job[h].reviewed => h \in done

(* What each handler holds: the message of its event, and a step that goes with it. *)
HandlerOK(x) ==
  /\ x.message.previousHead = x.event.before
  /\ x.message.source = "automatic" =>
       /\ x.message.head = x.event.head /\ x.event.event \notin Surfaces
       /\ x.step \in {"supersede", "check", "send"}
       /\ x.step = "supersede" => Supersedes(x.message)
  /\ x.message.source = "mention" =>
       /\ x.event.event \in Surfaces /\ Asks(x.message, x.event.comment)
       /\ x.step \in {"status", "pin", "send"} /\ x.reason = None

Handled ==
  /\ \A x \in handlers : HandlerOK(x)
  /\ \A c \in Comments : pins[c] # None => Asks(pins[c], c) /\ pins[c].previousHead = None

-----------------------------------------------------------------------------
(* The operators the actions are built from.                                    *)

(* Whatever the file says, the policy in use says whether heads are deduplicated.  *)
LEMMA DedupeIsBoolean ==
  ASSUME NEW read \in PolicyRead
  PROVE  read.policy.dedupe_same_head \in BOOLEAN
<1>1. defaultTriggersPolicy.dedupe_same_head = TRUE
  BY DEF defaultTriggersPolicy
<1>2. ASSUME NEW doc, validTriggers(doc)
      PROVE  parseTriggersPolicy(doc).dedupe_same_head \in BOOLEAN
  <2>1. "dedupe_same_head" \in DOMAIN defaultTriggersPolicy
    BY DEF defaultTriggersPolicy
  <2>2. parseTriggersPolicy(doc).dedupe_same_head =
          OrDefault(doc, defaultTriggersPolicy)["dedupe_same_head"]
    BY <2>1 DEF parseTriggersPolicy
  <2>3. OrDefault(doc, defaultTriggersPolicy)["dedupe_same_head"] =
          IF "dedupe_same_head" \in DOMAIN doc THEN doc["dedupe_same_head"] ELSE TRUE
    BY <1>1, <2>1 DEF OrDefault
  <2>4. ASSUME "dedupe_same_head" \in DOMAIN doc
        PROVE  doc["dedupe_same_head"] \in BOOLEAN
    <3> DEFINE given == [key \in DOMAIN doc \cap DOMAIN Switches |-> doc[key]]
    <3>1. Conforms(given, {}, Switches)
      BY <1>2 DEF validTriggers
    <3>2. "dedupe_same_head" \in DOMAIN Switches /\ Switches["dedupe_same_head"] = BOOLEAN
      BY DEF Switches
    <3>3. "dedupe_same_head" \in DOMAIN given
      BY <2>4, <3>2
    <3>4. given["dedupe_same_head"] = doc["dedupe_same_head"]
      BY <3>3
    <3> HIDE DEF given
    <3> QED
      BY <3>1, <3>2, <3>3, <3>4, Zenon DEF Conforms
  <2> QED
    BY <2>2, <2>3, <2>4, Zenon
<1>3. getTriggerPolicy(file).policy.dedupe_same_head \in BOOLEAN
  <2> DEFINE triggers == Sub(file.doc, "triggers")
  <2>1. \/ getTriggerPolicy(file).policy = defaultTriggersPolicy
        \/ /\ validTriggers(triggers)
           /\ getTriggerPolicy(file).policy = parseTriggersPolicy(triggers)
    BY DEF getTriggerPolicy, parsesTriggersYaml
  <2> HIDE DEF triggers
  <2> QED
    BY <1>1, <1>2, <2>1, Zenon
<1>4. read = getTriggerPolicy(file) \/ read.policy = defaultTriggersPolicy
  BY DEF PolicyRead
<1> QED
  BY <1>1, <1>3, <1>4, Zenon

(* The fields of the message of an event.                                       *)
LEMMA MessageFields ==
  ASSUME NEW e, NEW source, NEW name, NEW comment, NEW sha, NEW dedupe
  PROVE  LET m == Message(e, source, name, comment, sha, dedupe) IN
         /\ m.source = source /\ m.event = name /\ m.comment = comment /\ m.head = sha
         /\ m.previousHead = e.before
BY DEF Message

LEMMA MessageIsTyped ==
  ASSUME NEW e, EventOK(e), NEW source \in {"automatic", "mention"},
         NEW name \in {"pull_request", "check_run.rerequested"} \cup Surfaces,
         NEW comment \in {c.id : c \in Comments} \cup {None}, NEW sha \in Heads,
         NEW dedupe \in BOOLEAN
  PROVE  Message(e, source, name, comment, sha, dedupe) \in Messages
BY DEF Message, Messages, EventOK

(* What supersede leaves of the jobs.                                             *)
LEMMA SupersedeEffect ==
  ASSUME Types, NEW sha \in Heads, supersede(sha)
  PROVE  /\ job' \in [Heads -> JobRecord]
         /\ \A h \in Heads :
              /\ job'[h].handled = job[h].handled /\ job'[h].message = job[h].message
              /\ job'[h].state = IF h = sha THEN "ended" ELSE job[h].state
              /\ job'[h].reviewed = job[h].reviewed
BY DEF supersede, ended, Types, JobRecord

(* What a start leaves of a job: the message stays or is one of the same execution,   *)
(* unless the start claims a new one.                                           *)
LEMMA StartedEffect ==
  ASSUME NEW j \in JobRecord, NEW m \in Messages, NEW k \in started(j, m)
  PROVE  /\ k \in JobRecord
         /\ j.handled \subseteq k.handled /\ deliveryIdentity(m) \in k.handled
         /\ k.reviewed = j.reviewed
         /\ k.state = IF mayStart(j, m) THEN "live" ELSE j.state
         /\ k.message = m \/ (k.message = j.message /\ ~mayStart(j, m))
<1> DEFINE seen == {deliveryIdentity(n) : n \in {m, j.message} \ {None}}
           handled == [j EXCEPT !.handled = @ \cup seen]
           working == [handled EXCEPT !.state = "live", !.message = m]
<1>1. seen \subseteq Identities /\ deliveryIdentity(m) \in seen
  BY NoneIsNoMessage DEF JobRecord, Identities
<1>2. \/ k = working /\ (mayStart(j, m) \/ j.state = "live")
      \/ k = handled /\ ~mayStart(j, m)
  BY DEF started
<1> HIDE DEF seen
<1> QED
  BY <1>1, <1>2 DEF JobRecord

(* What a start leaves of the jobs and of the comments' executions.                 *)
LEMMA ClaimEffect ==
  ASSUME Types, NEW m \in Messages, Claim(m)
  PROVE  /\ job' \in [Heads -> JobRecord] /\ claims' \in [Comments -> Nat]
         /\ \A h \in Heads :
              /\ job[h].handled \subseteq job'[h].handled
              /\ job'[h].reviewed = job[h].reviewed
              /\ job'[h].state = IF h = m.head /\ Fresh(m) THEN "live" ELSE job[h].state
              /\ \/ h = m.head /\ job'[h].message = m
                 \/ job'[h].message = job[h].message /\ (h # m.head \/ ~Fresh(m))
         /\ deliveryIdentity(m) \in job'[m.head].handled
         /\ \A c \in Comments :
              claims'[c] = IF Fresh(m) /\ Asks(m, c) THEN claims[c] + 1 ELSE claims[c]
         /\ kept \subseteq kept'
         /\ Fresh(m) /\ job[m.head].state = "ended" => <<"restarted", m.head>> \in kept'
<1>1. m.head \in Heads /\ job[m.head] \in JobRecord
  BY DEF Types, Messages
<1>2. PICK k \in started(job[m.head], m) : job' = [job EXCEPT ![m.head] = k]
  BY DEF Claim
<1>3. /\ k \in JobRecord
      /\ job[m.head].handled \subseteq k.handled /\ deliveryIdentity(m) \in k.handled
      /\ k.reviewed = job[m.head].reviewed
      /\ k.state = IF Fresh(m) THEN "live" ELSE job[m.head].state
      /\ k.message = m \/ (k.message = job[m.head].message /\ ~Fresh(m))
  BY <1>1, StartedEffect DEF Fresh
<1>4. claims' \in [Comments -> Nat]
  BY DEF Claim, Types
<1>5. \A c \in Comments :
        claims'[c] = IF Fresh(m) /\ Asks(m, c) THEN claims[c] + 1 ELSE claims[c]
  BY DEF Claim, Types
<1>6. /\ kept \subseteq kept'
      /\ Fresh(m) /\ job[m.head].state = "ended" => <<"restarted", m.head>> \in kept'
  BY <1>1 DEF Claim
<1> QED
  BY <1>1, <1>2, <1>3, <1>4, <1>5, <1>6 DEF Types

(* A message that is given up leaves a job that was there as it is.                  *)
LEMMA ExhaustedEffect ==
  ASSUME Types, NEW m \in Messages, Exhausted(m)
  PROVE  /\ job' \in [Heads -> JobRecord]
         /\ \A h \in Heads :
              /\ job'[h].handled = job[h].handled /\ job'[h].reviewed = job[h].reviewed
              /\ \/ job'[h] = job[h]
                 \/ /\ h = m.head /\ job[h].state = "absent"
                    /\ job'[h].state = "live" /\ job'[h].message = m
<1>1. m.head \in Heads /\ job[m.head] \in JobRecord
  BY DEF Types, Messages
<1>2. PICK k \in givenUp(job[m.head], m) : job' = [job EXCEPT ![m.head] = k]
  BY DEF Exhausted
<1>3. /\ k \in JobRecord /\ k.handled = job[m.head].handled /\ k.reviewed = job[m.head].reviewed
      /\ \/ k = job[m.head]
         \/ job[m.head].state = "absent" /\ k.state = "live" /\ k.message = m
  BY <1>1, <1>2 DEF givenUp, JobRecord
<1> QED
  BY <1>1, <1>2, <1>3 DEF Types

(* What the end of a job, and its review, leave of the jobs.                         *)
LEMMA JobsEffect ==
  ASSUME Types, NEW sha \in Heads, SaveReview(sha) \/ JobEnds(sha)
  PROVE  /\ job' \in [Heads -> JobRecord]
         /\ \A h \in Heads :
              /\ job'[h].handled = job[h].handled /\ job'[h].message = job[h].message
              /\ job'[h].state = job[h].state \/ job'[h].state = "ended"
              /\ job'[h].reviewed => job[h].reviewed \/ h \in done
<1>1. CASE SaveReview(sha)
  <2>1. sha \in done /\ job' = [job EXCEPT ![sha] = concluded(job[sha])]
    BY <1>1 DEF SaveReview
  <2>2. job[sha] \in JobRecord
    BY DEF Types
  <2>3. /\ concluded(job[sha]) \in JobRecord
        /\ concluded(job[sha]).handled = job[sha].handled
        /\ concluded(job[sha]).message = job[sha].message
        /\ concluded(job[sha]).state = job[sha].state
    BY <2>2 DEF concluded, JobRecord
  <2> QED
    BY <2>1, <2>3 DEF Types
<1>2. CASE JobEnds(sha)
  BY <1>2, SupersedeEffect DEF JobEnds
<1> QED
  BY <1>1, <1>2

-----------------------------------------------------------------------------
(* Types.                                                                     *)

LEMMA InitTypes == Init => Types
<1> SUFFICES ASSUME Init PROVE Types
  OBVIOUS
<1>1. newJob \in JobRecord
  BY DEF newJob, JobRecord
<1>2. IsFiniteSet(events)
  BY FS_EmptySet DEF Init
<1> QED
  BY <1>1, <1>2, ForeignAssumption DEF Init, Types, newJob

(* An event that GitHub adds to the ones there are.                               *)
LEMMA NewEvent ==
  ASSUME NEW event, NEW action, NEW sha, NEW before, NEW comment,
         Deliver(event, action, sha, before, comment)
  PROVE  \E e : /\ events' = events \cup {e} /\ e.delivery = Cardinality(events) + 1
                /\ e.event = event /\ e.head = sha /\ e.before = before /\ e.comment = comment
<1>1. PICK metadata \in Metadata, draft \in {FALSE, event = "pull_request"} :
        events' = events \cup
          {[event |-> event, action |-> action, head |-> sha, before |-> before,
            draft |-> draft, metadata |-> metadata, comment |-> comment,
            delivery |-> Cardinality(events) + 1]}
  BY DEF Deliver
<1> DEFINE e == [event |-> event, action |-> action, head |-> sha, before |-> before,
                 draft |-> draft, metadata |-> metadata, comment |-> comment,
                 delivery |-> Cardinality(events) + 1]
<1>2. /\ e.delivery = Cardinality(events) + 1 /\ e.event = event /\ e.head = sha
      /\ e.before = before /\ e.comment = comment
  OBVIOUS
<1>3. events' = events \cup {e}
  BY <1>1, Zenon
<1> HIDE DEF e
<1> QED
  BY <1>2, <1>3

LEMMA DeliverTypes ==
  ASSUME Types, NEW event, NEW action, NEW sha, NEW before \in Heads \cup {None}, NEW comment,
         Deliver(event, action, sha, before, comment), head' \in Heads,
         event \in {"pull_request", "check_run"} => sha \in Heads,
         before # None => event = "pull_request" /\ sha # before,
         event \in Surfaces => comment \in Comments /\ comment.surface = event
  PROVE  Types'
<1>1. PICK e : /\ events' = events \cup {e} /\ e.delivery = Cardinality(events) + 1
               /\ e.event = event /\ e.head = sha /\ e.before = before /\ e.comment = comment
  BY NewEvent
<1>2. Cardinality(events) \in Nat /\ Cardinality(events) < MaxEvents
  BY FS_CardinalityType DEF Types, Deliver
<1>3. EventOK(e)
  BY <1>1, <1>2, BoundsAssumption DEF EventOK
<1>4. IsFiniteSet(events')
  BY <1>1, FS_AddElement DEF Types
<1>5. \A d \in events' : EventOK(d)
  BY <1>1, <1>3 DEF Types
<1>6. HandlerRecord \subseteq HandlerRecord'
  BY <1>1 DEF HandlerRecord
<1>7. /\ UNCHANGED <<done, handlers, answered, ready, queue, pins, claims, checks, job>>
      /\ events \subseteq events'
  BY <1>1 DEF Deliver, job_
<1> QED
  BY <1>4, <1>5, <1>6, <1>7 DEF Types, EventOK

LEMMA GitHubTypes == ASSUME Types, GitHub PROVE Types'
<1>1. ASSUME NEW action, Announced(action) PROVE Types'
  BY <1>1, DeliverTypes DEF Announced, Types, Surfaces, DEFAULT_MENTION_SURFACES
<1>2. ASSUME NEW sha \in Heads, Push(sha) PROVE Types'
  BY <1>2, DeliverTypes DEF Push, Types, Surfaces, DEFAULT_MENTION_SURFACES
<1>3. CASE Rerequested
  BY <1>3, DeliverTypes DEF Rerequested, Types, Surfaces, DEFAULT_MENTION_SURFACES
<1>4. ASSUME NEW comment \in Comments, Commented(comment) PROVE Types'
  BY <1>4, DeliverTypes, CommentsAssumption
     DEF Commented, Types, Surfaces, DEFAULT_MENTION_SURFACES
<1> QED
  BY <1>1, <1>2, <1>3, <1>4 DEF GitHub

(* What a message is, in the handler of its event.                               *)
LEMMA ReceiveTypes ==
  ASSUME Types, NEW event \in events,
         \/ ReceiveDraft(event) \/ ReceivePull(event) \/ ReceiveRerequest(event)
         \/ ReceiveMention(event) \/ RejectMention(event)
  PROVE  Types'
<1> USE DEF Types, github, job_
<1>0. EventOK(event) /\ head \in Heads
  OBVIOUS
<1>1. CASE ReceiveDraft(event) \/ RejectMention(event)
  BY <1>1 DEF ReceiveDraft, RejectMention, HandlerRecord, EventOK
<1>2. ASSUME NEW x \in HandlerRecord, handlers' = handlers \cup {x},
             UNCHANGED <<github, answered, pins, queue, ready, job_>>
      PROVE  Types'
  BY <1>2 DEF HandlerRecord, EventOK
<1>3. ASSUME NEW step \in Steps, NEW message \in Messages, NEW reason \in Skips \cup {None}
      PROVE  Handler(event, step, message, reason) \in HandlerRecord
  BY <1>3 DEF Handler, HandlerRecord
<1>4. CASE ReceivePull(event)
  <2>1. PICK read \in PolicyRead, storeRead \in BOOLEAN, checksRead \in BOOLEAN :
          LET reason == skipReason(read, event, completedHead(event.head, storeRead, checksRead))
              message == Message(event, "automatic", "pull_request", None, event.head,
                                 read.failure \/ read.policy.dedupe_same_head)
              step == IF reason = None THEN "send"
                      ELSE IF Supersedes(message) THEN "supersede" ELSE "check"
          IN handlers' = handlers \cup {Handler(event, step, message, reason)}
    BY <1>4 DEF ReceivePull
  <2> DEFINE reason == skipReason(read, event, completedHead(event.head, storeRead, checksRead))
             dedupe == read.failure \/ read.policy.dedupe_same_head
             message == Message(event, "automatic", "pull_request", None, event.head, dedupe)
             step == IF reason = None THEN "send"
                     ELSE IF Supersedes(message) THEN "supersede" ELSE "check"
  <2>2. reason \in Skips \cup {None}
    BY DEF skipReason, Skips
  <2>3. dedupe \in BOOLEAN
    BY Zenon
  <2>4. event.head \in Heads
    BY <1>0, <1>4 DEF ReceivePull, EventOK
  <2>5. message \in Messages
    <3> HIDE DEF dedupe
    <3> QED
      BY <1>0, <2>3, <2>4, MessageIsTyped
  <2>6. step \in Steps
    BY DEF Steps
  <2>7. handlers' = handlers \cup {Handler(event, step, message, reason)}
    BY <2>1, Zenon
  <2> HIDE DEF reason, message, step
  <2> QED
    BY <1>2, <1>3, <1>4, <2>2, <2>5, <2>6, <2>7 DEF ReceivePull
<1>5. CASE ReceiveRerequest(event)
  <2> DEFINE message == Message(event, "automatic", "check_run.rerequested", None, event.head, TRUE)
  <2>1. event.head \in Heads
    BY <1>0, <1>5 DEF ReceiveRerequest, EventOK
  <2>2. message \in Messages
    BY <1>0, <2>1, MessageIsTyped
  <2>3. handlers' = handlers \cup {Handler(event, "send", message, None)}
    BY <1>5 DEF ReceiveRerequest
  <2> HIDE DEF message
  <2> QED
    BY <1>2, <1>3, <1>5, <2>2, <2>3 DEF ReceiveRerequest, Steps
<1>6. CASE ReceiveMention(event)
  <2> DEFINE message == Message(event, "mention", event.event, event.comment.id, head, TRUE)
  <2>1. event.event \in Surfaces /\ event.comment \in Comments
    BY <1>0, <1>6 DEF ReceiveMention, EventOK
  <2>2. message \in Messages
    BY <1>0, <2>1, MessageIsTyped
  <2>3. handlers' = handlers \cup {Handler(event, "status", message, None)}
    BY <1>6 DEF ReceiveMention
  <2> HIDE DEF message
  <2> QED
    BY <1>2, <1>3, <1>6, <2>2, <2>3 DEF ReceiveMention, Steps
<1> QED
  BY <1>1, <1>4, <1>5, <1>6

(* The record of a handler that moves on.                                         *)
LEMMA AdvanceTypes ==
  ASSUME NEW x \in HandlerRecord, NEW step \in Steps, NEW message \in Messages
  PROVE  Handler(x.event, step, message, x.reason) \in HandlerRecord
BY DEF Handler, HandlerRecord

LEMMA HandleTypes ==
  ASSUME Types, Handled, NEW x \in handlers,
         \/ ReadStatus(x) \/ pinMention(x) \/ SupersedeSkipped(x) \/ WriteSkipCheck(x)
         \/ Send(x) \/ HandlerFails(x)
  PROVE  Types'
<1> USE DEF github, job_
<1>0. x \in HandlerRecord /\ x.event \in events /\ x.message \in Messages
  BY DEF Types, HandlerRecord
<1>1. CASE HandlerFails(x)
  BY <1>1 DEF HandlerFails, Types, HandlerRecord, EventOK
<1>2. CASE Send(x)
  BY <1>0, <1>2 DEF Send, Answer, Types, HandlerRecord, EventOK
<1>3. CASE WriteSkipCheck(x)
  <2>1. SkipCheck \in CheckRun
    BY DEF SkipCheck, CheckRun, Facts, Identity
  <2>2. \A sha \in Heads : upsertSkippedCheckRun(checks[sha]) \in SUBSET CheckRun
    BY <2>1 DEF upsertSkippedCheckRun, Types
  <2>3. checks' = [checks EXCEPT ![x.message.head] = upsertSkippedCheckRun(checks[x.message.head])]
    BY <1>3 DEF WriteSkipCheck
  <2>4. checks' \in [Heads -> SUBSET CheckRun]
    BY <1>0, <2>2, <2>3 DEF Types, Messages
  <2> QED
    BY <1>0, <1>3, <2>4 DEF WriteSkipCheck, Answer, Types, HandlerRecord, EventOK
<1>4. ASSUME NEW y \in HandlerRecord, Advance(x, y), UNCHANGED events
      PROVE  handlers' \subseteq HandlerRecord'
  BY <1>4 DEF Advance, Types, HandlerRecord
<1>5. CASE SupersedeSkipped(x)
  <2>1. [x EXCEPT !.step = "check"] \in HandlerRecord
    BY <1>0 DEF HandlerRecord, Steps
  <2>2. handlers' \subseteq HandlerRecord'
    BY <1>4, <1>5, <2>1 DEF SupersedeSkipped
  <2>3. x.message.previousHead \in Heads
    <3>1. Supersedes(x.message)
      BY <1>0, <1>5 DEF SupersedeSkipped, Handled, HandlerOK, Messages
    <3> QED
      BY <1>0, <3>1 DEF Supersedes, Messages
  <2>4. /\ job' \in [Heads -> JobRecord]
        /\ \A h \in Heads :
             /\ job'[h].message = job[h].message
             /\ job'[h].state = "live" => job[h].state = "live"
             /\ job'[h].reviewed => h \in done
    BY <1>5, <2>3, SupersedeEffect DEF SupersedeSkipped, Types
  <2> QED
    BY <1>5, <2>2, <2>4 DEF SupersedeSkipped, Types, EventOK
<1>6. CASE ReadStatus(x)
  <2> DEFINE joins == job[x.message.head].state = "live"
             message == [x.message EXCEPT !.skipped = joins]
  <2>1. joins \in BOOLEAN
    BY Zenon
  <2>2. message \in Messages
    <3> HIDE DEF joins
    <3> QED
      BY <1>0, <2>1 DEF Messages
  <2>3. Advance(x, Handler(x.event, "pin", message, x.reason))
    BY <1>6 DEF ReadStatus
  <2> HIDE DEF message
  <2>4. handlers' \subseteq HandlerRecord'
    BY <1>0, <1>4, <1>6, <2>2, <2>3, AdvanceTypes DEF ReadStatus, Steps
  <2> QED
    BY <1>6, <2>4 DEF ReadStatus, Types, EventOK
<1>7. CASE pinMention(x)
  <2> DEFINE c == x.event.comment
             pinned == IF pins[c] = None THEN x.message ELSE pins[c]
  <2>1. c \in Comments
    BY <1>0, <1>7 DEF pinMention, Types, EventOK, Handled, HandlerOK, Messages
  <2>2. pinned \in Messages
    BY <1>0, <2>1 DEF Types
  <2>3. pins' = [pins EXCEPT ![c] = pinned] /\ Advance(x, Handler(x.event, "send", pinned, x.reason))
    BY <1>7 DEF pinMention
  <2> HIDE DEF pinned
  <2>4. handlers' \subseteq HandlerRecord'
    BY <1>0, <1>4, <1>7, <2>2, <2>3, AdvanceTypes DEF pinMention, Steps
  <2>5. pins' \in [Comments -> Messages \cup {None}]
    BY <2>2, <2>3 DEF Types
  <2> QED
    BY <1>7, <2>4, <2>5 DEF pinMention, Types, EventOK
<1> QED
  BY <1>1, <1>2, <1>3, <1>5, <1>6, <1>7

LEMMA ConsumeTypes ==
  ASSUME Types, NEW m \in queue, SupersedePrevious(m) \/ Start(m) \/ Exhausted(m)
  PROVE  Types'
<1> USE DEF github
<1>0. m \in Messages /\ m.head \in Heads /\ m # None
  BY NoneIsNoMessage DEF Types, Messages
<1>1. HandlerRecord' = HandlerRecord
  BY DEF HandlerRecord, SupersedePrevious, Start, Exhausted
<1>2. CASE SupersedePrevious(m)
  <2>1. m.previousHead \in Heads
    BY <1>0, <1>2 DEF SupersedePrevious, Supersedes, Messages
  <2>2. /\ job' \in [Heads -> JobRecord]
        /\ \A h \in Heads :
             /\ job'[h].message = job[h].message
             /\ job'[h].state = "live" => job[h].state = "live"
             /\ job'[h].reviewed => h \in done
    BY <1>2, <2>1, SupersedeEffect DEF SupersedePrevious, Types
  <2> QED
    BY <1>1, <1>2, <2>2 DEF SupersedePrevious, Types, EventOK
<1>3. CASE Start(m)
  <2>1. /\ job' \in [Heads -> JobRecord] /\ claims' \in [Comments -> Nat]
        /\ \A h \in Heads :
             /\ job'[h].reviewed = job[h].reviewed
             /\ \/ h = m.head /\ job'[h].message = m
                \/ job'[h].state = job[h].state /\ job'[h].message = job[h].message
    BY <1>0, <1>3, ClaimEffect, Zenon DEF Start
  <2>2. queue' \subseteq queue /\ ready' \subseteq queue'
    BY <1>3 DEF Start, Types
  <2> QED
    BY <1>0, <1>1, <1>3, <2>1, <2>2 DEF Start, Types, EventOK
<1>4. CASE Exhausted(m)
  <2>1. /\ job' \in [Heads -> JobRecord]
        /\ \A h \in Heads :
             /\ job'[h].reviewed = job[h].reviewed
             /\ job'[h] = job[h] \/ (h = m.head /\ job'[h].message = m)
    BY <1>0, <1>4, ExhaustedEffect
  <2> QED
    BY <1>0, <1>1, <1>4, <2>1 DEF Exhausted, Types, EventOK
<1> QED
  BY <1>2, <1>3, <1>4

(* A completed review is told apart by a Boolean.                                 *)
LEMMA VerdictIsBoolean ==
  ASSUME NEW end, NEW policy
  PROVE  finishPublishing(end, policy).reviewed \in BOOLEAN
<1>1. ASSUME NEW mapping PROVE isReviewCompleted(mapping, end.summary) \in BOOLEAN
  BY Zenon DEF isReviewCompleted
<1> DEFINE mapping == resultMapping(end, policy.checks)
<1>2. finishPublishing(end, policy).reviewed = isReviewCompleted(mapping, end.summary)
  BY DEF finishPublishing
<1> QED
  BY <1>1, <1>2, Zenon

(* The check of a review: evidence exactly when the review completed.               *)
LEMMA ReviewCheck ==
  ASSUME NEW verdict, verdict.reviewed \in BOOLEAN, NEW policy, NEW check,
         check = [external |-> "own", ours |-> TRUE, completed |-> TRUE,
                  facts |-> reviewFacts(verdict, policy)]
  PROVE  check \in CheckRun /\ (isCompletedReview(check) => verdict.reviewed)
<1> DEFINE facts == reviewFacts(verdict, policy)
<1>1. facts \in Facts
  BY DEF reviewFacts, Facts, Identity
<1>2. facts.marker = verdict.reviewed /\ facts.legacy = FALSE
  BY DEF reviewFacts
<1>5. check = [external |-> "own", ours |-> TRUE, completed |-> TRUE, facts |-> facts]
  BY Zenon
<1> HIDE DEF facts
<1>3. check.facts = facts /\ check \in CheckRun
  BY <1>1, <1>5 DEF CheckRun, Identity
<1>4. isCompletedReview(check) => verdict.reviewed = TRUE
  BY <1>2, <1>3, Zenon DEF isCompletedReview, isLegacyReview
<1> QED
  BY <1>3, <1>4, Zenon

(* What a review that ends leaves.                                                *)
LEMMA ReportEffect ==
  ASSUME Types, NEW sha \in Heads, ReportReview(sha)
  PROVE  \E check \in CheckRun :
           /\ checks' = [checks EXCEPT ![sha] = checks[sha] \cup {check}]
           /\ done \subseteq done' /\ done' \subseteq Heads
           /\ isCompletedReview(check) => sha \in done'
<1>1. PICK end \in Reports :
        LET policy == getPublicationPolicy(file).policy
            verdict == finishPublishing(end, policy)
        IN /\ checks' = [checks EXCEPT ![sha] = @ \cup
                {[external |-> "own", ours |-> TRUE, completed |-> TRUE,
                  facts |-> reviewFacts(verdict, policy)]}]
           /\ done' = IF verdict.reviewed THEN done \cup {sha} ELSE done
  BY DEF ReportReview
<1> DEFINE policy == getPublicationPolicy(file).policy
           verdict == finishPublishing(end, policy)
           check == [external |-> "own", ours |-> TRUE, completed |-> TRUE,
                     facts |-> reviewFacts(verdict, policy)]
<1>2. checks' = [checks EXCEPT ![sha] = checks[sha] \cup {check}]
  BY <1>1, Zenon
<1>3. done' = IF verdict.reviewed THEN done \cup {sha} ELSE done
  BY <1>1, Zenon
<1>4. verdict.reviewed \in BOOLEAN
  BY VerdictIsBoolean
<1>5. check \in CheckRun /\ (isCompletedReview(check) => verdict.reviewed)
  <2> HIDE DEF verdict, policy
  <2> QED
    BY <1>4, ReviewCheck
<1> HIDE DEF check, verdict
<1> QED
  BY <1>2, <1>3, <1>4, <1>5 DEF Types

LEMMA JobsTypes ==
  ASSUME Types, NEW sha \in Heads, ReportReview(sha) \/ SaveReview(sha) \/ JobEnds(sha)
  PROVE  Types'
<1> USE DEF github
<1>1. HandlerRecord' = HandlerRecord
  BY DEF HandlerRecord, ReportReview, SaveReview, JobEnds
<1>2. CASE ReportReview(sha)
  <2>1. checks' \in [Heads -> SUBSET CheckRun] /\ done \subseteq done' /\ done' \subseteq Heads
    BY <1>2, ReportEffect DEF Types
  <2> QED
    BY <1>1, <1>2, <2>1 DEF ReportReview, Types, EventOK
<1>3. CASE SaveReview(sha) \/ JobEnds(sha)
  <2>1. /\ job' \in [Heads -> JobRecord]
        /\ \A h \in Heads :
             /\ job'[h].message = job[h].message
             /\ job'[h].state = "live" => job[h].state = "live"
             /\ job'[h].reviewed => h \in done
    BY <1>3, JobsEffect DEF Types
  <2> QED
    BY <1>1, <1>3, <2>1 DEF SaveReview, JobEnds, Types, EventOK
<1> QED
  BY <1>2, <1>3

-----------------------------------------------------------------------------
(* What the handlers hold.                                                       *)

LEMMA HandlerFields ==
  ASSUME NEW e, NEW step, NEW message, NEW reason
  PROVE  LET x == Handler(e, step, message, reason) IN
         x.event = e /\ x.step = step /\ x.message = message /\ x.reason = reason
BY DEF Handler

LEMMA ReceiveHandled ==
  ASSUME Types, Handled, NEW event \in events,
         \/ ReceiveDraft(event) \/ ReceivePull(event) \/ ReceiveRerequest(event)
         \/ ReceiveMention(event) \/ RejectMention(event)
  PROVE  Handled'
<1>0. EventOK(event)
  BY DEF Types
<1>1. CASE ReceiveDraft(event) \/ RejectMention(event)
  BY <1>1 DEF ReceiveDraft, RejectMention, Handled, HandlerOK, Asks, Supersedes
<1>2. ASSUME NEW x, HandlerOK(x), handlers' = handlers \cup {x}, UNCHANGED pins
      PROVE  Handled'
  BY <1>2 DEF Handled, HandlerOK, Asks, Supersedes
<1>3. CASE ReceivePull(event)
  <2>1. PICK step, reason, dedupe :
          LET message == Message(event, "automatic", "pull_request", None, event.head, dedupe) IN
            /\ handlers' = handlers \cup {Handler(event, step, message, reason)}
            /\ step \in {"send", "supersede", "check"}
            /\ step = "supersede" => Supersedes(message)
    <3>1. PICK read \in PolicyRead, storeRead \in BOOLEAN, checksRead \in BOOLEAN :
            LET reason == skipReason(read, event, completedHead(event.head, storeRead, checksRead))
                message == Message(event, "automatic", "pull_request", None, event.head,
                                   read.failure \/ read.policy.dedupe_same_head)
                step == IF reason = None THEN "send"
                        ELSE IF Supersedes(message) THEN "supersede" ELSE "check"
            IN handlers' = handlers \cup {Handler(event, step, message, reason)}
      BY <1>3 DEF ReceivePull
    <3> DEFINE reason == skipReason(read, event, completedHead(event.head, storeRead, checksRead))
               dedupe == read.failure \/ read.policy.dedupe_same_head
               message == Message(event, "automatic", "pull_request", None, event.head, dedupe)
               step == IF reason = None THEN "send"
                       ELSE IF Supersedes(message) THEN "supersede" ELSE "check"
    <3>2. /\ step \in {"send", "supersede", "check"}
          /\ step = "supersede" => Supersedes(message)
      <4> HIDE DEF reason, message
      <4> QED
        OBVIOUS
    <3>3. handlers' = handlers \cup {Handler(event, step, message, reason)}
      BY <3>1, Zenon
    <3> HIDE DEF reason, dedupe, step
    <3> QED
      BY <3>2, <3>3, Zenon
  <2> DEFINE message == Message(event, "automatic", "pull_request", None, event.head, dedupe)
             x == Handler(event, step, message, reason)
  <2>2. /\ message.source = "automatic" /\ message.head = event.head
        /\ message.previousHead = event.before
    BY MessageFields
  <2>3. x.event = event /\ x.step = step /\ x.message = message
    BY HandlerFields
  <2>4. event.event \notin Surfaces
    BY <1>3 DEF ReceivePull, Surfaces, DEFAULT_MENTION_SURFACES
  <2>5. /\ handlers' = handlers \cup {x}
        /\ step \in {"send", "supersede", "check"} /\ (step = "supersede" => Supersedes(message))
    BY <2>1, Zenon
  <2> HIDE DEF message, x
  <2>6. HandlerOK(x)
    BY <2>2, <2>3, <2>4, <2>5 DEF HandlerOK
  <2> QED
    BY <1>2, <1>3, <2>5, <2>6 DEF ReceivePull
<1>4. CASE ReceiveRerequest(event)
  <2> DEFINE message == Message(event, "automatic", "check_run.rerequested", None, event.head, TRUE)
             x == Handler(event, "send", message, None)
  <2>1. /\ message.source = "automatic" /\ message.head = event.head
        /\ message.previousHead = event.before
    BY DEF Message
  <2>2. x.event = event /\ x.step = "send" /\ x.message = message
    BY DEF Handler
  <2>3. handlers' = handlers \cup {x} /\ UNCHANGED pins /\ event.event \notin Surfaces
    BY <1>4 DEF ReceiveRerequest, Surfaces, DEFAULT_MENTION_SURFACES
  <2> HIDE DEF message, x
  <2>4. HandlerOK(x)
    BY <2>1, <2>2, <2>3 DEF HandlerOK
  <2> QED
    BY <1>2, <2>3, <2>4
<1>5. CASE ReceiveMention(event)
  <2> DEFINE message == Message(event, "mention", event.event, event.comment.id, head, TRUE)
             x == Handler(event, "status", message, None)
  <2>1. /\ message.source = "mention" /\ message.event = event.event
        /\ message.comment = event.comment.id /\ message.previousHead = event.before
    BY DEF Message
  <2>2. x.event = event /\ x.step = "status" /\ x.message = message /\ x.reason = None
    BY DEF Handler
  <2>3. handlers' = handlers \cup {x} /\ UNCHANGED pins /\ event.event \in Surfaces
    BY <1>5 DEF ReceiveMention
  <2> HIDE DEF message, x
  <2>4. HandlerOK(x)
    BY <1>0, <2>1, <2>2, <2>3 DEF HandlerOK, Asks, EventOK
  <2> QED
    BY <1>2, <2>3, <2>4
<1> QED
  BY <1>1, <1>3, <1>4, <1>5

(* Every handler that moves on, and what it then holds.                            *)
LEMMA MovesOn ==
  ASSUME Types, Handled, NEW x \in handlers,
         ReadStatus(x) \/ pinMention(x) \/ SupersedeSkipped(x)
  PROVE  \E y \in HandlerRecord :
           /\ Advance(x, y) /\ y.event = x.event /\ y.reason = x.reason
           /\ y.step = IF x.step = "status" THEN "pin" ELSE IF x.step = "pin" THEN "send" ELSE "check"
           /\ HandlerOK(y)
           /\ x.step = "supersede" => y.message = x.message
           /\ x.step = "status" => y.message.head = x.message.head
           /\ x.step = "pin" =>
                /\ x.event.comment \in Comments
                /\ y.message = IF pins[x.event.comment] = None THEN x.message
                                ELSE pins[x.event.comment]
<1>0. /\ x \in HandlerRecord /\ x.message \in Messages /\ HandlerOK(x) /\ EventOK(x.event)
      /\ x.message.source \in {"automatic", "mention"}
  BY DEF Types, Handled, HandlerRecord, Messages
<1>1. CASE SupersedeSkipped(x)
  <2> DEFINE y == [x EXCEPT !.step = "check"]
  <2>1. /\ y \in HandlerRecord /\ y.step = "check" /\ y.event = x.event /\ y.reason = x.reason
        /\ y.message = x.message
    BY <1>0 DEF HandlerRecord, Steps
  <2>2. Advance(x, y) /\ x.step = "supersede"
    BY <1>1 DEF SupersedeSkipped
  <2> HIDE DEF y
  <2>3. HandlerOK(y)
    BY <1>0, <2>1, <2>2 DEF HandlerOK
  <2> QED
    BY <2>1, <2>2, <2>3
<1>2. CASE ReadStatus(x)
  <2> DEFINE joins == job[x.message.head].state = "live"
             message == [x.message EXCEPT !.skipped = joins]
             y == Handler(x.event, "pin", message, x.reason)
  <2>1. joins \in BOOLEAN
    BY Zenon
  <2>2. /\ message \in Messages
        /\ message.source = x.message.source /\ message.comment = x.message.comment
        /\ message.event = x.message.event /\ message.head = x.message.head
        /\ message.previousHead = x.message.previousHead
    <3> HIDE DEF joins
    <3> QED
      BY <1>0, <2>1 DEF Messages
  <2>3. Advance(x, y) /\ x.step = "status"
    BY <1>2 DEF ReadStatus
  <2> HIDE DEF message
  <2>4. /\ y \in HandlerRecord /\ y.step = "pin" /\ y.event = x.event /\ y.reason = x.reason
        /\ y.message = message
    BY <1>0, <2>2, AdvanceTypes DEF Handler, Steps
  <2> HIDE DEF y
  <2>5. HandlerOK(y)
    BY <1>0, <2>2, <2>3, <2>4 DEF HandlerOK, Asks
  <2> QED
    BY <2>2, <2>3, <2>4, <2>5
<1>3. CASE pinMention(x)
  <2> DEFINE c == x.event.comment
             pinned == IF pins[c] = None THEN x.message ELSE pins[c]
             y == Handler(x.event, "send", pinned, x.reason)
  <2>1. x.step = "pin" /\ Advance(x, y)
    BY <1>3 DEF pinMention
  <2>2. x.message.source = "mention" /\ c \in Comments /\ x.event.before = None
    BY <1>0, <2>1 DEF HandlerOK, EventOK, Surfaces, DEFAULT_MENTION_SURFACES
  <2>3. /\ pinned \in Messages /\ Asks(pinned, c) /\ pinned.previousHead = None
    BY <1>0, <2>2 DEF Types, Handled, HandlerOK
  <2>4. pinned = IF pins[c] = None THEN x.message ELSE pins[c]
    OBVIOUS
  <2> HIDE DEF pinned
  <2>5. /\ y \in HandlerRecord /\ y.step = "send" /\ y.event = x.event /\ y.reason = x.reason
        /\ y.message = pinned
    BY <1>0, <2>3, AdvanceTypes DEF Handler, Steps
  <2> HIDE DEF y
  <2>6. HandlerOK(y)
    BY <1>0, <2>2, <2>3, <2>5 DEF HandlerOK, Asks
  <2> QED
    BY <2>1, <2>2, <2>4, <2>5, <2>6
<1> QED
  BY <1>1, <1>2, <1>3

LEMMA HandleHandled ==
  ASSUME Types, Handled, NEW x \in handlers,
         \/ ReadStatus(x) \/ pinMention(x) \/ SupersedeSkipped(x) \/ WriteSkipCheck(x)
         \/ Send(x) \/ HandlerFails(x)
  PROVE  Handled'
<1>1. CASE WriteSkipCheck(x) \/ Send(x) \/ HandlerFails(x)
  BY <1>1 DEF WriteSkipCheck, Send, HandlerFails, Answer, Handled, HandlerOK, Asks, Supersedes
<1>2. CASE ReadStatus(x) \/ pinMention(x) \/ SupersedeSkipped(x)
  <2>1. PICK y \in HandlerRecord : Advance(x, y) /\ HandlerOK(y)
    BY <1>2, MovesOn
  <2>2. \A z \in handlers' : HandlerOK(z)
    BY <2>1 DEF Advance, Handled
  <2>3. \A c \in Comments : pins'[c] # None => Asks(pins'[c], c) /\ pins'[c].previousHead = None
    <3>1. CASE pinMention(x)
      <4>1. x.message.source = "mention" /\ x.event.comment \in Comments /\ x.event.before = None
            /\ Asks(x.message, x.event.comment) /\ x.message.previousHead = None
        BY <3>1 DEF pinMention, Types, Handled, HandlerRecord, Messages, HandlerOK, EventOK,
                    Surfaces, DEFAULT_MENTION_SURFACES
      <4> QED
        BY <3>1, <4>1 DEF pinMention, Types, Handled
    <3>2. CASE UNCHANGED pins
      BY <3>2 DEF Handled
    <3> QED
      BY <1>2, <3>1, <3>2 DEF ReadStatus, SupersedeSkipped
  <2> QED
    BY <2>2, <2>3 DEF Handled, HandlerOK, Asks, Supersedes
<1> QED
  BY <1>1, <1>2

-----------------------------------------------------------------------------
(* One review for each comment.                                                  *)

(* What a comment's execution has left: the message it was started from is pinned,   *)
(* and its identity is one the job has handled.                                   *)
Claimed(c) ==
  /\ claims[c] = 1
  /\ pins[c] # None /\ ~pins[c].skipped
  /\ deliveryIdentity(pins[c]) \in job[pins[c].head].handled

Pinned ==
  /\ \A x \in handlers :
       x.step = "send" /\ x.message.source = "mention" => pins[x.event.comment] = x.message
  /\ \A m \in queue, c \in Comments : Asks(m, c) => pins[c] = m
  /\ \A c \in Comments : claims[c] = 0 \/ Claimed(c)

(* A comment's identity, once handled, stays it.                                   *)
LEMMA ClaimedStays ==
  ASSUME Types, NEW c \in Comments, claims[c] = 0 \/ Claimed(c),
         claims'[c] = claims[c], pins[c] # None => pins'[c] = pins[c],
         \A h \in Heads : job[h].handled \subseteq job'[h].handled
  PROVE  claims'[c] = 0 \/ Claimed(c)'
<1>1. pins[c] # None => pins[c].head \in Heads
  BY DEF Types, Messages
<1> QED
  BY <1>1 DEF Claimed

LEMMA InitPinned == Init => Handled /\ Pinned
BY DEF Init, Handled, Pinned

LEMMA GitHubPinned == ASSUME Types, Handled, Pinned, GitHub PROVE Handled' /\ Pinned'
<1>1. UNCHANGED <<handlers, pins, queue, claims, job>>
  BY DEF GitHub, Announced, Push, Commented, Rerequested, Deliver, job_
<1> QED
  BY <1>1 DEF Handled, HandlerOK, Asks, Supersedes, Pinned, Claimed

LEMMA ReceivePinned ==
  ASSUME Types, Handled, Pinned, NEW event \in events,
         \/ ReceiveDraft(event) \/ ReceivePull(event) \/ ReceiveRerequest(event)
         \/ ReceiveMention(event) \/ RejectMention(event)
  PROVE  Pinned'
<1>1. UNCHANGED <<pins, queue, claims, job>>
  BY DEF ReceiveDraft, ReceivePull, ReceiveRerequest, ReceiveMention, RejectMention, job_
<1>2. \A x \in handlers' : x \in handlers \/ x.step # "send" \/ x.message.source # "mention"
  <2>1. CASE ReceiveMention(event)
    <3>1. PICK message : handlers' = handlers \cup {Handler(event, "status", message, None)}
      BY <2>1, Zenon DEF ReceiveMention
    <3> QED
      BY <3>1 DEF Handler
  <2>2. CASE ReceivePull(event)
    BY <2>2 DEF ReceivePull, Handler, Message
  <2>3. CASE ReceiveRerequest(event)
    BY <2>3 DEF ReceiveRerequest, Handler, Message
  <2>4. CASE ReceiveDraft(event) \/ RejectMention(event)
    BY <2>4 DEF ReceiveDraft, RejectMention
  <2> QED
    BY <2>1, <2>2, <2>3, <2>4
<1> QED
  BY <1>1, <1>2 DEF Pinned, Claimed, Asks

LEMMA HandlePinned ==
  ASSUME Types, Handled, Pinned, NEW x \in handlers,
         \/ ReadStatus(x) \/ pinMention(x) \/ SupersedeSkipped(x) \/ WriteSkipCheck(x)
         \/ Send(x) \/ HandlerFails(x)
  PROVE  Pinned'
<1>0. /\ HandlerOK(x) /\ EventOK(x.event) /\ x.message \in Messages
      /\ x.message.source \in {"automatic", "mention"}
  BY DEF Types, Handled, HandlerRecord, Messages
<1>1. CASE WriteSkipCheck(x) \/ HandlerFails(x)
  <2>1. UNCHANGED <<pins, queue, claims, job>> /\ handlers' = handlers \ {x}
    BY <1>1 DEF WriteSkipCheck, HandlerFails, Answer, job_
  <2> QED
    BY <2>1 DEF Pinned, Claimed, Asks
<1>2. CASE Send(x)
  <2>1. \A c \in Comments : Asks(x.message, c) => pins[c] = x.message
    <3>1. ASSUME NEW c \in Comments, Asks(x.message, c) PROVE c = x.event.comment
      BY <1>0, <3>1, CommentsAssumption DEF HandlerOK, EventOK, Asks
    <3>2. x.step = "send"
      BY <1>2 DEF Send
    <3> QED
      BY <3>1, <3>2 DEF Pinned, Asks
  <2> QED
    BY <1>2, <2>1 DEF Send, Answer, Pinned, Claimed, Asks, job_
<1>3. CASE ReadStatus(x) \/ SupersedeSkipped(x)
  <2>1. PICK y \in HandlerRecord : /\ Advance(x, y) /\ y.step # "send"
    BY <1>3, MovesOn DEF ReadStatus, SupersedeSkipped
  <2>2. \A h \in Heads : job[h].handled \subseteq job'[h].handled
    <3>1. CASE ReadStatus(x)
      BY <3>1 DEF ReadStatus, job_
    <3>2. CASE SupersedeSkipped(x)
      <4>1. x.message.previousHead \in Heads
        BY <1>0, <3>2 DEF SupersedeSkipped, HandlerOK, Supersedes, Messages
      <4> QED
        BY <3>2, <4>1, SupersedeEffect DEF SupersedeSkipped
    <3> QED
      BY <1>3, <3>1, <3>2
  <2>3. UNCHANGED <<pins, claims, queue>>
    BY <1>3 DEF ReadStatus, SupersedeSkipped, job_
  <2>4. \A c \in Comments : claims'[c] = 0 \/ Claimed(c)'
    BY <2>2, <2>3, ClaimedStays DEF Pinned
  <2> QED
    BY <2>1, <2>3, <2>4 DEF Advance, Pinned, Asks
<1>4. CASE pinMention(x)
  <2> DEFINE c == x.event.comment
             pinned == IF pins[c] = None THEN x.message ELSE pins[c]
  <2>1. PICK y \in HandlerRecord :
          Advance(x, y) /\ y.event = x.event /\ y.message = pinned /\ c \in Comments
    BY <1>4, MovesOn DEF pinMention
  <2>2. pins' = [pins EXCEPT ![c] = pinned] /\ UNCHANGED <<queue, claims, job>>
    BY <1>4 DEF pinMention, job_
  <2>3. pins \in [Comments -> Messages \cup {None}]
    BY DEF Types
  <2>4. \A d \in Comments : pins[d] # None => pins'[d] = pins[d]
    BY <2>1, <2>2, <2>3
  <2>5. pins'[c] = y.message
    BY <2>1, <2>2, <2>3
  <2>6. \A m \in queue, d \in Comments : Asks(m, d) => pins'[d] = m
    BY <2>4, NoneIsNoMessage DEF Pinned, Types
  <2>7. \A z \in handlers :
          z.step = "send" /\ z.message.source = "mention" => pins'[z.event.comment] = z.message
    <3>1. ASSUME NEW z \in handlers, z.step = "send", z.message.source = "mention"
          PROVE  pins'[z.event.comment] = z.message
      <4>1. z.message # None /\ z.event.comment \in Comments
        BY <3>1, NoneIsNoMessage DEF Types, Handled, HandlerRecord, HandlerOK, EventOK
      <4> QED
        BY <2>4, <3>1, <4>1 DEF Pinned
    <3> QED
      BY <3>1
  <2>8. \A d \in Comments : claims'[d] = 0 \/ Claimed(d)'
    BY <2>2, <2>4, ClaimedStays DEF Pinned
  <2>9. \A z \in handlers' :
          z.step = "send" /\ z.message.source = "mention" => pins'[z.event.comment] = z.message
    BY <2>1, <2>5, <2>7 DEF Advance
  <2> HIDE DEF pinned, c
  <2> QED
    BY <2>2, <2>6, <2>8, <2>9 DEF Pinned, Asks
<1> QED
  BY <1>1, <1>2, <1>3, <1>4

LEMMA ConsumePinned ==
  ASSUME Types, Handled, Pinned, NEW m \in queue,
         SupersedePrevious(m) \/ Start(m) \/ Exhausted(m)
  PROVE  Handled' /\ Pinned'
<1>0. m \in Messages /\ m.head \in Heads
  BY DEF Types, Messages
<1>1. UNCHANGED <<handlers, pins>> /\ queue' \subseteq queue
  BY DEF SupersedePrevious, Start, Exhausted
<1>2. Handled'
  BY <1>1 DEF Handled, HandlerOK, Asks, Supersedes
<1>3. \A c \in Comments : claims'[c] = 0 \/ Claimed(c)'
  <2>1. CASE SupersedePrevious(m)
    <3>1. m.previousHead \in Heads
      BY <1>0, <2>1 DEF SupersedePrevious, Supersedes, Messages
    <3>2. \A h \in Heads : job[h].handled \subseteq job'[h].handled
      BY <2>1, <3>1, SupersedeEffect DEF SupersedePrevious
    <3> QED
      BY <1>1, <2>1, <3>2, ClaimedStays DEF SupersedePrevious, Pinned
  <2>2. CASE Exhausted(m)
    <3>1. \A h \in Heads : job[h].handled \subseteq job'[h].handled
      BY <1>0, <2>2, ExhaustedEffect
    <3> QED
      BY <1>1, <2>2, <3>1, ClaimedStays DEF Exhausted, Pinned
  <2>3. ASSUME Start(m), NEW c \in Comments
        PROVE  claims'[c] = 0 \/ Claimed(c)'
    <3>1. /\ \A h \in Heads : job[h].handled \subseteq job'[h].handled
          /\ deliveryIdentity(m) \in job'[m.head].handled
          /\ claims'[c] = IF Fresh(m) /\ Asks(m, c) THEN claims[c] + 1 ELSE claims[c]
      BY <1>0, <2>3, ClaimEffect DEF Start
    <3>2. CASE Fresh(m) /\ Asks(m, c)
      <4>1. pins[c] = m
        BY <3>2 DEF Pinned
      <4>2. claims[c] = 0
        BY <3>2, <4>1 DEF Fresh, mayStart, Pinned, Claimed
      <4>3. pins'[c] = m /\ m # None /\ ~m.skipped
        BY <1>0, <1>1, <3>2, <4>1, NoneIsNoMessage DEF Fresh, mayStart
      <4> QED
        BY <3>1, <3>2, <4>2, <4>3 DEF Claimed
    <3>3. CASE ~(Fresh(m) /\ Asks(m, c))
      BY <1>1, <3>1, <3>3, ClaimedStays DEF Pinned
    <3> QED
      BY <3>2, <3>3
  <2> QED
    BY <2>1, <2>2, <2>3
<1> QED
  BY <1>1, <1>2, <1>3 DEF Pinned, Asks

LEMMA JobsPinned ==
  ASSUME Types, Handled, Pinned, NEW sha \in Heads, ReportReview(sha) \/ SaveReview(sha) \/ JobEnds(sha)
  PROVE  Handled' /\ Pinned'
<1>1. UNCHANGED <<handlers, pins, queue, claims>>
  BY DEF ReportReview, SaveReview, JobEnds
<1>2. \A h \in Heads : job[h].handled \subseteq job'[h].handled
  BY JobsEffect DEF ReportReview
<1>3. \A c \in Comments : claims'[c] = 0 \/ Claimed(c)'
  BY <1>1, <1>2, ClaimedStays DEF Pinned
<1> QED
  BY <1>1, <1>3 DEF Handled, HandlerOK, Asks, Supersedes, Pinned

-----------------------------------------------------------------------------
(* Evidence of a review.                                                         *)

Evidence ==
  /\ \A h \in Heads : hasCompletedReviewForHead(checks[h]) => h \in done
  /\ SkipJustified

(* A check that is no completed review changes nothing that is read from the checks.  *)
LEMMA AddCheck ==
  ASSUME NEW runs, NEW check, hasCompletedReviewForHead(runs \cup {check})
  PROVE  hasCompletedReviewForHead(runs) \/ isCompletedReview(check)
BY DEF hasCompletedReviewForHead, ownHeadChecks

LEMMA InitEvidence == Init => Evidence
<1> SUFFICES ASSUME Init PROVE Evidence
  OBVIOUS
<1>1. ASSUME NEW check \in Foreign PROVE ~isCompletedReview(check)
  BY <1>1, ForeignAssumption DEF isCompletedReview, identifiesJob
<1> QED
  BY <1>1 DEF Init, Evidence, SkipJustified, hasCompletedReviewForHead, ownHeadChecks

LEMMA ReceiveEvidence ==
  ASSUME Types, Handled, Evidence, NEW event \in events,
         \/ ReceiveDraft(event) \/ ReceivePull(event) \/ ReceiveRerequest(event)
         \/ ReceiveMention(event) \/ RejectMention(event)
  PROVE  Evidence'
<1>0. EventOK(event) /\ UNCHANGED <<checks, done>>
  BY DEF Types, ReceiveDraft, ReceivePull, ReceiveRerequest, ReceiveMention, RejectMention, job_
<1>1. ASSUME NEW x, handlers' = handlers \cup {x},
             x.reason = "same_head_reviewed" => x.message.head \in done
      PROVE  Evidence'
  BY <1>0, <1>1 DEF Evidence, SkipJustified
<1>2. CASE ReceivePull(event)
  <2>1. PICK read \in PolicyRead, storeRead \in BOOLEAN, checksRead \in BOOLEAN :
          LET reason == skipReason(read, event, completedHead(event.head, storeRead, checksRead))
              message == Message(event, "automatic", "pull_request", None, event.head,
                                 read.failure \/ read.policy.dedupe_same_head)
              step == IF reason = None THEN "send"
                      ELSE IF Supersedes(message) THEN "supersede" ELSE "check"
          IN handlers' = handlers \cup {Handler(event, step, message, reason)}
    BY <1>2 DEF ReceivePull
  <2> DEFINE completed == completedHead(event.head, storeRead, checksRead)
             reason == skipReason(read, event, completed)
             message == Message(event, "automatic", "pull_request", None, event.head,
                                read.failure \/ read.policy.dedupe_same_head)
             step == IF reason = None THEN "send"
                     ELSE IF Supersedes(message) THEN "supersede" ELSE "check"
             x == Handler(event, step, message, reason)
  <2>2. completed => event.head \in done
    <3>1. event.head \in Heads
      BY <1>0, <1>2 DEF ReceivePull, EventOK
    <3> QED
      BY <3>1 DEF completedHead, Types, Evidence
  <2>3. reason = "same_head_reviewed" => completed
    <3> HIDE DEF completed
    <3> QED
      BY NoneIsNoSkip DEF skipReason, Skips
  <2>4. message.head = event.head
    BY MessageFields
  <2>5. x.reason = reason /\ x.message = message
    BY HandlerFields
  <2>6. handlers' = handlers \cup {x}
    BY <2>1, Zenon
  <2> HIDE DEF x, message, reason, completed
  <2> QED
    BY <1>1, <2>2, <2>3, <2>4, <2>5, <2>6
<1>3. CASE ReceiveRerequest(event) \/ ReceiveMention(event)
  <2>1. PICK step, message : handlers' = handlers \cup {Handler(event, step, message, None)}
    BY <1>3, Zenon DEF ReceiveRerequest, ReceiveMention
  <2>2. Handler(event, step, message, None).reason # "same_head_reviewed"
    BY NoneIsNoSkip DEF Handler, Skips
  <2> QED
    BY <1>1, <2>1, <2>2
<1>4. CASE ReceiveDraft(event) \/ RejectMention(event)
  BY <1>0, <1>4 DEF ReceiveDraft, RejectMention, Evidence, SkipJustified
<1> QED
  BY <1>2, <1>3, <1>4

LEMMA HandleEvidence ==
  ASSUME Types, Handled, Evidence, NEW x \in handlers,
         \/ ReadStatus(x) \/ pinMention(x) \/ SupersedeSkipped(x) \/ WriteSkipCheck(x)
         \/ Send(x) \/ HandlerFails(x)
  PROVE  Evidence'
<1>0. /\ HandlerOK(x) /\ x.message \in Messages /\ x.message.head \in Heads
      /\ x.message.source \in {"automatic", "mention"}
  BY DEF Types, Handled, HandlerRecord, Messages
<1>1. CASE Send(x) \/ HandlerFails(x)
  BY <1>1 DEF Send, HandlerFails, Answer, job_, Evidence, SkipJustified
<1>2. CASE WriteSkipCheck(x)
  <2>1. handlers' = handlers \ {x} /\ UNCHANGED done
    BY <1>2 DEF WriteSkipCheck, Answer
  <2>2. \A h \in Heads : checks'[h] = checks[h] \/ checks'[h] = checks[h] \cup {SkipCheck}
    <3>1. checks' = [checks EXCEPT ![x.message.head] = checks[x.message.head] \cup {SkipCheck}]
      BY <1>2, Zenon DEF WriteSkipCheck, upsertSkippedCheckRun
    <3> QED
      BY <3>1 DEF Types
  <2>3. ~isCompletedReview(SkipCheck)
    BY DEF isCompletedReview, identifiesJob, SkipCheck
  <2> QED
    BY <2>1, <2>2, <2>3, AddCheck DEF Evidence, SkipJustified
<1>3. CASE ReadStatus(x) \/ pinMention(x) \/ SupersedeSkipped(x)
  <2>1. PICK y \in HandlerRecord :
          /\ Advance(x, y) /\ y.reason = x.reason
          /\ x.step = "supersede" => y.message = x.message
    BY <1>3, MovesOn
  <2>2. UNCHANGED <<checks, done>>
    BY <1>3 DEF ReadStatus, pinMention, SupersedeSkipped, job_
  <2>3. y.reason = "same_head_reviewed" => y.message.head \in done
    <3>1. CASE SupersedeSkipped(x)
      BY <2>1, <3>1 DEF SupersedeSkipped, Evidence, SkipJustified
    <3>2. CASE ReadStatus(x) \/ pinMention(x)
      <4>1. x.reason = None
        BY <1>0, <3>2 DEF ReadStatus, pinMention, HandlerOK
      <4> QED
        BY <2>1, <4>1, NoneIsNoSkip DEF Skips
    <3> QED
      BY <1>3, <3>1, <3>2
  <2> QED
    BY <2>1, <2>2, <2>3 DEF Advance, Evidence, SkipJustified
<1> QED
  BY <1>1, <1>2, <1>3

LEMMA JobsEvidence ==
  ASSUME Types, Evidence, NEW sha \in Heads, ReportReview(sha) \/ SaveReview(sha) \/ JobEnds(sha)
  PROVE  Evidence'
<1>1. CASE SaveReview(sha) \/ JobEnds(sha)
  BY <1>1 DEF SaveReview, JobEnds, Evidence, SkipJustified
<1>2. CASE ReportReview(sha)
  <2>1. PICK check \in CheckRun :
          /\ checks' = [checks EXCEPT ![sha] = checks[sha] \cup {check}]
          /\ done \subseteq done' /\ done' \subseteq Heads
          /\ isCompletedReview(check) => sha \in done'
    BY <1>2, ReportEffect
  <2>2. ASSUME NEW h \in Heads, hasCompletedReviewForHead(checks'[h]) PROVE h \in done'
    <3>1. CASE h = sha
      BY <2>1, <2>2, <3>1, AddCheck DEF Types, Evidence
    <3>2. CASE h # sha
      BY <2>1, <2>2, <3>2 DEF Types, Evidence
    <3> QED
      BY <3>1, <3>2
  <2>3. UNCHANGED handlers
    BY <1>2 DEF ReportReview
  <2> QED
    BY <2>1, <2>2, <2>3 DEF Evidence, SkipJustified
<1> QED
  BY <1>1, <1>2

-----------------------------------------------------------------------------
(* The pushes and the heads they leave behind.                                    *)

(* Nothing is left to do for a head that is not the newest.                         *)
Resolved(h) ==
  \/ job[h].state = "ended"
  \/ \E why \in {"draft", "exhausted", "restarted"} : <<why, h>> \in kept

Visited(h) == h = head \/ \E e \in events : e.before = h

(* The supersession of the head a push left is done, or an event, a handler or a     *)
(* message still carries it.                                                    *)
Pending ==
  /\ \A e \in events :
       /\ e.delivery <= Cardinality(events)
       /\ e.event \in {"pull_request", "check_run"} => Visited(e.head)
       /\ \/ e.before = None \/ e \notin answered \/ Resolved(e.before)
          \/ \E m \in queue : m.previousHead = e.before /\ Supersedes(m)
  /\ \A x \in handlers :
       /\ Visited(x.message.head)
       /\ x.step = "check" /\ Supersedes(x.message) => Resolved(x.message.previousHead)
  /\ \A m \in queue :
       /\ Visited(m.head)
       /\ m \in ready /\ Supersedes(m) => Resolved(m.previousHead)
  /\ \A c \in Comments : pins[c] # None => Visited(pins[c].head)
  /\ \A h \in Heads : job[h].state = "live" => Visited(h)

(* A push leaves the head that was visited last.                                   *)
LEMMA DeliverPending ==
  ASSUME Types, Pending, NEW event, NEW action, NEW sha, NEW before \in Heads \cup {None},
         NEW comment, Deliver(event, action, sha, before, comment), sha \in {head', None},
         event \in {"pull_request", "check_run"} => sha = head',
         (before = None /\ head' = head) \/ before = head
  PROVE  Pending'
<1>1. PICK e : /\ events' = events \cup {e} /\ e.delivery = Cardinality(events) + 1
               /\ e.event = event /\ e.head = sha /\ e.before = before /\ e.comment = comment
  BY NewEvent
<1>2. Cardinality(events) \in Nat
  BY FS_CardinalityType DEF Types
<1>3. e \notin events
  BY <1>1, <1>2 DEF Pending
<1>4. Cardinality(events') = Cardinality(events) + 1
  BY <1>1, <1>3, FS_AddElement DEF Types
<1>5. UNCHANGED <<answered, handlers, queue, ready, pins, job, kept>>
  BY DEF Deliver, job_
<1>6. \A h \in Heads : Visited(h) => Visited(h)'
  BY <1>1 DEF Visited
<1>7. \A h : Resolved(h) => Resolved(h)'
  BY <1>5 DEF Resolved
<1>8. Visited(head)' /\ e \notin answered'
  BY <1>3, <1>5 DEF Visited, Types
<1>9. \A d \in events' :
        /\ d.delivery <= Cardinality(events')
        /\ d.event \in {"pull_request", "check_run"} => Visited(d.head)'
        /\ \/ d.before = None \/ d \notin answered' \/ Resolved(d.before)'
           \/ \E m \in queue' : m.previousHead = d.before /\ Supersedes(m)
  <2>1. ASSUME NEW d \in events
        PROVE  /\ d.delivery <= Cardinality(events')
               /\ d.event \in {"pull_request", "check_run"} => Visited(d.head)'
               /\ \/ d.before = None \/ d \notin answered' \/ Resolved(d.before)'
                  \/ \E m \in queue' : m.previousHead = d.before /\ Supersedes(m)
    <3>1. EventOK(d) /\ d.delivery <= Cardinality(events)
      BY <2>1 DEF Types, Pending
    <3>2. d.delivery <= Cardinality(events')
      BY <1>2, <1>4, <3>1 DEF EventOK
    <3>3. d.event \in {"pull_request", "check_run"} => Visited(d.head)'
      BY <1>6, <2>1, <3>1 DEF Pending, EventOK
    <3>4. \/ d.before = None \/ d \notin answered' \/ Resolved(d.before)'
          \/ \E m \in queue' : m.previousHead = d.before /\ Supersedes(m)
      BY <1>5, <1>7, <2>1 DEF Pending
    <3> QED
      BY <3>2, <3>3, <3>4
  <2>2. /\ e.delivery <= Cardinality(events')
        /\ e.event \in {"pull_request", "check_run"} => Visited(e.head)'
        /\ e \notin answered'
    BY <1>1, <1>2, <1>4, <1>8
  <2> QED
    BY <1>1, <2>1, <2>2
<1>10. \A x \in handlers' :
         /\ Visited(x.message.head)'
         /\ x.step = "check" /\ Supersedes(x.message) => Resolved(x.message.previousHead)'
  BY <1>5, <1>6, <1>7 DEF Pending, Types, HandlerRecord, Messages
<1>11. \A m \in queue' :
         /\ Visited(m.head)'
         /\ m \in ready' /\ Supersedes(m) => Resolved(m.previousHead)'
  BY <1>5, <1>6, <1>7 DEF Pending, Types, Messages
<1>12. \A c \in Comments : pins'[c] # None => Visited(pins[c].head)'
  BY <1>5, <1>6 DEF Pending, Types, Messages
<1>13. \A h \in Heads : job'[h].state = "live" => Visited(h)'
  BY <1>5, <1>6 DEF Pending
<1> QED
  BY <1>5, <1>9, <1>10, <1>11, <1>12, <1>13 DEF Pending, Supersedes

LEMMA GitHubPending == ASSUME Types, Pending, GitHub PROVE Pending'
<1>0. head \in Heads
  BY DEF Types
<1>1. ASSUME NEW action, Announced(action) PROVE Pending'
  BY <1>0, <1>1, DeliverPending DEF Announced
<1>2. ASSUME NEW sha \in Heads, Push(sha) PROVE Pending'
  BY <1>0, <1>2, DeliverPending DEF Push
<1>3. CASE Rerequested
  BY <1>0, <1>3, DeliverPending DEF Rerequested
<1>4. ASSUME NEW comment \in Comments, Commented(comment) PROVE Pending'
  BY <1>0, <1>4, DeliverPending, CommentsAssumption
     DEF Commented, Surfaces, DEFAULT_MENTION_SURFACES
<1> QED
  BY <1>1, <1>2, <1>3, <1>4 DEF GitHub

(* A job that is superseded, fails or ends takes nothing back.                      *)
LEMMA ResolvedStays ==
  ASSUME kept \subseteq kept',
         \A h \in Heads : job[h].state = "ended" => job'[h].state = "ended"
  PROVE  \A h \in Heads : Resolved(h) => Resolved(h)'
BY DEF Resolved

LEMMA ReceivePending ==
  ASSUME Types, Handled, Pending, NEW event \in events,
         \/ ReceiveDraft(event) \/ ReceivePull(event) \/ ReceiveRerequest(event)
         \/ ReceiveMention(event) \/ RejectMention(event)
  PROVE  Pending'
<1>0. /\ EventOK(event) /\ head \in Heads
      /\ UNCHANGED <<head, events, pins, queue, ready, job>> /\ kept \subseteq kept'
  BY DEF Types, ReceiveDraft, ReceivePull, ReceiveRerequest, ReceiveMention, RejectMention,
         github, job_
<1>1. \A h : Visited(h) <=> Visited(h)'
  BY <1>0 DEF Visited
<1>2. \A h \in Heads : Resolved(h) => Resolved(h)'
  BY <1>0, ResolvedStays
<1>3. ASSUME NEW x, handlers' = handlers \cup {x}, UNCHANGED answered, Visited(x.message.head),
             x.step # "check" \/ ~Supersedes(x.message)
      PROVE  Pending'
  <2>1. \A e \in events' :
          /\ e.delivery <= Cardinality(events')
          /\ e.event \in {"pull_request", "check_run"} => Visited(e.head)'
          /\ \/ e.before = None \/ e \notin answered' \/ Resolved(e.before)'
             \/ \E m \in queue' : m.previousHead = e.before /\ Supersedes(m)
    BY <1>0, <1>1, <1>2, <1>3 DEF Pending, Types, EventOK
  <2>2. \A z \in handlers' :
          /\ Visited(z.message.head)'
          /\ z.step = "check" /\ Supersedes(z.message) => Resolved(z.message.previousHead)'
    BY <1>1, <1>2, <1>3 DEF Pending, Types, HandlerRecord, Messages, Supersedes
  <2>3. \A m \in queue' :
          /\ Visited(m.head)'
          /\ m \in ready' /\ Supersedes(m) => Resolved(m.previousHead)'
    BY <1>0, <1>1, <1>2 DEF Pending, Types, Messages, Supersedes
  <2>4. /\ \A c \in Comments : pins'[c] # None => Visited(pins[c].head)'
        /\ \A h \in Heads : job'[h].state = "live" => Visited(h)'
    BY <1>0, <1>1 DEF Pending
  <2> QED
    BY <1>0, <2>1, <2>2, <2>3, <2>4 DEF Pending, Supersedes
<1>4. CASE ReceivePull(event)
  <2>1. PICK step, reason, dedupe :
          LET message == Message(event, "automatic", "pull_request", None, event.head, dedupe) IN
            /\ handlers' = handlers \cup {Handler(event, step, message, reason)}
            /\ step = "check" => ~Supersedes(message)
    <3>1. PICK read \in PolicyRead, storeRead \in BOOLEAN, checksRead \in BOOLEAN :
            LET reason == skipReason(read, event, completedHead(event.head, storeRead, checksRead))
                message == Message(event, "automatic", "pull_request", None, event.head,
                                   read.failure \/ read.policy.dedupe_same_head)
                step == IF reason = None THEN "send"
                        ELSE IF Supersedes(message) THEN "supersede" ELSE "check"
            IN handlers' = handlers \cup {Handler(event, step, message, reason)}
      BY <1>4 DEF ReceivePull
    <3> DEFINE reason == skipReason(read, event, completedHead(event.head, storeRead, checksRead))
               dedupe == read.failure \/ read.policy.dedupe_same_head
               message == Message(event, "automatic", "pull_request", None, event.head, dedupe)
               step == IF reason = None THEN "send"
                       ELSE IF Supersedes(message) THEN "supersede" ELSE "check"
    <3>2. step = "check" => ~Supersedes(message)
      <4> HIDE DEF reason, message
      <4> QED
        OBVIOUS
    <3>3. handlers' = handlers \cup {Handler(event, step, message, reason)}
      BY <3>1, Zenon
    <3> HIDE DEF reason, dedupe, step
    <3> QED
      BY <3>2, <3>3, Zenon
  <2> DEFINE message == Message(event, "automatic", "pull_request", None, event.head, dedupe)
             x == Handler(event, step, message, reason)
  <2>2. message.head = event.head
    BY DEF Message
  <2>3. x.step = step /\ x.message = message
    BY HandlerFields
  <2>4. handlers' = handlers \cup {x} /\ (step = "check" => ~Supersedes(message))
    BY <2>1, Zenon
  <2>5. Visited(event.head) /\ UNCHANGED answered
    BY <1>0, <1>4 DEF ReceivePull, Pending
  <2> HIDE DEF message, x
  <2> QED
    BY <1>3, <2>2, <2>3, <2>4, <2>5
<1>5. CASE ReceiveRerequest(event) \/ ReceiveMention(event)
  <2>1. PICK step, source, name, comment, sha :
          /\ handlers' = handlers \cup
               {Handler(event, step, Message(event, source, name, comment, sha, TRUE), None)}
          /\ step # "check" /\ Visited(sha)
    <3>1. CASE ReceiveRerequest(event)
      <4>1. Visited(event.head)
        BY <3>1 DEF ReceiveRerequest, Pending
      <4>2. handlers' = handlers \cup
              {Handler(event, "send",
                 Message(event, "automatic", "check_run.rerequested", None, event.head, TRUE), None)}
        BY <3>1 DEF ReceiveRerequest
      <4>3. "send" # "check"
        OBVIOUS
      <4> QED
        BY <4>1, <4>2, <4>3, Zenon
    <3>2. CASE ReceiveMention(event)
      <4>1. Visited(head)
        BY DEF Visited
      <4>2. handlers' = handlers \cup
              {Handler(event, "status",
                 Message(event, "mention", event.event, event.comment.id, head, TRUE), None)}
        BY <3>2 DEF ReceiveMention
      <4>3. "status" # "check"
        OBVIOUS
      <4> QED
        BY <4>1, <4>2, <4>3, Zenon
    <3> QED
      BY <1>5, <3>1, <3>2
  <2> DEFINE message == Message(event, source, name, comment, sha, TRUE)
             x == Handler(event, step, message, None)
  <2>2. message.head = sha
    BY DEF Message
  <2>3. x.step = step /\ x.message = message
    BY DEF Handler
  <2>4. handlers' = handlers \cup {x} /\ UNCHANGED answered
    BY <1>5, <2>1 DEF ReceiveRerequest, ReceiveMention
  <2> HIDE DEF message, x
  <2> QED
    BY <1>3, <2>1, <2>2, <2>3, <2>4
<1>6. CASE ReceiveDraft(event) \/ RejectMention(event)
  <2>1. event.before = None \/ Resolved(event.before)'
    <3>1. CASE RejectMention(event)
      BY <1>0, <3>1 DEF RejectMention, EventOK, Surfaces, DEFAULT_MENTION_SURFACES
    <3>2. CASE ReceiveDraft(event)
      BY <1>0, <3>2 DEF ReceiveDraft, EventOK, Unended, Resolved
    <3> QED
      BY <1>6, <3>1, <3>2
  <2>2. answered' = answered \cup {event} /\ UNCHANGED handlers
    BY <1>6 DEF ReceiveDraft, RejectMention
  <2>3. \A e \in events' :
          /\ e.delivery <= Cardinality(events')
          /\ e.event \in {"pull_request", "check_run"} => Visited(e.head)'
          /\ \/ e.before = None \/ e \notin answered' \/ Resolved(e.before)'
             \/ \E m \in queue' : m.previousHead = e.before /\ Supersedes(m)
    BY <1>0, <1>1, <1>2, <2>1, <2>2 DEF Pending, Types, EventOK
  <2>4. \A z \in handlers' :
          /\ Visited(z.message.head)'
          /\ z.step = "check" /\ Supersedes(z.message) => Resolved(z.message.previousHead)'
    BY <1>1, <1>2, <2>2 DEF Pending, Types, HandlerRecord, Messages, Supersedes
  <2>5. \A m \in queue' :
          /\ Visited(m.head)'
          /\ m \in ready' /\ Supersedes(m) => Resolved(m.previousHead)'
    BY <1>0, <1>1, <1>2 DEF Pending, Types, Messages, Supersedes
  <2>6. /\ \A c \in Comments : pins'[c] # None => Visited(pins[c].head)'
        /\ \A h \in Heads : job'[h].state = "live" => Visited(h)'
    BY <1>0, <1>1 DEF Pending
  <2> QED
    BY <1>0, <2>3, <2>4, <2>5, <2>6 DEF Pending, Supersedes
<1> QED
  BY <1>4, <1>5, <1>6

(* Of the steps that move no head: what each adds is all there is to see to.           *)
LEMMA PendingStays ==
  ASSUME Types, Pending, UNCHANGED <<head, events>>,
         \A h \in Heads : Resolved(h) => Resolved(h)',
         \A h \in Heads : job'[h].state = "live" => Visited(h),
         \A e \in events :
           e \in answered' \ answered =>
             \/ e.before = None \/ Resolved(e.before)'
             \/ \E m \in queue' : m.previousHead = e.before /\ Supersedes(m),
         \A m \in queue : Supersedes(m) => m \in queue' \/ Resolved(m.previousHead)',
         \A z \in handlers' \ handlers :
           /\ Visited(z.message.head)
           /\ z.step = "check" /\ Supersedes(z.message) => Resolved(z.message.previousHead)',
         \A m \in queue' \ queue : Visited(m.head),
         \A m \in queue' : m \in ready' \ ready /\ Supersedes(m) => Resolved(m.previousHead)',
         \A c \in Comments : pins'[c] = pins[c] \/ Visited(pins'[c].head)
  PROVE  Pending'
<1>1. \A h : Visited(h) <=> Visited(h)'
  BY DEF Visited
<1>2. \A m \in Messages : Supersedes(m) => m.previousHead \in Heads
  BY DEF Messages, Supersedes
<1>3. \A e \in events' :
        /\ e.delivery <= Cardinality(events')
        /\ e.event \in {"pull_request", "check_run"} => Visited(e.head)'
  BY <1>1 DEF Pending
<1>4. \A e \in events' :
        \/ e.before = None \/ e \notin answered' \/ Resolved(e.before)'
        \/ \E m \in queue' : m.previousHead = e.before /\ Supersedes(m)
  <2> SUFFICES ASSUME NEW e \in events, e.before # None, e \in answered,
                      ~Resolved(e.before)'
               PROVE  \E m \in queue' : m.previousHead = e.before /\ Supersedes(m)
    OBVIOUS
  <2>1. e.before \in Heads
    BY DEF Types, EventOK
  <2>2. PICK m \in queue : m.previousHead = e.before /\ Supersedes(m)
    BY <2>1 DEF Pending
  <2> QED
    BY <2>2
<1>5. \A z \in handlers' :
        /\ Visited(z.message.head)'
        /\ z.step = "check" /\ Supersedes(z.message) => Resolved(z.message.previousHead)'
  BY <1>1, <1>2 DEF Pending, Types, HandlerRecord
<1>6. \A m \in queue' :
        /\ Visited(m.head)'
        /\ m \in ready' /\ Supersedes(m) => Resolved(m.previousHead)'
  BY <1>1, <1>2 DEF Pending, Types
<1>7. \A c \in Comments : pins'[c] # None => Visited(pins[c].head)'
  BY <1>1 DEF Pending
<1>8. \A h \in Heads : job'[h].state = "live" => Visited(h)'
  BY <1>1
<1> QED
  BY <1>3, <1>4, <1>5, <1>6, <1>7, <1>8 DEF Pending, Supersedes

LEMMA HandlePending ==
  ASSUME Types, Handled, Pending, NEW x \in handlers,
         \/ ReadStatus(x) \/ pinMention(x) \/ SupersedeSkipped(x) \/ WriteSkipCheck(x)
         \/ Send(x) \/ HandlerFails(x)
  PROVE  Pending'
<1>0. /\ x \in HandlerRecord /\ x.event \in events /\ x.message \in Messages
      /\ HandlerOK(x) /\ EventOK(x.event) /\ Visited(x.message.head)
      /\ x.message.source \in {"automatic", "mention"}
      /\ x.step = "check" /\ Supersedes(x.message) => Resolved(x.message.previousHead)
  BY DEF Types, Handled, HandlerRecord, Messages, Pending
<1>1. CASE ReadStatus(x) \/ pinMention(x) \/ SupersedeSkipped(x)
  <2>1. PICK y \in HandlerRecord :
          /\ Advance(x, y) /\ HandlerOK(y)
          /\ y.step = IF x.step = "status" THEN "pin" ELSE IF x.step = "pin" THEN "send" ELSE "check"
          /\ x.step = "supersede" => y.message = x.message
          /\ x.step = "status" => y.message.head = x.message.head
          /\ x.step = "pin" =>
               /\ x.event.comment \in Comments
               /\ y.message = IF pins[x.event.comment] = None THEN x.message
                               ELSE pins[x.event.comment]
    BY <1>1, MovesOn
  <2>2. /\ UNCHANGED <<head, events, answered, queue, ready, kept>>
        /\ \A z \in handlers' \ handlers : z = y
    BY <1>1, <2>1 DEF ReadStatus, pinMention, SupersedeSkipped, Advance, github
  <2>3. CASE ReadStatus(x)
    <3>1. x.step = "status" /\ UNCHANGED <<pins, job>>
      BY <2>3 DEF ReadStatus, job_
    <3>2. y.step = "pin" /\ Visited(y.message.head)
      BY <1>0, <2>1, <3>1
    <3>3. \A h \in Heads : Resolved(h) => Resolved(h)'
      BY <2>2, <3>1 DEF Resolved
    <3>4. \A h \in Heads : job'[h].state = "live" => Visited(h)
      BY <3>1 DEF Pending
    <3> QED
      BY <2>2, <3>1, <3>2, <3>3, <3>4, PendingStays
  <2>4. CASE pinMention(x)
    <3>1. x.step = "pin" /\ UNCHANGED job
      BY <2>4 DEF pinMention, job_
    <3>2. y.step = "send" /\ Visited(y.message.head)
      BY <1>0, <2>1, <3>1 DEF Pending
    <3>3. \A h \in Heads : Resolved(h) => Resolved(h)'
      BY <2>2, <3>1 DEF Resolved
    <3>4. \A h \in Heads : job'[h].state = "live" => Visited(h)
      BY <3>1 DEF Pending
    <3>5. \A c \in Comments : pins'[c] = pins[c] \/ Visited(pins'[c].head)
      BY <1>0, <2>1, <2>4, <3>1, <3>2 DEF pinMention, Types
    <3> QED
      BY <2>2, <3>1, <3>2, <3>3, <3>4, <3>5, PendingStays
  <2>5. CASE SupersedeSkipped(x)
    <3>1. x.step = "supersede" /\ UNCHANGED pins /\ supersede(x.message.previousHead)
      BY <2>5 DEF SupersedeSkipped
    <3>2. Supersedes(x.message) /\ x.message.previousHead \in Heads
      BY <1>0, <3>1 DEF HandlerOK, Supersedes, Messages
    <3>3. /\ y.message = x.message /\ Visited(y.message.head)
      BY <1>0, <2>1, <3>1
    <3>4. \A h \in Heads :
            /\ job'[h].message = job[h].message
            /\ job'[h].state = IF h = x.message.previousHead THEN "ended" ELSE job[h].state
      BY <3>1, <3>2, SupersedeEffect
    <3>5. \A h \in Heads : Resolved(h) => Resolved(h)'
      BY <2>2, <3>4 DEF Resolved
    <3>6. Resolved(y.message.previousHead)'
      BY <3>2, <3>3, <3>4 DEF Resolved
    <3>7. \A h \in Heads : job'[h].state = "live" => Visited(h)
      BY <3>4 DEF Pending
    <3> QED
      BY <2>2, <3>1, <3>3, <3>5, <3>6, <3>7, PendingStays
  <2> QED
    BY <1>1, <2>3, <2>4, <2>5
<1>2. CASE WriteSkipCheck(x) \/ HandlerFails(x) \/ Send(x)
  <2>1. /\ UNCHANGED <<head, events, pins, ready, kept, job>> /\ handlers' \subseteq handlers
        /\ queue \subseteq queue'
    BY <1>2 DEF WriteSkipCheck, HandlerFails, Send, Answer, github, job_
  <2>2. \A h \in Heads : Resolved(h) => Resolved(h)'
    BY <2>1 DEF Resolved
  <2>3. \A h \in Heads : job'[h].state = "live" => Visited(h)
    BY <2>1 DEF Pending
  <2>4. \A m \in queue' \ queue : Visited(m.head)
    BY <1>0, <1>2 DEF WriteSkipCheck, HandlerFails, Send
  <2>5. x.event.before # None => Supersedes(x.message) /\ x.message.previousHead = x.event.before
    BY <1>0 DEF EventOK, HandlerOK, Supersedes, Messages, Surfaces, DEFAULT_MENTION_SURFACES
  <2>6. \A e \in events :
          e \in answered' \ answered =>
            \/ e.before = None \/ Resolved(e.before)'
            \/ \E m \in queue' : m.previousHead = e.before /\ Supersedes(m)
    <3>1. CASE HandlerFails(x)
      BY <3>1 DEF HandlerFails
    <3>2. CASE WriteSkipCheck(x)
      <4>1. x.step = "check" /\ \A e \in answered' \ answered : e = x.event
        BY <3>2 DEF WriteSkipCheck, Answer
      <4>2. x.event.before = None \/ x.event.before \in Heads
        BY <1>0 DEF EventOK
      <4> QED
        BY <1>0, <2>2, <2>5, <4>1, <4>2
    <3>3. CASE Send(x)
      <4>1. x.message \in queue' /\ \A e \in answered' \ answered : e = x.event
        BY <3>3 DEF Send, Answer
      <4> QED
        BY <2>5, <4>1
    <3> QED
      BY <1>2, <3>1, <3>2, <3>3
  <2> QED
    BY <2>1, <2>2, <2>3, <2>4, <2>6, PendingStays
<1> QED
  BY <1>1, <1>2

LEMMA ConsumePending ==
  ASSUME Types, Pending, NEW m \in queue, SupersedePrevious(m) \/ Start(m) \/ Exhausted(m)
  PROVE  Pending'
<1>0. /\ m \in Messages /\ m.head \in Heads /\ Visited(m.head)
      /\ Supersedes(m) => m.previousHead \in Heads
      /\ m \in ready /\ Supersedes(m) => Resolved(m.previousHead)
  BY DEF Types, Messages, Supersedes, Pending
<1>1. UNCHANGED <<head, events, handlers, answered, pins>>
  BY DEF SupersedePrevious, Start, Exhausted, github
<1>2. CASE SupersedePrevious(m)
  <2>1. /\ supersede(m.previousHead) /\ Supersedes(m) /\ UNCHANGED <<queue, kept>>
        /\ ready' = ready \cup {m}
    BY <1>2 DEF SupersedePrevious
  <2>2. \A h \in Heads :
          /\ job'[h].message = job[h].message
          /\ job'[h].state = IF h = m.previousHead THEN "ended" ELSE job[h].state
    BY <1>0, <2>1, SupersedeEffect
  <2>3. \A h \in Heads : Resolved(h) => Resolved(h)'
    BY <2>1, <2>2 DEF Resolved
  <2>4. Resolved(m.previousHead)'
    BY <1>0, <2>1, <2>2 DEF Resolved
  <2>5. \A h \in Heads : job'[h].state = "live" => Visited(h)
    BY <2>2 DEF Pending
  <2> QED
    BY <1>1, <2>1, <2>3, <2>4, <2>5, PendingStays
<1>3. CASE Start(m)
  <2>1. /\ Claim(m) /\ queue' \in {queue, queue \ {m}} /\ ready' \subseteq ready
        /\ Supersedes(m) => m \in ready
    BY <1>3 DEF Start
  <2>2. /\ \A h \in Heads : job'[h].state = IF h = m.head /\ Fresh(m) THEN "live" ELSE job[h].state
        /\ kept \subseteq kept'
        /\ Fresh(m) /\ job[m.head].state = "ended" => <<"restarted", m.head>> \in kept'
    BY <1>0, <2>1, ClaimEffect
  <2>3. ASSUME NEW h \in Heads, Resolved(h)
        PROVE  Resolved(h)'
    BY <2>2, <2>3 DEF Resolved
  <2>4. \A n \in queue : Supersedes(n) => n \in queue' \/ Resolved(n.previousHead)'
    BY <1>0, <2>1, <2>3
  <2>5. \A h \in Heads : job'[h].state = "live" => Visited(h)
    BY <1>0, <2>2 DEF Pending
  <2> QED
    BY <1>1, <2>1, <2>3, <2>4, <2>5, PendingStays
<1>4. CASE Exhausted(m)
  <2>1. /\ queue' = queue \ {m} /\ ready' = ready \ {m} /\ kept \subseteq kept'
        /\ Supersedes(m) /\ job[m.previousHead].state # "ended"
             => <<"exhausted", m.previousHead>> \in kept'
    BY <1>0, <1>4 DEF Exhausted, Unended
  <2>2. \A h \in Heads :
          \/ job'[h] = job[h]
          \/ h = m.head /\ job[h].state = "absent" /\ job'[h].state = "live"
    BY <1>0, <1>4, ExhaustedEffect
  <2>3. \A h \in Heads : Resolved(h) => Resolved(h)'
    BY <2>1, <2>2 DEF Resolved
  <2>4. Supersedes(m) => Resolved(m.previousHead)'
    BY <1>0, <2>1, <2>2 DEF Resolved
  <2>5. \A h \in Heads : job'[h].state = "live" => Visited(h)
    BY <1>0, <2>2 DEF Pending
  <2> QED
    BY <1>1, <2>1, <2>3, <2>4, <2>5, PendingStays
<1> QED
  BY <1>2, <1>3, <1>4

LEMMA JobsPending ==
  ASSUME Types, Pending, NEW sha \in Heads, ReportReview(sha) \/ SaveReview(sha) \/ JobEnds(sha)
  PROVE  Pending'
<1>1. UNCHANGED <<head, events, handlers, answered, pins, queue, ready, kept>>
  BY DEF ReportReview, SaveReview, JobEnds, github
<1>2. \A h \in Heads : job'[h].state = job[h].state \/ job'[h].state = "ended"
  BY JobsEffect DEF ReportReview
<1>3. \A h \in Heads : Resolved(h) => Resolved(h)'
  BY <1>1, <1>2 DEF Resolved
<1>4. \A h \in Heads : job'[h].state = "live" => Visited(h)
  BY <1>2 DEF Pending
<1> QED
  BY <1>1, <1>3, <1>4, PendingStays

LEMMA InitPending == Init => Pending
BY DEF Init, Pending, newJob

-----------------------------------------------------------------------------
(* The theorems.                                                               *)

IInv == Types /\ Handled /\ Pinned /\ Evidence /\ Pending

LEMMA InitIInv == Init => IInv
BY InitTypes, InitPinned, InitEvidence, InitPending DEF IInv

LEMMA NextIInv == IInv /\ [Next]_vars => IInv'
<1> SUFFICES ASSUME IInv, [Next]_vars PROVE IInv'
  OBVIOUS
<1>0. Types /\ Handled /\ Pinned /\ Evidence /\ Pending
  BY DEF IInv
<1>1. CASE GitHub
  <2>1. UNCHANGED <<handlers, checks, done>>
    BY <1>1 DEF GitHub, Announced, Push, Rerequested, Commented, Deliver, job_
  <2>2. Evidence'
    BY <1>0, <2>1 DEF Evidence, SkipJustified, hasCompletedReviewForHead, ownHeadChecks
  <2> QED
    BY <1>0, <1>1, <2>2, GitHubTypes, GitHubPinned, GitHubPending DEF IInv
<1>2. CASE Receive
  <2>1. PICK event \in events :
          \/ ReceiveDraft(event) \/ ReceivePull(event) \/ ReceiveRerequest(event)
          \/ ReceiveMention(event) \/ RejectMention(event)
    BY <1>2 DEF Receive
  <2>2. Types' /\ Handled'
    BY <1>0, <2>1, ReceiveTypes, ReceiveHandled
  <2>3. Pinned' /\ Evidence'
    BY <1>0, <2>1, ReceivePinned, ReceiveEvidence
  <2>4. Pending'
    BY <1>0, <2>1, ReceivePending
  <2> QED
    BY <2>2, <2>3, <2>4 DEF IInv
<1>3. CASE Handle
  <2>1. PICK x \in handlers :
          \/ ReadStatus(x) \/ pinMention(x) \/ SupersedeSkipped(x) \/ WriteSkipCheck(x)
          \/ Send(x) \/ HandlerFails(x)
    BY <1>3 DEF Handle
  <2>2. Types' /\ Handled'
    BY <1>0, <2>1, HandleTypes, HandleHandled
  <2>3. Pinned' /\ Evidence'
    BY <1>0, <2>1, HandlePinned, HandleEvidence
  <2>4. Pending'
    BY <1>0, <2>1, HandlePending
  <2> QED
    BY <2>2, <2>3, <2>4 DEF IInv
<1>4. CASE Consume
  <2>1. PICK m \in queue : SupersedePrevious(m) \/ Start(m) \/ Exhausted(m)
    BY <1>4 DEF Consume
  <2>2. UNCHANGED <<handlers, checks, done>>
    BY <2>1 DEF SupersedePrevious, Start, Exhausted
  <2>3. Evidence'
    BY <1>0, <2>2 DEF Evidence, SkipJustified, hasCompletedReviewForHead, ownHeadChecks
  <2>4. Types' /\ Handled' /\ Pinned' /\ Pending'
    BY <1>0, <2>1, ConsumeTypes, ConsumePinned, ConsumePending
  <2> QED
    BY <2>3, <2>4 DEF IInv
<1>5. CASE Jobs
  <2>1. PICK sha \in Heads : ReportReview(sha) \/ SaveReview(sha) \/ JobEnds(sha)
    BY <1>5 DEF Jobs
  <2> QED
    BY <1>0, <2>1, JobsTypes, JobsPinned, JobsEvidence, JobsPending DEF IInv
<1>6. CASE UNCHANGED vars
  <2>1. /\ UNCHANGED <<head, events, answered, requests, handlers, pins, queue, ready>>
        /\ UNCHANGED <<job, checks, done, claims, kept>>
    BY <1>6 DEF vars, github, job_
  <2>2. Types' /\ Handled' /\ Pinned'
    BY <1>0, <2>1 DEF Types, EventOK, HandlerRecord, Handled, HandlerOK, Asks, Supersedes,
                      Pinned, Claimed
  <2>3. Evidence'
    BY <1>0, <2>1 DEF Evidence, SkipJustified, hasCompletedReviewForHead, ownHeadChecks
  <2>4. Pending'
    BY <1>0, <2>1 DEF Pending, Visited, Resolved, Supersedes
  <2> QED
    BY <2>2, <2>3, <2>4 DEF IInv
<1> QED
  BY <1>1, <1>2, <1>3, <1>4, <1>5, <1>6 DEF Next

LEMMA Invariant == Spec => []IInv
BY InitIInv, NextIInv, PTL DEF Spec

(* What every message, handler, stored record and job of webhook.ts and             *)
(* queue-consumer.ts holds has its type, and a job that says its head is reviewed     *)
(* has had a review complete there.                                              *)
THEOREM TypeCorrect == Spec => []TypeOK
<1>1. IInv => TypeOK
  BY DEF IInv, Types, TypeOK, HandlerRecord, Steps, JobRecord
<1> QED
  BY <1>1, Invariant, PTL

(* However often a comment is delivered, one of its deliveries at most starts a       *)
(* review, and none when it joined an execution in flight: pinMention and the         *)
(* identities start keeps decide it together.                                     *)
THEOREM ReviewedOnce == Spec => []CommentReviewedOnce
<1>1. IInv => CommentReviewedOnce
  BY DEF IInv, Types, Pinned, Claimed, CommentReviewedOnce
<1> QED
  BY <1>1, Invariant, PTL

(* handleWebhook drops an event as reviewed only when a review of this pull request   *)
(* completed at its head, whichever of its two reads said so.                      *)
THEOREM SkipsAreJustified == Spec => []SkipJustified
<1>1. IInv => SkipJustified
  BY DEF IInv, Evidence
<1> QED
  BY <1>1, Invariant, PTL

(* Whatever the order of the pushes' messages, no older head is left under review,   *)
(* but for one that started again, and for drafts and exhausted messages.            *)
THEOREM OnlyHeadsRun == Spec => []OnlyHeadRuns
<1>1. IInv => OnlyHeadRuns
  <2> SUFFICES ASSUME IInv, Quiet, NEW h \in Heads, Outdated(h)
               PROVE  \E why \in {"draft", "exhausted", "restarted"} : <<why, h>> \in kept
    BY DEF OnlyHeadRuns
  <2>1. h # head /\ job[h].state = "live"
    BY DEF Outdated
  <2>2. PICK e \in events : e.before = h
    BY <2>1 DEF IInv, Pending, Visited
  <2>3. e \in answered /\ e.before # None /\ queue = {}
    BY <2>2, NoneIsNoHead DEF Quiet
  <2>4. Resolved(h)
    BY <2>2, <2>3 DEF IInv, Pending
  <2> QED
    BY <2>1, <2>4 DEF Resolved
<1> QED
  BY <1>1, Invariant, PTL

=============================================================================
