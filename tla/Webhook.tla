------------------------------- MODULE Webhook -------------------------------
(***************************************************************************)
(* From the events of one pull request to the jobs of its heads: the         *)
(* handlers of cloud/worker/src/webhook.ts, the trigger policy they read,    *)
(* the queue and its consumer (queue-consumer.ts), and the job objects as    *)
(* HeadJob shows them to their callers.  ReviewJob and ReviewQueue are the   *)
(* same jobs and the same consumer in detail, for one head.                 *)
(*                                                                         *)
(* GitHub delivers an event any number of times and in any order, handlers   *)
(* run concurrently and stop at any await, and the queue redelivers what it   *)
(* has no acknowledgement for.                                             *)
(***************************************************************************)
EXTENDS Naturals, FiniteSets, HeadJob, AutoPolicy, ReviewResult, HeadChecks

CONSTANTS
  Heads,       \* commits the branch of the pull request may point at
  Metadata,    \* authors, branches, labels and titles it may have
  Comments,    \* comments that may be written on it
  PolicyFiles, \* contents of .rvw/policies/auto.yaml at its base
  Reports,     \* ways a review process may end
  Foreign,     \* check runs the commits have from other pull requests
  MaxEvents,   \* bound on the events
  MaxRequests  \* bound on the times GitHub delivers them

ASSUME CommentsAssumption ==
  /\ \A c \in Comments : c.surface \in DEFAULT_MENTION_SURFACES /\ c.id # None
  /\ \A c, d \in Comments : c.id = d.id /\ c.surface = d.surface => c = d
ASSUME ForeignAssumption ==
  /\ Foreign \subseteq CheckRun
  /\ \A check \in Foreign :
       /\ check.external # "own"
       /\ check.facts = None \/ "own" \notin {check.facts.job, check.facts.artifact}
ASSUME NoneIsNoHead == None \notin Heads
ASSUME BoundsAssumption == MaxEvents \in Nat /\ MaxRequests \in Nat

VARIABLES
  file,     \* the policy file
  head,     \* GitHub: the commit of the pull request
  events,   \* GitHub: the deliveries there are
  answered, \* GitHub: those a handler accepted
  requests, \* GitHub: how often an event was delivered
  handlers, \* requests being handled, each with the await it stands at
  pins,     \* the message stored under "mention" for each comment
  queue,    \* messages that are not acknowledged
  ready,    \* those whose previous head the consumer has superseded
  job,      \* the job object of each head
  checks,   \* the check runs of each commit
  done,     \* history: heads with a completed review
  kept,     \* history: heads no handler had superseded, or that started again since
  claims    \* history: executions each comment has started

github == <<file, head, events>>
job_   == <<job, checks, done, claims>>
vars   == <<github, answered, requests, handlers, pins, queue, ready, job_, kept>>

-----------------------------------------------------------------------------
(* GitHub.                                                                   *)

Surfaces == DEFAULT_MENTION_SURFACES

(* The pull request is a draft or not, whatever the events said before: the Worker  *)
(* ignores those of a conversion.                                              *)
Deliver(event, action, sha, before, comment) ==
  /\ Cardinality(events) < MaxEvents
  /\ \E metadata \in Metadata, draft \in {FALSE, event = "pull_request"} :
       events' = events \cup
         {[event |-> event, action |-> action, head |-> sha, before |-> before,
           draft |-> draft, metadata |-> metadata, comment |-> comment,
           delivery |-> Cardinality(events) + 1]}
  /\ UNCHANGED <<file, answered, requests, handlers, pins, queue, ready, job_, kept>>

Announced(action) ==
  /\ action = "opened" => events = {}
  /\ UNCHANGED head /\ Deliver("pull_request", action, head, None, None)

(* A push moves the head, back to an earlier commit too.                       *)
Push(sha) ==
  /\ sha # head /\ head' = sha
  /\ Deliver("pull_request", "synchronize", sha, head, None)

Commented(comment) ==
  UNCHANGED head /\ Deliver(comment.surface, "created", None, None, comment)

(* A check of an older commit does not name the head and is refused.           *)
Rerequested ==
  /\ checks[head] # {}
  /\ UNCHANGED head /\ Deliver("check_run", "rerequested", head, None, None)

-----------------------------------------------------------------------------
(* The webhook.                                                              *)

Message(event, source, name, comment, sha, dedupe) ==
  [source |-> source, comment |-> comment, delivery |-> event.delivery, event |-> name,
   dedupeSameHead |-> dedupe, skipped |-> FALSE, head |-> sha,
   previousHead |-> event.before]

Messages ==
  [source : {"automatic", "mention"}, comment : {c.id : c \in Comments} \cup {None},
   delivery : 1 .. MaxEvents, event : {"pull_request", "check_run.rerequested"} \cup Surfaces,
   dedupeSameHead : BOOLEAN, skipped : BOOLEAN, head : Heads, previousHead : Heads \cup {None}]

ASSUME NoneIsNoMessage == None \notin Messages

Skips == {"rule", "events_disabled", "action_not_selected", "same_head_reviewed"}

ASSUME NoneIsNoSkip == None \notin Skips

Handler(event, step, message, reason) ==
  [event |-> event, step |-> step, message |-> message, reason |-> reason]

Receives(event) ==
  event \in events /\ requests < MaxRequests /\ requests' = requests + 1

(* A read that fails leaves the default policy, like a file that cannot be parsed. *)
PolicyRead == {getTriggerPolicy(file), [policy |-> defaultTriggersPolicy, failure |-> TRUE]}

(* The stored job and the commit's checks, when they can be read.               *)
completedHead(sha, storeRead, checksRead) ==
  \/ storeRead /\ job[sha].reviewed
  \/ checksRead /\ hasCompletedReviewForHead(checks[sha])

(* The reasons of handleWebhook in its order; None sends the message.            *)
skipReason(read, event, completed) ==
  LET policy == read.policy IN
  IF evaluateTrigger(policy, event.metadata, FALSE) THEN "rule"
  ELSE IF read.failure THEN None
  ELSE IF ~policy.pull_request.enabled THEN "events_disabled"
  ELSE IF event.action \notin policy.pull_request.actions THEN "action_not_selected"
  ELSE IF policy.dedupe_same_head /\ completed THEN "same_head_reviewed"
  ELSE None

pullRequestMetadata(event) ==
  [metadata |-> event.metadata, draft |-> event.draft /\ event.action # "ready_for_review"]

IsDraft(read, event) == pullRequestMetadata(event).draft /\ read.policy.drafts = "skip"

Supersedes(message) == message.previousHead \notin {None, message.head}

Unended(heads) == {h \in heads : job[h].state # "ended"}

(* A draft is accepted and forgotten, whatever its push replaces.                *)
ReceiveDraft(event) ==
  /\ Receives(event) /\ event.event = "pull_request"
  /\ \E read \in PolicyRead : IsDraft(read, event)
  /\ answered' = answered \cup {event}
  /\ kept' = kept \cup {<<"draft", h>> : h \in Unended({event.before} \ {None})}
  /\ UNCHANGED <<github, handlers, pins, queue, ready, job_>>

(* Only an explicit opt-out of the policy lets the message restart its head.      *)
ReceivePull(event) ==
  /\ Receives(event) /\ event.event = "pull_request"
  /\ \E read \in PolicyRead, storeRead, checksRead \in BOOLEAN :
       LET reason == skipReason(read, event, completedHead(event.head, storeRead, checksRead))
           message == Message(event, "automatic", "pull_request", None, event.head,
                              read.failure \/ read.policy.dedupe_same_head)
           step == IF reason = None THEN "send"
                   ELSE IF Supersedes(message) THEN "supersede" ELSE "check"
       IN /\ ~IsDraft(read, event)
          /\ handlers' = handlers \cup {Handler(event, step, message, reason)}
  /\ UNCHANGED <<github, answered, pins, queue, ready, job_, kept>>

ReceiveRerequest(event) ==
  /\ Receives(event) /\ event.event = "check_run"
  /\ handlers' = handlers \cup
       {Handler(event, "send",
          Message(event, "automatic", "check_run.rerequested", None, event.head, TRUE), None)}
  /\ UNCHANGED <<github, answered, pins, queue, ready, job_, kept>>

(* The head is the one the pull request has when the comment is handled.          *)
ReceiveMention(event) ==
  /\ Receives(event) /\ event.event \in Surfaces
  /\ event.comment.mentions
  /\ \E read \in PolicyRead :
       LET mention == read.policy.mention IN
         /\ mention.enabled /\ event.event \in mention.surfaces
         /\ event.comment.association \in mention.allow
  /\ handlers' = handlers \cup
       {Handler(event, "status",
          Message(event, "mention", event.event, event.comment.id, head, TRUE), None)}
  /\ UNCHANGED <<github, answered, pins, queue, ready, job_, kept>>

(* No mention, no permission, a closed pull request, or an App whose identity      *)
(* cannot be read: nothing is reviewed and nothing is retried.                    *)
RejectMention(event) ==
  /\ Receives(event) /\ event.event \in Surfaces
  /\ answered' = answered \cup {event}
  /\ UNCHANGED <<github, handlers, pins, queue, ready, job_, kept>>

Advance(x, y) == handlers' = (handlers \ {x}) \cup {y}

Answer(x) == handlers' = handlers \ {x} /\ answered' = answered \cup {x.event}

(* An execution in flight is joined, through the queue.                          *)
ReadStatus(x) ==
  /\ x \in handlers /\ x.step = "status"
  /\ LET joins == job[x.message.head].state = "live" IN
       Advance(x, Handler(x.event, "pin", [x.message EXCEPT !.skipped = joins], x.reason))
  /\ UNCHANGED <<github, answered, requests, pins, queue, ready, job_, kept>>

(* Faulty variant: a redelivered comment is pinned to the head it finds.           *)
repinMention(x) ==
  /\ x \in handlers /\ x.step = "pin"
  /\ pins' = [pins EXCEPT ![x.event.comment] = x.message]
  /\ Advance(x, [x EXCEPT !.step = "send"])
  /\ UNCHANGED <<github, answered, requests, queue, ready, job_, kept>>

(* The first message of a comment is the one every delivery of it sends.           *)
pinMention(x) ==
  /\ x \in handlers /\ x.step = "pin"
  /\ LET c == x.event.comment
         pinned == IF pins[c] = None THEN x.message ELSE pins[c]
     IN /\ pins' = [pins EXCEPT ![c] = pinned]
        /\ Advance(x, Handler(x.event, "send", pinned, x.reason))
  /\ UNCHANGED <<github, answered, requests, queue, ready, job_, kept>>

(* Faulty variant: a skipped push does not supersede the head it replaces.         *)
AnswerSkipped(x) ==
  /\ x \in handlers /\ x.step = "supersede"
  /\ Advance(x, [x EXCEPT !.step = "check"])
  /\ UNCHANGED <<github, answered, requests, pins, queue, ready, job_, kept>>

(* Faulty variant: every job that ends counts as a completed review.              *)
supersedeAsReviewed(sha) == job' = [job EXCEPT ![sha] = ended(concluded(@))]

supersede(sha) == job' = [job EXCEPT ![sha] = ended(@)]

SupersedeSkipped(x) ==
  /\ x \in handlers /\ x.step = "supersede"
  /\ supersede(x.message.previousHead)
  /\ Advance(x, [x EXCEPT !.step = "check"])
  /\ UNCHANGED <<github, answered, requests, pins, queue, ready, checks, done, claims, kept>>

WriteSkipCheck(x) ==
  /\ x \in handlers /\ x.step = "check"
  /\ checks' = [checks EXCEPT ![x.message.head] = upsertSkippedCheckRun(@)]
  /\ Answer(x)
  /\ UNCHANGED <<github, requests, pins, queue, ready, job, done, claims, kept>>

Send(x) ==
  /\ x \in handlers /\ x.step = "send"
  /\ queue' = queue \cup {x.message}
  /\ Answer(x)
  /\ UNCHANGED <<github, requests, pins, ready, job_, kept>>

(* The answer is an error, and the event waits for a redelivery.                  *)
HandlerFails(x) ==
  /\ x \in handlers
  /\ handlers' = handlers \ {x}
  /\ UNCHANGED <<github, answered, requests, pins, queue, ready, job_, kept>>

-----------------------------------------------------------------------------
(* The consumer and the jobs.                                                 *)

SupersedePrevious(m) ==
  /\ m \in queue \ ready /\ Supersedes(m)
  /\ supersede(m.previousHead)
  /\ ready' = ready \cup {m}
  /\ UNCHANGED <<github, answered, requests, handlers, pins, queue, checks, done, claims, kept>>

Fresh(m) == mayStart(job[m.head], m)

Asks(m, c) == m.source = "mention" /\ m.comment = c.id /\ m.event = c.surface

(* Of the deliveries of a message, the job lets at most one claim an execution.      *)
Claim(m) ==
  /\ \E k \in started(job[m.head], m) : job' = [job EXCEPT ![m.head] = k]
  /\ claims' = [c \in Comments |-> claims[c] + IF Fresh(m) /\ Asks(m, c) THEN 1 ELSE 0]
  /\ kept' = kept \cup
       {<<"restarted", h>> : h \in {m.head} \cap {h \in Heads : Fresh(m) /\ job[h].state = "ended"}}

(* The message is acknowledged, or an answer is lost and it is delivered again.     *)
Start(m) ==
  /\ m \in queue
  /\ Supersedes(m) => m \in ready
  /\ Claim(m)
  /\ queue' \in {queue, queue \ {m}} /\ ready' = ready \ {m}
  /\ UNCHANGED <<github, answered, requests, handlers, pins, checks, done>>

(* The last attempt failed, and so may failStart; the supersession is lost if no      *)
(* attempt came to it.  A job that failStart goes on to end is one of JobEnds.       *)
Exhausted(m) ==
  /\ m \in queue
  /\ \E k \in givenUp(job[m.head], m) : job' = [job EXCEPT ![m.head] = k]
  /\ queue' = queue \ {m} /\ ready' = ready \ {m}
  /\ kept' = kept \cup
       {<<"exhausted", h>> : h \in Unended(IF Supersedes(m) THEN {m.previousHead} ELSE {})}
  /\ UNCHANGED <<github, answered, requests, handlers, pins, checks, done, claims>>

(* The facts a review writes: without the checks channel only whether it completed.  *)
reviewFacts(verdict, policy) ==
  LET identity == IF "checks" \in policy.channels THEN "own" ELSE None IN
    [job |-> identity, artifact |-> identity, skipped |-> FALSE,
     marker |-> verdict.reviewed, legacy |-> FALSE]

(* The check of a review that has ended, before the job is saved.                  *)
ReportReview(sha) ==
  /\ job[sha].state = "live"
  /\ \E end \in Reports :
       LET policy == getPublicationPolicy(file).policy
           verdict == finishPublishing(end, policy)
       IN /\ ~getPublicationPolicy(file).failure
          /\ checks' = [checks EXCEPT ![sha] = @ \cup
               {[external |-> "own", ours |-> TRUE, completed |-> TRUE,
                 facts |-> reviewFacts(verdict, policy)]}]
          /\ done' = IF verdict.reviewed THEN done \cup {sha} ELSE done
  /\ UNCHANGED <<github, answered, requests, handlers, pins, queue, ready, job, claims, kept>>

(* Once its check is reported, the job stores that the review completed.           *)
SaveReview(sha) ==
  /\ job[sha].state = "live" /\ sha \in done
  /\ job' = [job EXCEPT ![sha] = concluded(@)]
  /\ UNCHANGED <<github, answered, requests, handlers, pins, queue, ready, checks, done, claims, kept>>

(* The job ends, whether or not it stored what the review reported.                *)
JobEnds(sha) ==
  /\ job[sha].state = "live"
  /\ supersede(sha)
  /\ UNCHANGED <<github, answered, requests, handlers, pins, queue, ready, checks, done, claims, kept>>

-----------------------------------------------------------------------------
Init ==
  /\ file \in PolicyFiles /\ head \in Heads
  /\ events = {} /\ answered = {} /\ handlers = {} /\ queue = {} /\ ready = {}
  /\ pins = [c \in Comments |-> None]
  /\ job = [h \in Heads |-> newJob]
  /\ checks = [h \in Heads |-> Foreign]
  /\ requests = 0 /\ done = {} /\ kept = {} /\ claims = [c \in Comments |-> 0]

GitHub ==
  \/ \E action \in {"opened", "reopened", "ready_for_review"} : Announced(action)
  \/ \E sha \in Heads : Push(sha)
  \/ Rerequested
  \/ \E comment \in Comments : Commented(comment)

Receive ==
  \E event \in events :
    \/ ReceiveDraft(event) \/ ReceivePull(event) \/ ReceiveRerequest(event)
    \/ ReceiveMention(event) \/ RejectMention(event)

Handle ==
  \E x \in handlers :
    \/ ReadStatus(x) \/ pinMention(x) \/ SupersedeSkipped(x) \/ WriteSkipCheck(x)
    \/ Send(x) \/ HandlerFails(x)

Consume == \E m \in queue : SupersedePrevious(m) \/ Start(m) \/ Exhausted(m)

Jobs == \E sha \in Heads : ReportReview(sha) \/ SaveReview(sha) \/ JobEnds(sha)

Next == GitHub \/ Receive \/ Handle \/ Consume \/ Jobs

Spec == Init /\ [][Next]_vars

-----------------------------------------------------------------------------
(* Properties.                                                               *)

TypeOK ==
  /\ head \in Heads /\ done \subseteq Heads
  /\ answered \subseteq events /\ ready \subseteq queue /\ queue \subseteq Messages
  /\ handlers \subseteq [event : events, step : {"status", "pin", "supersede", "check", "send"},
                         message : Messages, reason : Skips \cup {None}]
  /\ pins \in [Comments -> Messages \cup {None}]
  /\ claims \in [Comments -> Nat]
  /\ checks \in [Heads -> SUBSET CheckRun]
  /\ \A h \in Heads :
       /\ job[h].state \in {"absent", "live", "ended"}
       /\ job[h].message \in Messages \cup {None}
       /\ job[h].state = "live" => job[h].message # None /\ job[h].message.head = h
       /\ job[h].reviewed => h \in done

(* However often a comment is delivered, and wherever the head goes in between, it    *)
(* starts one review, and none when it joined the one in flight: "A replay of the     *)
(* same comment stays pinned to its original head" (cloud/README.md:385).          *)
CommentReviewedOnce ==
  \A c \in Comments :
    claims[c] <= IF pins[c] # None /\ pins[c].skipped THEN 0 ELSE 1

(* An event is dropped as reviewed only if a review of this pull request completed   *)
(* at its head, and not by what another pull request left on the same commit.       *)
SkipJustified ==
  \A x \in handlers : x.reason = "same_head_reviewed" => x.message.head \in done

Quiet == events \subseteq answered /\ handlers = {} /\ queue = {}

Outdated(h) == h # head /\ job[h].state = "live"

(* When every event is answered and every message handled, an older head is not      *)
(* being reviewed: the pushes superseded it in whatever order they arrived.  The       *)
(* exceptions are named in `kept': it started again after it had ended, or one of the   *)
(* two cases arose in which the Worker asks for no supersession.                    *)
OnlyHeadRuns ==
  Quiet => \A h \in Heads : Outdated(h) =>
    \E why \in {"draft", "exhausted", "restarted"} : <<why, h>> \in kept

=============================================================================
