# rvw: a verification project

`rvw` reviews pull requests with language models. It is two programs:

- the **App** (`cloud/worker/src`), a Cloudflare Worker that receives GitHub webhooks, queues review
  jobs, keeps one Durable Object per pull-request head, runs the review in a Sandbox container and
  reports a check run;
- the **engine** (`src/rvw`), the Python command that the container runs: it splits a diff into chunks,
  runs *lanes* (model processes) over them, merges and adjudicates what they find, and publishes.

This directory models the parts of both whose difficulty is order, failure and repetition, checks the
models with TLC, and proves the properties that matter most with TLAPS.

## 1. Inventory

### 1.1 The App

| Component | State | Operations | Interaction | What is hard |
|---|---|---|---|---|
| Review job, `review-job.ts` | one `JobRecord` in Durable Object storage, the `handled:` identities, the alarm, a token cache | `start`, `failStart`, `supersede`, `alarm`, `pinMention`, `status` | called by the queue consumer, the webhook, the platform's alarm; calls GitHub and the Sandbox SDK | every operation awaits a dozen external calls; the object may be evicted at each; calls fail after they took effect; deliveries repeat |
| Job contract, `review-job-contract.ts` | none | transition table, mapping of `process.json`/`summary.json` to a conclusion | used by the job | a broken or inconsistent contract must never conclude a check |
| Queue consumer, `queue-consumer.ts` | the queue's attempt counter | deliver, acknowledge, retry, finalize | calls `supersede` of the previous head, then `start`; `failStart` on attempt 4 | at-least-once delivery; the dead-letter queue has no consumer |
| Webhook, `webhook.ts` | none; a pinned message per comment, in an object of its own | verify, parse, evaluate triggers, enqueue; supersede directly when the new head is skipped | reads the policy, GitHub's checks and the job's status; pins mentions; writes skip checks; sends to the queue | handlers of one pull request run concurrently and stop at any await; events repeat and are reordered; what a handler read is stale when its message is handled |
| Trigger and publication policy, `triggers.ts`, `publication-policy.ts` | none | parse, evaluate | read by webhook and job, mirrored by Python | two readers of one file, one fails open, the other closed |
| GitHub client, `github-app.ts` | installation tokens and App identity caches | tokens, check runs, evidence of a completed review | used by the job and the webhook | a cached token expires during an operation; pull requests share a commit's checks |
| Sandbox access, `sandbox*.ts` | the sandbox's outbound handlers, with a token | configure, route and sign outbound requests; build the command | called by the job and from the container | the handlers keep the token of the last poll |
| Configuration, `config.ts` | none | parse the environment | read by every operation of the job | the same values are checked in three places, the last one inside a start |
| Routes, status page, presentation, artifacts, i18n | none | formatting and routing | - | - |

A review job is correct when no order of deliveries, evictions and failures leaks a sandbox, starts two
review processes for one head, concludes a check without evidence, loses a delivery, or leaves a job
that never ends. The webhook is correct when every comment is reviewed at most once, nothing is dropped on
evidence that is not there, and what runs when everything is quiet is the review of the head; its client is
correct when what it cached is still valid where it is used.

### 1.2 The engine

| Component | State | Operations | Interaction | What is hard |
|---|---|---|---|---|
| Host slots, `hostslots.py` | `flock`ed files shared by all processes of a host | acquire, release | taken by dispatch, adjudication and synthesis around every execution | the cap holds across processes; the kernel releases when a process dies |
| Runtime subprocess, `runtimes/codex.py` | one process group, a deadline, a silence watchdog | spawn, watch, terminate and reap | awaited by dispatch; its outcome is a VALID or INVALID result | three reasons to stop race one another; cancellation during the cleanup |
| Dispatch, `dispatch.py` | results by lane, chunk, replica | a wave, the retry wave | called twice by discovery | bounded concurrency, one retry, nothing valid shadowed |
| Discovery, `discover.py`, `diffbudget.py` | receipts, findings and attempts of each lane | plan, redispatch, report | feeds merge | three waves of one lane become one report |
| Adjudication, `adjudicate.py` | votes per group | wave, retry, vote, expanded pass | between merge and gate | strict majority, invalid voters, a second pass over part of the groups |
| Merge, `merge.py` | collapse groups | fold | between discovery and adjudication | folding must neither lose nor invent a finding |
| Synthesis, `synthesis.py` | one report | one validated model call | last phase | validated against what it synthesizes |
| Pipeline, `pipeline.py`, `cli.py` | phase, exit code | run, abort | calls all phases | what a failed or interrupted phase makes of the run |
| Store, `store.py`, `container_entrypoint.py` | files of a run, `process.json` | initialize, finalize | read by the App's job | written in steps, finalized by either side, once |
| Gate, `gate.py` | dispositions inherited across heads | inherit, decide | after adjudication | stale or foreign dispositions |
| Publication, `publish.py`, `threads.py`, `special_publication.py` | reviews and threads on GitHub | publish, resolve, dismiss | after the gate | resends, partial failures, outdated threads |
| Stacks, `stack*.py` | layers of stacked pull requests | attribute, report | over several runs | attribution of a finding to a layer |
| Language gate, `langgate.py` | - | check, repair | publication | bounded retries, fallback |
| Registry, prompts, schemas, lint, targets, reports, presentation | - | parse, format | - | static data and formatting |

A review by the engine is correct when a host never executes more runtimes than it has slots, an execution
that is stopped takes its processes with it and says why it was stopped, no valid output of any wave is
lost, every hunk nobody reviewed is reported, and a finding is dropped only by a majority with evidence.

## 2. Plan

Done, in this order; each row names what it composes.

| Module | Models | Abstract specification | Proofs |
|---|---|---|---|
| `JobContract` | state machine and conclusions, `review-job-contract.ts` | - | - |
| `ReviewJob` (extends `JobContract`) | the Durable Object | `JobLifecycle` | `ReviewJobProofs` |
| `ReviewQueue` (extends `ReviewJob`) | the queue consumer and a newer head around it | - | `ReviewQueueProofs` |
| `RuntimeRun` | one runtime execution | - | `RuntimeRunProofs` |
| `HostSlots` | processes of a host and their slots | `RuntimePool` | `HostSlotsProofs` |
| `Adjudication` | votes, retry, expanded pass | - | `AdjudicationProofs` |
| `Discovery` | initial, retry and coverage waves, the report | - | `DiscoveryProofs` |
| `JobMessage` | the identity of a delivery | - | in theirs |
| `HeadJob` (extends `JobMessage`; used by `ReviewJob` and `Webhook`) | the object of one head as its callers see it | it is one, of `ReviewJob` | in `ReviewJobProofs` |
| `AutoPolicy` | the Worker's two readers of `.rvw/policies/auto.yaml` | - | in `WebhookProofs` |
| `ReviewResult` (extends `JobContract`) | `process.json`, `summary.json` and the mapping built from them | `JobContract`'s outcomes | in `WorkerProofs` |
| `HeadChecks` | the check runs of a commit | - | in `WebhookProofs` |
| `Webhook` (extends the four above) | the events of one pull request, the handlers, the queue and the jobs of its heads | - | `WebhookProofs` |
| `Credentials` | the token and the App identity, with a clock | - | in `WorkerProofs` |
| `WorkerConfig` | environment, message and command line | - | in `WorkerProofs` |

Next, most important first.

1. `ReviewRun`: the run command (`cli.py`, `pipeline.py`, `store.py`): `process.json` starts as a failed
   execution, phases follow one another, a signal or an exception at any write; what is on disk when the
   process ends. Composed with `ReviewResult`: what the job concludes from it is what the run reached.
2. `Publish`: reviews, threads and dismissals on GitHub, resent after partial failures.
3. `Gate` and `Merge`: inherited dispositions; folding as operators against a reference definition.
4. The Python readers of the policy against `AutoPolicy`; `Stack` lineage.

## 3. Modules and code

**`ReviewJob`.** One action is one await of the object: the external effect or the storage write, and the
code up to the next await. `op` is the operation in progress with the await it stands at (the object
serializes `start`, `failStart`, `supersede` and `alarm` through one promise chain), `rec` the stored record,
`handled` the delivery identities, `alarm`/`fired` the platform's alarm, `checks` GitHub's check runs,
`box`/`proc`/`exited` the Sandbox service; `claims` and `faults` only record history. `Evict` loses the
operation at any await in `CrashPoints`; a call may fail without an effect, or take effect and lose its
answer. Callers are open: any message at any time, any number of times, in any order. The operations'
shared tails (`settleCleanup`, `settleNeutralCheck`) are the steps `diagnose` to `settled`, which each
operation runs through as the code calls them.

**`JobContract`** has the transition table and `checkConclusionForResult`; the parsing of `process.json` and
`summary.json` is reduced to the outcome it yields (pass, block, broken in one of several ways).

**`ReviewResult`** is that reduction: `parsesProcess` and `parsesSummary` are the two readers, a document that
breaks a field which only carries a type being not `wellFormed`; `resultMapping` is the chain of overrides in
`finishPublishing`, in its order; `Outcome` names the `JobContract` outcome of an ending.

**`ReviewQueue`** closes `ReviewJob`: a message is delivered at most four times, acknowledged when `start`
returns, retried when it throws, and finalized by `failStart` on the last attempt; the consumer itself may be
lost (`ConsumerLost`). A newer head wants the job superseded.

**`JobLifecycle`** is what the readers of `status()` are promised: states follow the contract, only a
completed review has a conclusion other than neutral, debts of a terminal job shrink, a rerun waits until
nothing is owed.

**`Webhook`** has one action per await of a handler: `handlers` holds the requests in progress with the step they
stand at (`status`, `pin`, `supersede`, `check`, `send`), and reads that precede the first effect are part of
the action that receives the event. The events and the head are GitHub's: pushes move the head anywhere,
back to an earlier commit as well, and an event may be delivered any number of times, in any order; a
handler may stop at any step (`HandlerFails`). `pins` is the object that keeps a comment's first message,
`queue` the messages without an acknowledgement, `ready` those whose supersession the consumer has done;
`job` and `checks` are the jobs and the check runs of each commit, which other pull requests share. A job
is what `HeadJob` says of it; `ReviewJob` and `ReviewQueue` have the same job and consumer in detail, for one head.
`done`, `kept` and `claims` only record history.

**`HeadJob`** is the job object as its callers see it: absent, live or ended, its message, the identities it
handled and whether its review completed. `started`, `givenUp`, `concluded` and `ended` are all that may become of
it, with the outcomes `start` and `failStart` may have. `Webhook` composes the jobs of all heads from these steps
and from nothing else; `ReviewJob`, seen through `jobSeen`, takes no others (`SeenByCallers`).

**`AutoPolicy`** has both readers of the policy file as operators: a mapping is a function on its keys,
`Conforms` checks it against a schema, `OrDefault` fills it in. `HeadChecks` has the evidence that a review
completed, with the identities a check carries in its id, its `job_id` and its artifact key.

**`Credentials`** has a clock that may advance between any two steps: the code puts no limit on its requests to
GitHub, and repeats failed polls (`PollFails`) for as long as they fail. The token of one installation is at up to
three places: the object's storage (`cache`), a start or a poll in progress (`held`), the outbound handlers of a
sandbox that has a process (`box`); it is the time it expires at and the time it was issued or taken. The App's
identity is the state of one isolate: the two module-level maps (`identity`, `pending`), the requests on their way
and, for each mention, the request it awaits. `Answer` writes the cache and decides every mention that waits, with
an identity as old as the answer is by then; `used` records which identity decided last.

**`WorkerConfig`** has the three checks of the same values: `configError` in the order of `requiredConfig`,
`validReviewJobMessage`, and `buildsInvocation`, which throws in the code.

**`RuntimeRun`** has the three asyncio tasks of one execution: the run task (poll loop, deadline, reaping),
the spawn task that owns the process group, and the shielded cleanup task. `Task.cancel()` and its delivery
are two actions, so a deadline, a watchdog and two cancellations meet in every order. The group has a leader
and a child; either may ignore `SIGTERM`; each kill call may be denied.

**`HostSlots`** has one action per `flock` call: a scan starts at any slot and goes on to the next busy one,
and other processes go on between two calls. `Kill` releases a process's locks as the kernel does.
`RuntimePool` is the abstract pool it implements: `Enter` one at a time below the cap, `Leave`.

**`Adjudication`** has one action per replica's answer, a ballot for the whole batch; the barrier of a wave is
`WaveOver`; retry, failure, the vote and the expanded pass are the actions that follow it.

**`Discovery`** has one action per execution of a wave, in any order; `StartRetry`, `StartCoverage` and
`Report` are the barriers between the waves. The report is an operator on the results, as the code builds it,
and `Report` submits it to the two Pydantic validators.

## 4. Runs

| Run | Bounds | Shows |
|---|---|---|
| `review_job_safety` | a reopened pull request, a mention, the join of that mention; 2 sandboxes, 4 check runs, 2 faults | no sandbox leak, one review process, one claim per identity, no conclusion without evidence, settled checks agree with the record, nothing owed is abandoned |
| `review_job_lifecycle` | an opened head and a rerun, 2 faults; no eviction between flag and terminal state | the object implements `JobLifecycle` |
| `review_job_stale_flag` | the same, evictions everywhere | finding 1 |
| `review_queue` | one message, 4 attempts, 1 fault at the awaits that are recovered | acknowledged means handled; no job is ever stranded: its message pursues its start, an alarm its work, an alarm its debts; every job ends and settles |
| `review_queue_no_alarm`, `review_queue_superseded` | the same, one await more each (the first alarm; the check of a superseded job) | findings 2 and 3 |
| `runtime_run` | 2 cancellations, all kill calls may be denied, shutdown | classification by the first cause, cleanup before the end or a record of its failure, every execution ends |
| `host_slots` | 2 processes, 4 runs, 2 slots, one kill, one failure | exact accounting of slots, `RuntimePool` implemented, every run is served or gives up |
| `adjudication` | 2 groups, 3 replicas | earned verdicts, complete outcomes, decided groups stay decided, four waves at most |
| `webhook` | 2 commits, 1 comment, 5 policy files, 2 events, 3 deliveries, a review that passes or has no valid lane, another pull request's review of the same commit | one review per comment, no event dropped without evidence, only the head runs in the end, or what was restarted |
| `credentials` | a unit is 2.5 minutes: margin 2, lifetime 4 (not 24), identity 2, clock 8; 2 mentions | a token in use outlives its last renewal by the margin, no mention is decided by an older identity than one before it |
| `discovery` | 2 lanes; 2 replicas; inline 2 chunks by 2 replicas; 2 hunks, one finding an execution | the report is accepted, nothing valid is lost, gaps are explained, three waves at most |

Why the bounds are enough:

- Two faults reach a fault during the recovery from a fault. Two sandboxes and four check runs are more than
  two claims with one lost answer each can use up. Three messages are one per kind of restart the code
  distinguishes. Publication policies `checks`, `noChecks` and `invalid` reach every mapping of an outcome:
  the two remaining ones mix the first two.
- Four runs on two slots make a process compete with itself and with another; one kill and one failure meet
  every step of the competitor.
- Three replicas distinguish a strict majority, a plurality and a tie; two groups, one decided and one not,
  are all the expanded pass tells apart.
- Two events are a push and what it replaces, a push back, a mention before or after a push, a rerun; three
  deliveries repeat one of them, or two handlers overlap. The policy files are one for each way a policy
  changes a decision: none, unreadable, opting out of deduplication (in a file the triggers' reader
  accepts and the publication policy's refuses as too long), selective events, a rule that matches. The comment and the second pull request are there to be confused with others.
- The clock lets two tokens expire one after the other, and an identity four times; the time between a poll and its
  renewal, the age of a stored token and the age of an answer take every value below and above the margin. Two
  mentions are one that asks and one that joins, asks again or decides from the cache meanwhile.
- Lanes do not interact, so two of them show their independence; two replicas tell `all` from `any`.

**Symmetry** is used for sandboxes and check runs, for the commits of `webhook` and the mentions of `credentials`, in runs without liveness only. **Deadlock** is not checked
where the system stops by itself: the queue's messages are used up, executions and reviews end, events and the clock are bounded.

## 5. Fairness

`ReviewQueue`: awaits return (weak fairness of the operation in progress), the platform delivers scheduled
alarms and redelivers unacknowledged messages, and waiting operations get their turn in the promise chain
(strong fairness, since another operation may stand in front again and again). That the review process ends
is *not* assumed: the deadline does it. The queue's four attempts bound the retries. `LostAttempts` excludes
the loss of the consumer in its last attempt: then no code is left that could end the job, and the platform
drops the message to a queue without a consumer.

`RuntimeRun`: the deadline expires, tasks that can run do run, and the waits of the cleanup end; that a signalled
process dies is not assumed. `HostSlots`: each live process
resumes its tasks and sleeps end; strong, because siblings' scans suspend a task again and again; nothing is
assumed between processes, and that executions end is `EventuallyEnds` of `RuntimeRun`. `Adjudication` and
`Discovery`: executions end, for the same reason, and the coroutine resumes.

## 6. Proofs

All theorems hold for every value of the constants, under the named assumptions of the modules (policies
are those of the code, `None` is no identifier, `Replicas` is positive, the runs of a host are finite, other
pull requests' checks do not carry this one's identity, the tokens GitHub issues live longer than the refresh
margin). Four theorems ask for more, as hypotheses on where the platform may strike; they are listed last.

**`ReviewJobProofs`**

- `TypeCorrect`, `NoLeak`, `SingleProcess`. `NoSandboxLeak` is not inductive: whether a step leaks depends on what
  the operation in progress knows. `AwaitInv` says what holds of the record at each await (for example that
  `destroy` stands at a terminal record with cleanup owed and a named sandbox, that `launch` finds no process
  in it), `RecordInv` what holds of the record at any time; one lemma per action.
- `SingleClaim` adds that an identity that claimed is in `handled`.
- `EvidenceOfConclusion`, `CheckAgreement`. A check and the record are written one after the other, so neither
  property is inductive. `CheckInv` has what the record knows of its check (`CheckRecord`), what is on its way
  between a call of GitHub and the write that records it (`CheckAwait`: what was sent is what will be stored, and
  a verdict has the evidence of the process that ended), and which of the two may lag (`CheckAgrees`).
- `NothingAbandoned`: only `ClaimFresh` gives up a check or a sandbox (`StepKeeps`), and `CheckInv` says that it
  finds them settled.
- `LifecycleImplemented`, `ClassificationKept`: `FlagInv` says which flags a record may carry in which state, and
  that what `flag` stores is read by the very operation that stored it. Each step maps to a step or a stutter of
  `JobLifecycle`; six lemmas (`AdvanceMove` to `ReviewMove`) are the abstract steps, four the groups of awaits.
- `JobAsCallersSeeIt`: each await is one step of `HeadJob` or a stutter, and counts a claim exactly when `mayStart`
  does. It needs `AwaitInv` alone: a start that claims knows its message, what marks a job terminal finds it live.
  With it `ReviewedOnce` and `OnlyHeadsRun` rest on the object whose awaits are modelled one by one: the theorem is
  about each object, and `Webhook` says in which order they are called. No run repeats it.
- `NobodyIsLeftAlone`: whenever no operation is in progress, a job whose work has begun has an alarm, and so has a
  terminal job that owes something. `AlarmInv` says why in between: an operation that has not yet passed the
  settlement, or the alarm handler itself, stands for the alarm it will set.

**`ReviewQueueProofs`**

- `QueueTypeCorrect`, `NoSilentDrop`. A step of the queue is a step of the object or a fault elsewhere
  (`QueueStepOfJob`), so the object's invariants carry over: `JobStaysSafe`. `HandledInv` adds that an operation
  that claimed has handled its message, `QueueInv` how attempts and places of a message go together.
- `JobIsPursued`. `DutyInv` and `DutyMove` are the object's side: a start that returned and a failStart that ended
  leave their own message no job to start, and no step makes one for another message. `PursuitInv` is the
  queue's: the message of a job that has not started is being delivered, waits, or is being finalized.
- `NoJobIsStranded` joins it with the alarms. It is the safety core of `EventuallyTerminal` and
  `EventuallySettled`: those say that the job gets there, this that somebody is always left who would take it.

**The others**

- **`RuntimeRunProofs`**: `TypeCorrect`, `Classification`, `GroupEnds`. The invariant has one part per task:
  what the run task knows of the cancellations it was sent, that the spawn task does not settle before its
  cleanup, and what a finished cleanup leaves.
- **`HostSlotsProofs`**: `Accounting` (each slot's lock belongs to one executing run and vice versa) and
  `Implements`: each step maps to `Enter`, `Leave` or a stutter of `RuntimePool`. That `Enter` finds room is
  the pigeonhole argument `AtMostCap`: the executing runs inject into the slots.
- **`AdjudicationProofs`**: `TypeCorrect`, `Earned`, `Complete`, `Stays`. `Counted` (every valid output has
  cast one vote for each group of the batch) bounds the tallies and makes verdicts rest on votes; `Stage` says
  which groups have verdicts in which pass. `StrictMajorityWins` is the arithmetic of the vote.
- **`DiscoveryProofs`**: `TypeCorrect`, `Accepted`, `Complete`, `Explained`. `WaveInv` orders the three waves: which
  executions a wave may hold, which results it leaves, that a retry has an invalid first result and a
  coverage execution a gap. The report is an operator on the results, so the three properties are lemmas about
  that operator in a state where the waves are over; `Accepted` is a counting argument over the sets of
  executions that the validators count again.
- **`WebhookProofs`**: `TypeCorrect`, `ReviewedOnce`, `SkipsAreJustified`, `OnlyHeadsRun`. None of the last three
  is inductive. `Handled` ties a handler to the message of its event, and the parts after it carry one
  argument each. `Pinned`: every message of a comment, in a handler that sends it or in the queue, is the
  pinned one, so all of its deliveries have one identity at one head; and a comment that claimed has that
  identity among the job's handled ones, where it stays. `Evidence`: a completed check of this pull
  request exists only where its review completed, whatever other pull requests left. `Pending`: the push
  that moved the head away from a commit is unanswered, in a handler that will supersede it, in the queue,
  or the commit is resolved (its job ended, or started again after that), so nothing is left when all is quiet.
- **`WorkerProofs`**, about three small modules. `Credentials`: `TokensOnlyInUse`, `TokenOutlivesMargin`,
  `IdentityNeverGoesBack`. `TokensFresh` says that a token was more than the margin from its end when it was taken,
  which no passage of time undoes; `RequestOrder` that all that wait await the one pending request, which was sent
  after everything that has decided a mention. `ReviewResult`: `OutcomesSuffice`, for every pair of documents, exit code
  and policy, the terminal state and the conclusion of `finishPublishing` are those `JobContract` has for the
  outcome, so what is proved with four outcomes in `ReviewJob` holds of all documents. `WorkerConfig`:
  `MinimumIsLeast`, `DefaultCapCovers`, `InvocationNeverThrows`: the first two are the arithmetic of the two
  deadlines, the third says that the check which throws inside a start is implied by the two that precede it;
  these operators have no run, as they have no state.

**Hypotheses on the platform.** Each names the awaits at which losing the object or the consumer breaks the
property; that they are needed is what the violated runs, or the platform, show.

| Hypothesis | Says | Without it | Used by |
|---|---|---|---|
| `NoStaleFlags` | no eviction between storing what will be owed and the terminal state, nor between the deadline and the running state | finding 1 | `LifecycleImplemented`, `ClassificationKept`, `NobodyIsLeftAlone`, `NoJobIsStranded` |
| `AlarmsRun` | no eviction between the running state and the first alarm, nor in the settlement of a supersession or a failed start | findings 2 and 3 | `NobodyIsLeftAlone`, `NoJobIsStranded` |
| `LastAttemptRuns` | neither the consumer nor the object is lost in the last attempt | the message is in a queue nobody reads | `JobIsPursued`, `NoJobIsStranded` |

Every invariant and action property that a run checks has a theorem. What stays with TLC is liveness
(`EventuallyTerminal`, `EventuallySettled`, `EventuallyEnds`, `EventuallyDone`, `EventuallyOver`): their proofs need
`ENABLED` under fairness, which the prover does not do.

## 7. Findings

1. `review-job.ts:565`: obligations are stored before the terminal state. Evicted in between, they stay on a
   live record, and a review that later completes is rewritten to neutral.
2. `review-job.ts:472`: the running state is stored before the first alarm. Evicted in between, nobody polls
   the review or its deadline.
3. `review-job.ts:557`: a supersession stores the terminal state before it completes the check run, and schedules
   no alarm. The job of the counterexample never had one: its publication policy is refused, so its start throws
   on all four attempts, with a check run and without a sandbox. It is superseded before `failStart` ends
   it, and the object is evicted before the update of the check; the retried supersession and `failStart` find
   a terminal record and return, and the check stays in progress. A job that was running keeps the alarm of
   line 472, which settles sandbox and check.

Met while modelling, and not run:

- `review-job.ts:408`: the check run is created before its id is stored. When the answer is lost, the retry
  creates another, and the first stays in progress, where
  `openspec/changes/cloud-a1-review-pipeline/specs/cloud-app-platform/spec.md:59` wants one per job.
- `codex.py:225`: the shielded cleanup of a process group is itself a task of the loop that `asyncio.run`
  cancels at shutdown, so the group may outlive its slot (`openspec/specs/operation-modes/spec.md:46`).
- `webhook.ts:359`: the push to a draft is answered without superseding the head it replaces, whose review
  goes on. `openspec/changes/review-trigger-modes/specs/cloud-app-platform/spec.md:117` says that
  "Synchronize supersession MUST still occur on policy skips", line 115 that a draft produces nothing;
  whether a draft is a policy skip is left open. `OnlyHeadRuns` names this case in `kept`, and the
  supersession that is lost when all attempts of a message fail.
- With `dedupe_same_head: false`, a late message of an older head restarts the head that was superseded;
  `OnlyHeadRuns` names that "restarted" in `kept`, as it does a rerun somebody asked for. With deduplication, a push back to a head that
  was superseded before its review completed is not reviewed by itself: its job has ended.
- `github-app.ts:605`: two handlers that find no skip check create two.
- `github-app.ts:509`, `webhook.ts:353`: a policy that cannot be read is replaced by the default, so an event
  the file would have skipped is reviewed; the publication reader of the same file closes down instead.
- `triggers.ts:203`: a policy file of 32 to 64 KiB is accepted for triggers and refused for publication.
- `review-job.ts:932`: an object evicted before it clears its token keeps it; the next start finds and uses it
  within its life.
- `review-job.ts:1015`: failed polls are repeated every 30 seconds without bound and each leaves the sandbox its
  token. When they fail for the last five minutes of its life, the review's requests to GitHub fail as well.
- `github-app.ts:282`: a mention that joins a request uses its answer at whatever age it has by then; the five
  minutes bound what the cache decides, and `IdentityCurrent` says no more than that of the age.
- `openspec/specs/operation-modes/spec.md:40` promises that a killed process's runtimes end with it; the kernel
  frees the slots at once, while the runtimes have only been sent `SIGTERM`. `HostSlots` does not count them.
- `codex.py:339` says that a failed reap is raised; when the deadline expires as well (`codex.py:369`) the
  execution is reported as having produced no output.

## 8. What is not modelled

- **`ReviewJob`**: failures of the object's own storage; the read-back of the App's slug; the contents of
  diagnostics and artifacts. The token cache is in `Credentials`, `pinMention` in `Webhook`.
- **`Webhook`**: the signature and the parsing of payloads beyond what they are refused for; the markdown a
  mention is found in (a comment mentions the App or does not); the reaction to a comment; the wording of
  skip checks; repositories, installations and pull requests other than by what they share. A push
  changes the head, never the base or the policy file.
- **`AutoPolicy`**: YAML scalars and their coercions, `fnmatch` and regular expressions (sets of what they match),
  failed reads of the publication policy (the start fails).
- **`Credentials`**: the optional `issues` token of reactions; several repositories; how long a call takes, which
  the clock leaves open; the order of Worker isolates, each of which has its own identity cache; clocks that go back.
- **`ReviewResult`**: fields of the documents that only carry a type; texts and titles.
- **`WorkerConfig`**: the spelling of numbers, error classes, quoting of the command line.
- **`RuntimeRun`**: the validation of an output (an execution that exits is `exited`, VALID or not); usage
  accounting; process groups without an id. asyncio's own cleanup of a process cancelled during its creation
  is taken as external. A runtime that exits by itself gets no group cleanup: a child may live on.
- **`HostSlots`**: the checks of directory modes and owners, jitter of the sleeps, runtimes of killed processes.
- **`Adjudication`**: reasons, quoted evidence beyond its presence, wall times. An output that repeats a group
  counts by its first item.
- **`Discovery`**: the cutting of the diff into chunks, the parsing of receipts into hunks, the enrichment
  and anchoring of findings, prompts and directories.
- Components without state or order (formatting, parsing, static configuration, plain I/O) are listed with
  their reason in `PROJECT.json`; those of section 2 are planned.
