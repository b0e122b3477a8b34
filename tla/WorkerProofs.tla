----------------------------- MODULE WorkerProofs -----------------------------
(***************************************************************************)
(* Proofs about what the Worker's object rests on: the credentials it uses,  *)
(* the configuration and the message it accepts, and the documents a review *)
(* leaves for it.                                                          *)
(***************************************************************************)
EXTENDS Credentials, WorkerConfig, ReviewResult, TLAPS

-----------------------------------------------------------------------------
(* Credentials: the tokens in use and the App's identity, for every margin and     *)
(* lifetime, every set of mentions and any passage of time between two steps.     *)

(* A token in use was more than the margin from its end when it was taken.          *)
TokensFresh ==
  \A token \in {held, box} :
    token # None => token.since <= now /\ token.since + Margin < token.expires

(* What the cached identity knows of the moment GitHub read it.                     *)
IdentityTimes ==
  /\ used <= now
  /\ identity # None =>
       /\ used <= identity.read /\ identity.read <= now
       /\ identity.expires <= identity.read + IdentityTTL

(* The request on its way is the one that others join, and was sent after everything  *)
(* that has been answered: no two requests overtake each other.                    *)
RequestOrder ==
  \A m \in Mentions : request[m] # None =>
    /\ pending = m
    /\ used <= request[m].since /\ request[m].since <= now
    /\ identity # None => identity.read <= request[m].since
    /\ request[m].read # None => request[m].since <= request[m].read /\ request[m].read <= now

IInv == TypeOK /\ TokensFresh /\ IdentityTimes /\ RequestOrder

(* A token that getInstallationToken returns outlasts the margin.                  *)
LEMMA TokenOutlastsMargin ==
  ASSUME TypeOK, NEW token \in Times, getInstallationToken(token)
  PROVE  now + Margin < token
<1>1. CASE cache = None
  <2>1. token = now + Lifetime
    BY <1>1, Zenon DEF getInstallationToken
  <2> QED
    BY <2>1, TimesAssumption, LifetimeAssumption DEF TypeOK
<1>2. CASE cache # None
  BY <1>2, TimesAssumption, LifetimeAssumption DEF TypeOK, getInstallationToken, Times
<1> QED
  BY <1>1, <1>2

LEMMA InitIInv == Init => IInv
BY TimesAssumption, NoneAssumption
   DEF Init, IInv, TypeOK, TokensFresh, IdentityTimes, RequestOrder, Times, Phases

LEMMA TickKeeps == IInv /\ Tick => IInv'
<1> SUFFICES ASSUME IInv, Tick PROVE IInv'
  OBVIOUS
<1> USE TimesAssumption, NoneAssumption DEF IInv, Tick, job, app
<1>1. TypeOK'
  BY DEF TypeOK
<1>2. TokensFresh'
  BY DEF TypeOK, TokensFresh, Tokens, Times
<1>3. IdentityTimes'
  BY DEF TypeOK, IdentityTimes
<1>4. RequestOrder'
  BY DEF TypeOK, RequestOrder
<1> QED
  BY <1>1, <1>2, <1>3, <1>4

(* A token that is taken is a token of TypeOK, and fresh.                          *)
LEMMA TakeFresh ==
  ASSUME TypeOK, Take
  PROVE  /\ cache' \in Times
         /\ held' \in Tokens /\ held' # None
         /\ held'.since <= now /\ held'.since + Margin < held'.expires
<1>1. PICK token \in Times :
        getInstallationToken(token) /\ cache' = token /\ held' = [expires |-> token, since |-> now]
  BY DEF Take
<1>2. now + Margin < token
  BY <1>1, TokenOutlastsMargin
<1>3. now \in 0 .. MaxTime
  BY DEF TypeOK
<1>4. held' \in Tokens
  BY <1>1, <1>3 DEF Tokens
<1>5. held'.since = now /\ held'.expires = token
  BY <1>1
<1>6. held' # None
  <2>1. held' \in [expires : Int, since : Int]
    BY <1>4, TimesAssumption DEF Tokens, Times
  <2> QED
    BY <2>1, NoneAssumption
<1> QED
  BY <1>1, <1>2, <1>3, <1>4, <1>5, <1>6, TimesAssumption

LEMMA JobKeeps == IInv /\ Job => IInv'
<1> SUFFICES ASSUME IInv, Job PROVE IInv'
  OBVIOUS
<1> USE TimesAssumption, NoneAssumption DEF IInv
<1>0. IdentityTimes' /\ RequestOrder'
  BY DEF Job, Begin, Launch, Adopt, PollTakes, PollConfigures, PollFails, JobEnds, UpdateCheck,
         Settle, clearInstallationToken, app, IdentityTimes, RequestOrder
<1>1. CASE Begin
  BY <1>0, <1>1, TakeFresh DEF Begin, TypeOK, TokensFresh, Phases, app
<1>2. CASE Launch
  BY <1>0, <1>2 DEF Launch, configureCodexEgress, TypeOK, TokensFresh, Phases, app
<1>3. CASE Adopt
  BY <1>0, <1>3 DEF Adopt, TypeOK, TokensFresh, Phases, app
<1>4. CASE PollTakes
  BY <1>0, <1>4, TakeFresh DEF PollTakes, TypeOK, TokensFresh, Phases, app
<1>5. CASE PollConfigures
  BY <1>0, <1>5 DEF PollConfigures, configureCodexEgress, TypeOK, TokensFresh, Phases, app
<1>6. CASE PollFails
  BY <1>0, <1>6 DEF PollFails, TypeOK, TokensFresh, Phases, app
<1>7. CASE JobEnds
  BY <1>0, <1>7 DEF JobEnds, TypeOK, TokensFresh, Phases, app
<1>8. CASE UpdateCheck
  BY <1>0, <1>8 DEF UpdateCheck, TypeOK, TokensFresh, Phases, app
<1>9. CASE Settle
  BY <1>0, <1>9 DEF Settle, TypeOK, TokensFresh, Phases, app
<1>10. CASE clearInstallationToken
  BY <1>0, <1>10 DEF clearInstallationToken, TypeOK, TokensFresh, Phases, app
<1> QED
  BY <1>1, <1>2, <1>3, <1>4, <1>5, <1>6, <1>7, <1>8, <1>9, <1>10 DEF Job

LEMMA AppKeeps == IInv /\ App => IInv'
<1> SUFFICES ASSUME IInv, NEW m \in Mentions,
               \/ DecideFromCache(m) \/ Ask(m) \/ Join(m)
               \/ GitHubReads(m) \/ Answer(m) \/ AskFails(m)
             PROVE IInv'
  BY DEF App
<1> USE TimesAssumption, NoneAssumption DEF IInv
<1>0. TokensFresh'
  BY DEF DecideFromCache, Ask, Join, GitHubReads, Answer, AskFails, job, TokensFresh
<1>1. CASE DecideFromCache(m)
  BY <1>0, <1>1 DEF DecideFromCache, Current, TypeOK, IdentityTimes, RequestOrder, Times, job
<1>2. CASE Ask(m)
  BY <1>0, <1>2 DEF Ask, TypeOK, IdentityTimes, RequestOrder, Times, job
<1>3. CASE Join(m)
  BY <1>0, <1>3 DEF Join, TypeOK, IdentityTimes, RequestOrder, Times, job
<1>4. CASE GitHubReads(m)
  <2>1. request[m] \in [since : 0 .. MaxTime, read : 0 .. MaxTime \cup {None}]
    BY <1>4 DEF GitHubReads, TypeOK
  <2>2. PICK asked : asked = [since |-> request[m].since, read |-> now]
    OBVIOUS
  <2>3. asked \in [since : 0 .. MaxTime, read : 0 .. MaxTime \cup {None}]
    BY <2>1, <2>2 DEF TypeOK
  <2>4. [request[m] EXCEPT !.read = now] = asked
    BY <2>1, <2>2
  <2>5. request' = [request EXCEPT ![m] = asked]
    BY <1>4, <2>4 DEF GitHubReads
  <2>6. TypeOK'
    BY <1>4, <2>3, <2>5 DEF GitHubReads, TypeOK, job
  <2>7. IdentityTimes'
    BY <1>4 DEF GitHubReads, IdentityTimes, job
  <2>8. RequestOrder'
    BY <1>4, <2>1, <2>2, <2>5 DEF GitHubReads, TypeOK, RequestOrder, job
  <2> QED
    BY <1>0, <2>6, <2>7, <2>8
<1>5. CASE Answer(m)
  <2>1. /\ request[m].since \in 0 .. MaxTime /\ request[m].read \in 0 .. MaxTime
        /\ used <= request[m].since /\ request[m].since <= request[m].read
        /\ request[m].read <= now /\ pending = m
    BY <1>5 DEF Answer, TypeOK, RequestOrder
  <2>2. \A o \in Mentions : request'[o] = None
    BY <1>5, <2>1 DEF Answer, Settles, TypeOK, RequestOrder
  <2>3. /\ identity' \in [read : 0 .. MaxTime, expires : 0 .. MaxTime + IdentityTTL]
        /\ identity'.read = request[m].read
        /\ identity'.expires = request[m].since + IdentityTTL
    BY <1>5, <2>1 DEF Answer
  <2>4. TypeOK'
    BY <1>5, <2>1, <2>2, <2>3 DEF Answer, Settles, TypeOK, job
  <2>5. IdentityTimes'
    BY <1>5, <2>1, <2>3 DEF Answer, TypeOK, IdentityTimes, job
  <2>6. RequestOrder'
    BY <2>2 DEF RequestOrder
  <2> QED
    BY <1>0, <2>4, <2>5, <2>6
<1>6. CASE AskFails(m)
  BY <1>0, <1>6 DEF AskFails, Settles, TypeOK, IdentityTimes, RequestOrder, Times, job
<1> QED
  BY <1>1, <1>2, <1>3, <1>4, <1>5, <1>6

LEMMA StepIInv == IInv /\ [Next]_vars => IInv'
<1>1. IInv /\ UNCHANGED vars => IInv'
  BY DEF IInv, TypeOK, TokensFresh, IdentityTimes, RequestOrder, vars, job, app
<1> QED
  BY <1>1, TickKeeps, JobKeeps, AppKeeps DEF Next

(* A token is held, and is in the sandbox's handlers, in the phases that use one and  *)
(* in no other: a launch hands it over and a settled job leaves none behind.      *)
THEOREM TokensOnlyInUse == Spec => []TypeOK
<1>1. IInv => TypeOK
  BY DEF IInv
<1> QED
  BY <1>1, InitIInv, StepIInv, PTL DEF Spec

(* The token the job works with stays valid for the margin after the start or the    *)
(* poll that last renewed it, however many polls fail, however long each step takes, *)
(* and through lost answers, adopted processes and reruns that find an old token      *)
(* (github-app.ts:187-196, review-job.ts:446, 985-987).                           *)
THEOREM TokenOutlivesMargin == Spec => []TokenUsable
<1>1. IInv => TokenUsable
  BY TimesAssumption, NoneAssumption
     DEF IInv, TypeOK, TokensFresh, TokenUsable, Tokens, Times
<1> QED
  BY <1>1, InitIInv, StepIInv, PTL DEF Spec

(* The identities that decide mentions never go back in time, whether they come from  *)
(* the cache or from the one request in flight, at whatever age its answer is used,   *)
(* and a cached one decides within its time to live (github-app.ts:276-295).       *)
THEOREM IdentityNeverGoesBack == Spec => []IdentityCurrent
<1>1. IInv => IdentityCurrent
  BY TimesAssumption, NoneAssumption
     DEF IInv, TypeOK, IdentityTimes, RequestOrder, IdentityCurrent, Current
<1> QED
  BY <1>1, InitIInv, StepIInv, PTL DEF Spec

-----------------------------------------------------------------------------
(* WorkerConfig: what the three checks of the same values promise each other.   *)

(* The cap that config_incoherent reports is the least number of minutes that      *)
(* covers the review budget (config.ts:137).                                    *)
THEOREM MinimumIsLeast ==
  ASSUME NEW deadline \in Nat
  PROVE  /\ minimumJobDeadlineMinutes(deadline) \in Nat
         /\ \A minutes \in Nat :
              jobDeadlineCoversReviewBudget(minutes, deadline)
                <=> minutes >= minimumJobDeadlineMinutes(deadline)
<1>1. reviewBudget(deadline) \in Nat
  BY DEF reviewBudget, REVIEW_BUDGET_WAVES, JOB_SLACK_SECONDS
<1>2. ASSUME NEW minutes \in Nat, NEW budget \in Nat
      PROVE  minutes * 60 >= budget <=> minutes >= (budget + 59) \div 60
  OBVIOUS
<1>3. (reviewBudget(deadline) + 59) \div 60 \in Nat
  BY <1>1
<1> QED
  BY <1>1, <1>2, <1>3 DEF minimumJobDeadlineMinutes, jobDeadlineCoversReviewBudget

(* The default cap covers a review deadline of sixteen minutes and no more: a longer *)
(* one without an explicit cap is refused (config.ts:12, 105, 151).               *)
THEOREM DefaultCapCovers ==
  ASSUME NEW deadline \in 1 .. MAX_REVIEW_DEADLINE_SECONDS
  PROVE  jobDeadlineCoversReviewBudget(jobDeadlineMinutes(None), deadline)
           <=> deadline <= 960
  BY DEF jobDeadlineCoversReviewBudget, jobDeadlineMinutes, DEFAULT_JOB_DEADLINE_MINUTES,
         reviewBudget, REVIEW_BUDGET_WAVES, JOB_SLACK_SECONDS, MAX_REVIEW_DEADLINE_SECONDS

(* A start that got past its configuration and its message never throws while it     *)
(* builds the command of the review, when a sandbox is already up (review-job.ts:447). *)
THEOREM InvocationNeverThrows ==
  ASSUME NEW env, NEW m, None # "config_missing", None # "config_invalid",
         None # "config_incoherent",
         configError(env) = None, validReviewJobMessage(m)
  PROVE  buildsInvocation(ReviewOptions(m, requiredConfig(env)))
<1>1. /\ env.reviewDeadline \in 1 .. MAX_REVIEW_DEADLINE_SECONDS
      /\ env.model # Blank
      /\ env.reasoningEffort \in REASONING_EFFORT_VALUES \cup {None}
  BY DEF configError
<1>2. /\ m.prNumber \in positiveInteger
      /\ m.owner \in RepositoryParts /\ m.repo \in RepositoryParts
      /\ m.baseSha \in Shas /\ m.headSha \in Shas
  BY DEF validReviewJobMessage
<1> QED
  BY <1>1, <1>2 DEF buildsInvocation, ReviewOptions, requiredConfig, validCodexPolicy

-----------------------------------------------------------------------------
(* ReviewResult: the documents of a review come down to JobContract's outcomes. *)

Policies ==
  [channels : SUBSET {"checks", "review"},
   checks : [on_block : {"failure", "neutral"}, on_pass : {"success", "neutral"}]]

(* The record finishPublishing writes, once the mapping and the evidence are known. *)
LEMMA Finished ==
  ASSUME NEW end, NEW policy, NEW state, NEW conclusion, NEW outcome, NEW evidence,
         resultMapping(end, policy.checks) = Mapping(state, conclusion, outcome),
         isReviewCompleted(Mapping(state, conclusion, outcome), end.summary) = evidence
  PROVE  finishPublishing(end, policy) =
           [terminalState |-> state,
            conclusion |-> IF "checks" \in policy.channels THEN conclusion ELSE "neutral",
            reviewed |-> evidence]
<1> DEFINE mapping == resultMapping(end, policy.checks)
<1>1. mapping.terminalState = state /\ mapping.conclusion = conclusion
  BY DEF Mapping
<1>2. isReviewCompleted(mapping, end.summary) = evidence
  OBVIOUS
<1>3. finishPublishing(end, policy) =
        [terminalState |-> mapping.terminalState,
         conclusion |-> IF "checks" \in policy.channels THEN mapping.conclusion ELSE "neutral",
         reviewed |-> isReviewCompleted(mapping, end.summary)]
  BY DEF finishPublishing
<1> HIDE DEF mapping
<1> QED
  BY <1>1, <1>2, <1>3

(* The rows of the contract's table. *)
LEMMA ContractRows ==
  ASSUME NEW name
  PROVE  /\ checkConclusionForResult("broken", name) =
              [terminalState |-> "failed", conclusion |-> "neutral", reviewed |-> FALSE]
         /\ checkConclusionForResult("skipped", name) =
              [terminalState |-> "completed", conclusion |-> "neutral", reviewed |-> FALSE]
         /\ checkConclusionForResult("pass", name) =
              [terminalState |-> "completed", reviewed |-> TRUE, conclusion |->
                IF name \in {"noChecks", "passNeutral"} THEN "neutral" ELSE "success"]
         /\ checkConclusionForResult("block", name) =
              [terminalState |-> "completed", reviewed |-> TRUE, conclusion |->
                IF name \in {"noChecks", "blockNeutral"} THEN "neutral" ELSE "failure"]
<1>1. /\ ("broken" \in {"pass", "block"}) = FALSE
      /\ ("skipped" \in {"pass", "block"}) = FALSE
      /\ ("pass" \in {"pass", "block"}) = TRUE
      /\ ("block" \in {"pass", "block"}) = TRUE
  OBVIOUS
<1> QED
  BY <1>1 DEF checkConclusionForResult

(* What the two documents, the exit code, the manifest and a lost process make of the *)
(* job and of its check is one of the four outcomes the review job is modelled with,   *)
(* under one of its policies (review-job.ts:876-905, 921).                        *)
THEOREM OutcomesSuffice ==
  ASSUME NEW end \in Endings, NEW policy \in Policies, None \notin Processes,
         None \notin Summaries, None \notin Statuses
  PROVE  finishPublishing(end, policy) = checkConclusionForResult(Outcome(end), PolicyName(policy))
<1> DEFINE checks == policy.checks
           p == end.process
           s == end.summary
           read == parsesProcess(p) /\ end.exitCode \in {None, p.exit_code}
           lost == end.manifestInvalid \/ end.disappeared
<1>1. /\ end.manifestInvalid \in BOOLEAN /\ end.disappeared \in BOOLEAN
      /\ p # None => p.status \in Statuses
      /\ s # None => s.skipped \in BOOLEAN /\ s.valid \in Nat
  BY DEF Endings, Processes, Summaries
<1>2. parsesProcess(p) => p # None /\ p.status \in Statuses
  BY <1>1 DEF parsesProcess
<1>3. parsesSummary(s) => s # None /\ s.skipped \in BOOLEAN /\ s.valid \in Nat
                          /\ (s.valid = 0 => s.skipped)
  BY <1>1 DEF parsesSummary
<1>4. /\ checks.on_pass \in {"success", "neutral"} /\ checks.on_block \in {"failure", "neutral"}
      /\ policy.channels \in SUBSET {"checks", "review"}
  BY DEF Policies
<1>5. CASE ~read \/ p.status \notin {"pass", "block"}
  <2>1. conclusionOf(end.exitCode, p, checks) = Mapping("failed", "neutral", None)
    BY <1>5 DEF conclusionOf
  <2>2. resultMapping(end, policy.checks) = Mapping("failed", "neutral", None)
    BY <2>1 DEF resultMapping, Mapping
  <2>3. Outcome(end) = "broken"
    BY <1>5 DEF Outcome
  <2>4. isReviewCompleted(Mapping("failed", "neutral", None), s) = FALSE
    BY DEF isReviewCompleted, Mapping
  <2>5. finishPublishing(end, policy) =
          [terminalState |-> "failed", conclusion |-> "neutral", reviewed |-> FALSE]
    BY <2>2, <2>4, Finished
  <2> QED
    BY <2>3, <2>5, ContractRows
<1>6. CASE read /\ p.status = "pass"
  <2>1. conclusionOf(end.exitCode, p, checks) = Mapping("completed", checks.on_pass, "pass")
    BY <1>6 DEF conclusionOf
  <2>2. resultMapping(end, policy.checks) =
          IF lost \/ ~parsesSummary(s) THEN Mapping("failed", "neutral", "pass")
          ELSE IF s.skipped THEN Mapping("completed", "neutral", None)
          ELSE Mapping("completed", checks.on_pass, "pass")
    BY <2>1, <1>1 DEF resultMapping, Mapping
  <2>3. Outcome(end) = IF lost \/ ~parsesSummary(s) THEN "broken"
                       ELSE IF s.skipped THEN "skipped" ELSE "pass"
    BY <1>6, <1>1, <1>3 DEF Outcome
  <2>4. CASE lost \/ ~parsesSummary(s)
    <3>1. resultMapping(end, policy.checks) = Mapping("failed", "neutral", "pass") /\ Outcome(end) = "broken"
      BY <2>2, <2>3, <2>4
    <3>2. isReviewCompleted(Mapping("failed", "neutral", "pass"), s) = FALSE
      BY DEF isReviewCompleted, Mapping
    <3>3. finishPublishing(end, policy) =
            [terminalState |-> "failed", conclusion |-> "neutral", reviewed |-> FALSE]
      BY <3>1, <3>2, Finished
    <3> QED
      BY <3>1, <3>3, ContractRows
  <2>5. CASE ~lost /\ parsesSummary(s) /\ s.skipped
    <3>1. resultMapping(end, policy.checks) = Mapping("completed", "neutral", None) /\ Outcome(end) = "skipped"
      BY <2>2, <2>3, <2>5
    <3>2. isReviewCompleted(Mapping("completed", "neutral", None), s) = FALSE
      BY DEF isReviewCompleted, Mapping
    <3>3. finishPublishing(end, policy) =
            [terminalState |-> "completed", conclusion |-> "neutral", reviewed |-> FALSE]
      BY <3>1, <3>2, Finished
    <3> QED
      BY <3>1, <3>3, ContractRows
  <2>6. CASE ~lost /\ parsesSummary(s) /\ ~s.skipped
    <3>1. resultMapping(end, policy.checks) = Mapping("completed", checks.on_pass, "pass")
      BY <2>2, <2>6
    <3>2. isReviewCompleted(Mapping("completed", checks.on_pass, "pass"), s) = TRUE
      <4>1. s.valid > 0
        BY <1>3, <2>6
      <4>2. None # "pass"
        BY DEF Statuses
      <4> QED
        BY <2>6, <4>1, <4>2 DEF isReviewCompleted, Mapping
    <3>3. PolicyName(policy) \in {"noChecks", "passNeutral"}
            <=> "checks" \notin policy.channels \/ checks.on_pass = "neutral"
      BY <1>4 DEF PolicyName
    <3>4. finishPublishing(end, policy) =
            [terminalState |-> "completed", reviewed |-> TRUE,
             conclusion |-> IF "checks" \in policy.channels THEN checks.on_pass ELSE "neutral"]
      BY <3>1, <3>2, Finished
    <3>5. Outcome(end) = "pass"
      BY <2>3, <2>6
    <3> QED
      BY <3>3, <3>4, <3>5, <1>4, ContractRows
  <2> QED
    BY <2>4, <2>5, <2>6
<1>7. CASE read /\ p.status = "block"
  <2>1. conclusionOf(end.exitCode, p, checks) = Mapping("completed", checks.on_block, "block")
    BY <1>7 DEF conclusionOf
  <2>2. resultMapping(end, policy.checks) =
          IF lost \/ ~parsesSummary(s) THEN Mapping("failed", "neutral", "block")
          ELSE IF s.skipped THEN Mapping("failed", "neutral", "block")
          ELSE Mapping("completed", checks.on_block, "block")
    BY <2>1, <1>1 DEF resultMapping, Mapping
  <2>3. Outcome(end) = IF lost \/ ~parsesSummary(s) THEN "broken"
                       ELSE IF s.skipped THEN "broken" ELSE "block"
    BY <1>7, <1>1, <1>3 DEF Outcome
  <2>4. CASE lost \/ ~parsesSummary(s)
    <3>1. resultMapping(end, policy.checks) = Mapping("failed", "neutral", "block") /\ Outcome(end) = "broken"
      BY <2>2, <2>3, <2>4
    <3>2. isReviewCompleted(Mapping("failed", "neutral", "block"), s) = FALSE
      BY DEF isReviewCompleted, Mapping
    <3>3. finishPublishing(end, policy) =
            [terminalState |-> "failed", conclusion |-> "neutral", reviewed |-> FALSE]
      BY <3>1, <3>2, Finished
    <3> QED
      BY <3>1, <3>3, ContractRows
  <2>5. CASE ~lost /\ parsesSummary(s) /\ s.skipped
    <3>1. resultMapping(end, policy.checks) = Mapping("failed", "neutral", "block") /\ Outcome(end) = "broken"
      BY <2>2, <2>3, <2>5
    <3>2. isReviewCompleted(Mapping("failed", "neutral", "block"), s) = FALSE
      BY DEF isReviewCompleted, Mapping
    <3>3. finishPublishing(end, policy) =
            [terminalState |-> "failed", conclusion |-> "neutral", reviewed |-> FALSE]
      BY <3>1, <3>2, Finished
    <3> QED
      BY <3>1, <3>3, ContractRows
  <2>6. CASE ~lost /\ parsesSummary(s) /\ ~s.skipped
    <3>1. resultMapping(end, policy.checks) = Mapping("completed", checks.on_block, "block")
      BY <2>2, <2>6
    <3>2. isReviewCompleted(Mapping("completed", checks.on_block, "block"), s) = TRUE
      <4>1. s.valid > 0
        BY <1>3, <2>6
      <4>2. None # "block"
        BY DEF Statuses
      <4> QED
        BY <2>6, <4>1, <4>2 DEF isReviewCompleted, Mapping
    <3>3. PolicyName(policy) \in {"noChecks", "blockNeutral"}
            <=> "checks" \notin policy.channels \/ checks.on_block = "neutral"
      BY <1>4 DEF PolicyName
    <3>4. finishPublishing(end, policy) =
            [terminalState |-> "completed", reviewed |-> TRUE,
             conclusion |-> IF "checks" \in policy.channels THEN checks.on_block ELSE "neutral"]
      BY <3>1, <3>2, Finished
    <3>5. Outcome(end) = "block"
      BY <2>3, <2>6
    <3> QED
      BY <3>3, <3>4, <3>5, <1>4, ContractRows
  <2> QED
    BY <2>4, <2>5, <2>6
<1> QED
  BY <1>5, <1>6, <1>7, <1>2

=============================================================================
