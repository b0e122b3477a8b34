----------------------------- MODULE WorkerConfig -----------------------------
(***************************************************************************)
(* What the Worker accepts before it starts a review, and what the command   *)
(* line it builds demands: the environment (cloud/worker/src/config.ts), the  *)
(* queue message (validateReviewJobMessage of webhook.ts) and the invocation  *)
(* of the review (buildRvwRunInvocation of sandbox-auth.ts).  The three check *)
(* the same values in three places; the last one throws inside a start.      *)
(*                                                                         *)
(* A value is what its trimmed text denotes: a number, a name, Blank, or None *)
(* when the variable is not set.                                           *)
(***************************************************************************)
EXTENDS Integers, Optional

CONSTANTS
  Blank,           \* a text of spaces only
  RepositoryParts, \* names that match REPOSITORY_PART
  Shas             \* full lowercase commit ids

MAX_SAFE_INTEGER == 9007199254740991
MAX_REVIEW_DEADLINE_SECONDS == 1800
DEFAULT_JOB_DEADLINE_MINUTES == 90
REVIEW_BUDGET_WAVES == 5
JOB_SLACK_SECONDS == 600
REASONING_EFFORT_VALUES ==
  {"none", "minimal", "low", "medium", "high", "xhigh", "max", "ultra", "persistent"}

-----------------------------------------------------------------------------
(* config.ts.                                                                *)

reviewBudget(deadline) == REVIEW_BUDGET_WAVES * deadline + JOB_SLACK_SECONDS

(* Math.ceil of the budget in minutes.                                         *)
minimumJobDeadlineMinutes(deadline) == (reviewBudget(deadline) + 59) \div 60

jobDeadlineCoversReviewBudget(minutes, deadline) == minutes * 60 >= reviewBudget(deadline)

jobDeadlineMinutes(raw) == IF raw = None THEN DEFAULT_JOB_DEADLINE_MINUTES ELSE raw

(* The checks of requiredConfig in its order; None accepts the environment.       *)
configError(env) ==
  LET minutes == jobDeadlineMinutes(env.jobDeadline) IN
  IF \E key \in {"proxyHost", "appId", "reviewDeadline"} : env[key] \in {None, Blank}
    THEN "config_missing"
  ELSE IF env.reviewDeadline \notin 1 .. MAX_REVIEW_DEADLINE_SECONDS
          \/ minutes \notin 1 .. MAX_SAFE_INTEGER
    THEN "config_invalid"
  ELSE IF ~jobDeadlineCoversReviewBudget(minutes, env.reviewDeadline)
    THEN "config_incoherent"
  ELSE IF env.model = Blank \/ env.reasoningEffort \notin REASONING_EFFORT_VALUES \cup {None}
    THEN "config_invalid"
  ELSE None

requiredConfig(env) ==
  [reviewDeadlineSeconds |-> env.reviewDeadline,
   jobDeadlineMinutes |-> jobDeadlineMinutes(env.jobDeadline),
   model |-> env.model, reasoningEffort |-> env.reasoningEffort]

-----------------------------------------------------------------------------
(* webhook.ts.                                                               *)

positiveInteger == 1 .. MAX_SAFE_INTEGER

idempotencyKey(installation, repoId, prNumber, headSha) ==
  <<installation, repoId, prNumber, headSha>>

validReviewJobMessage(m) ==
  /\ {m.installationId, m.repoId, m.prNumber} \subseteq positiveInteger
  /\ m.headSha \in Shas /\ m.baseSha \in Shas
  /\ {m.owner, m.repo} \subseteq RepositoryParts
  /\ LET key == idempotencyKey(m.installationId, m.repoId, m.prNumber, m.headSha) IN
       m.jobId = key /\ m.idempotencyKey = key
  /\ m.attempt \in 0 .. MAX_SAFE_INTEGER
  /\ m.dedupeSameHead \in BOOLEAN \cup {None}
  /\ m.previousHeadSha \in Shas \cup {None}

-----------------------------------------------------------------------------
(* sandbox-auth.ts: the command line is built, or building it throws.            *)

validCodexPolicy(model, effort) ==
  model # Blank /\ effort \in REASONING_EFFORT_VALUES \cup {None}

buildsInvocation(options) ==
  /\ options.owner \in RepositoryParts /\ options.repo \in RepositoryParts
  /\ options.prNumber \in positiveInteger
  /\ options.baseSha \in Shas /\ options.headSha \in Shas
  /\ options.deadlineSeconds \in 1 .. MAX_REVIEW_DEADLINE_SECONDS
  /\ validCodexPolicy(options.model, options.reasoningEffort)

(* reviewScript: the message, with the deadline and the model of the environment.    *)
ReviewOptions(m, config) ==
  [owner |-> m.owner, repo |-> m.repo, prNumber |-> m.prNumber,
   baseSha |-> m.baseSha, headSha |-> m.headSha,
   deadlineSeconds |-> config.reviewDeadlineSeconds,
   model |-> config.model, reasoningEffort |-> config.reasoningEffort]

=============================================================================
