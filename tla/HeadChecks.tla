------------------------------ MODULE HeadChecks ------------------------------
(***************************************************************************)
(* The check runs of one commit as cloud/worker/src/github-app.ts reads     *)
(* them: which of them is evidence that the review of one pull request      *)
(* completed, and which one says that its trigger was skipped.  Pull         *)
(* requests that share the commit share its check runs.                     *)
(***************************************************************************)
EXTENDS Optional

(* A job id, or an artifact key, is this pull request's at this head or not.     *)
Identity == {"own", "other"}

(* The JSON block of the check's text.  `legacy' stands for a known terminal      *)
(* reason and a valid lane, which is all that a check from before the marker has. *)
Facts == [job : Identity \cup {None}, artifact : Identity \cup {None},
          skipped : BOOLEAN, marker : BOOLEAN \cup {None}, legacy : BOOLEAN]

(* `external' is the external id: a job id, the id of a skipped trigger, or another *)
(* string.                                                                   *)
CheckRun == [external : Identity \cup {"skip", "opaque"}, ours : BOOLEAN,
             completed : BOOLEAN, facts : Facts \cup {None}]

ownHeadChecks(checks) == {check \in checks : check.ours}

agrees(identity) == identity \in {None, "own"}

(* The embedded identities must agree, and an opaque id needs one of them.       *)
identifiesJob(check) ==
  /\ check.external \in {"own", "opaque"}
  /\ agrees(check.facts.job) /\ agrees(check.facts.artifact)
  /\ check.external = "opaque" => "own" \in {check.facts.job, check.facts.artifact}

isLegacyReview(facts) ==
  facts.marker = None /\ facts.job = "own" /\ facts.artifact = "own" /\ facts.legacy

isCompletedReview(check) ==
  /\ check.completed /\ check.facts # None
  /\ identifiesJob(check)
  /\ ~check.facts.skipped
  /\ check.facts.marker = TRUE \/ isLegacyReview(check.facts)

(* Faulty variant: GitHub's association of the commit is taken for evidence.      *)
completedReviewOfCommit(checks) ==
  \E check \in ownHeadChecks(checks) :
    /\ check.completed /\ check.facts # None /\ ~check.facts.skipped
    /\ check.facts.marker = TRUE \/ isLegacyReview(check.facts)

(* A neutral policy check or an infrastructure result is not a completed review.  *)
hasCompletedReviewForHead(checks) ==
  \E check \in ownHeadChecks(checks) : isCompletedReview(check)

SkipCheck == [external |-> "skip", ours |-> TRUE, completed |-> TRUE,
              facts |-> [job |-> None, artifact |-> None, skipped |-> TRUE,
                         marker |-> None, legacy |-> FALSE]]

(* The skip check of the head is updated, or created where there is none.        *)
upsertSkippedCheckRun(checks) == checks \cup {SkipCheck}

=============================================================================
