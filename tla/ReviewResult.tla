---------------------------- MODULE ReviewResult ----------------------------
(***************************************************************************)
(* What the Worker makes of the documents a review leaves behind: the       *)
(* readers of process.json and summary.json                                *)
(* (cloud/worker/src/review-job-contract.ts) and the mapping finishPublishing *)
(* builds from both, with the facts it writes into the check run           *)
(* (review-job.ts).  Fields that only carry a type are left out: a document *)
(* that breaks one of them is not `wellFormed'.                            *)
(***************************************************************************)
EXTENDS Naturals, JobContract, Optional

Statuses  == {"pass", "block", "invalid", "infra_failed"}
ExitCodes == [pass |-> 0, block |-> 1, invalid |-> 2, infra_failed |-> 3]

Processes ==
  [wellFormed : BOOLEAN, status : Statuses, exit_code : 0 .. 3, failure : BOOLEAN]

Summaries ==
  [wellFormed : BOOLEAN, skipped : BOOLEAN, dispatched : Nat, valid : Nat,
   uncovered : Nat, regions : Nat \cup {None}]

(* What finishPublishing starts from: the exit code the SDK saw, the two documents, *)
(* the manifest's contract, and whether the process had disappeared.            *)
Endings ==
  [exitCode : 0 .. 3 \cup {None}, process : Processes \cup {None},
   summary : Summaries \cup {None}, manifestInvalid : BOOLEAN, disappeared : BOOLEAN]

(* Status, exit code and failure must agree.                                   *)
parsesProcess(process) ==
  /\ process # None
  /\ process.wellFormed
  /\ process.exit_code = ExitCodes[process.status]
  /\ (process.status \in {"invalid", "infra_failed"}) = process.failure

(* A review without a valid lane is not one, unless its trigger was skipped.     *)
parsesSummary(summary) ==
  /\ summary # None
  /\ summary.wellFormed
  /\ summary.regions # None => summary.regions <= summary.uncovered
  /\ summary.valid <= summary.dispatched
  /\ summary.valid = 0 => summary.skipped

Mapping(state, conclusion, outcome) ==
  [terminalState |-> state, conclusion |-> conclusion, outcome |-> outcome]

(* The exit code of the SDK, when there is one, must be the document's.          *)
conclusionOf(exitCode, process, checks) ==
  IF ~parsesProcess(process) \/ exitCode \notin {None, process.exit_code}
    THEN Mapping("failed", "neutral", None)
  ELSE IF process.status = "pass" THEN Mapping("completed", checks.on_pass, "pass")
  ELSE IF process.status = "block" THEN Mapping("completed", checks.on_block, "block")
  ELSE Mapping("failed", "neutral", None)

(* The overrides of finishPublishing, in its order: the mapping keeps its outcome    *)
(* where only the state and the conclusion are replaced.                        *)
resultMapping(end, checks) ==
  LET mapping == conclusionOf(end.exitCode, end.process, checks)
      failed  == Mapping("failed", "neutral", mapping.outcome)
      readable == /\ parsesSummary(end.summary)
                  /\ ~(end.summary.skipped /\ mapping.outcome = "block")
  IN
  IF end.manifestInvalid \/ end.disappeared THEN failed
  ELSE IF mapping.terminalState = "completed" /\ ~readable THEN failed
  ELSE IF mapping.outcome = "pass" /\ end.summary.skipped
    THEN Mapping(mapping.terminalState, "neutral", None)
  ELSE mapping

isReviewCompleted(mapping, summary) ==
  /\ mapping.terminalState = "completed" /\ mapping.outcome # None
  /\ parsesSummary(summary) /\ summary.valid > 0 /\ ~summary.skipped

(* The record and the check that end the job: without the checks channel the check   *)
(* is neutral and says only whether a review completed.                         *)
finishPublishing(end, policy) ==
  LET mapping == resultMapping(end, policy.checks) IN
  [terminalState |-> mapping.terminalState,
   conclusion |-> IF "checks" \in policy.channels THEN mapping.conclusion ELSE "neutral",
   reviewed   |-> isReviewCompleted(mapping, end.summary)]

-----------------------------------------------------------------------------
(* The contract these documents come down to.                                 *)

(* How a review ended, in the words of JobContract.                            *)
Outcome(end) ==
  LET p == end.process  s == end.summary
      sound == /\ parsesProcess(p) /\ end.exitCode \in {None, p.exit_code}
               /\ ~end.manifestInvalid /\ ~end.disappeared /\ parsesSummary(s)
  IN IF sound /\ p.status = "pass" THEN IF s.skipped THEN "skipped" ELSE "pass"
     ELSE IF sound /\ p.status = "block" /\ ~s.skipped THEN "block"
     ELSE "broken"

PolicyName(policy) ==
  LET passes == policy.checks.on_pass # "neutral"
      blocks == policy.checks.on_block # "neutral"
  IN IF "checks" \notin policy.channels \/ ~(passes \/ blocks) THEN "noChecks"
     ELSE IF ~passes THEN "passNeutral"
     ELSE IF ~blocks THEN "blockNeutral"
     ELSE "checks"

=============================================================================
