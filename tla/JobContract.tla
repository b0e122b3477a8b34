----------------------------- MODULE JobContract -----------------------------
(***************************************************************************)
(* The pure part of cloud/worker/src/review-job-contract.ts: the states of *)
(* a review job, the transitions between them, and what the status a       *)
(* review process leaves behind makes of the job and of its check run.     *)
(***************************************************************************)

TRANSITIONS ==
  [queued       |-> {"provisioning", "superseded"},
   provisioning |-> {"running", "failed", "superseded"},
   running      |-> {"publishing", "failed", "timed_out", "superseded"},
   publishing   |-> {"completed", "failed", "timed_out", "superseded"},
   completed    |-> {},
   failed       |-> {},
   timed_out    |-> {},
   superseded   |-> {}]

JobStates == DOMAIN TRANSITIONS

canTransition(from, to) == to \in TRANSITIONS[from]

isTerminalState(s) == TRANSITIONS[s] = {}

(* How a review ended, as process.json and summary.json state it together:  *)
(* "skipped" is a pass whose summary records a trigger skip, and "broken"   *)
(* stands for invalid, infra_failed, zero valid lanes and every contract    *)
(* that is missing, malformed or inconsistent.                             *)
Outcomes == {"pass", "block", "skipped", "broken"}

Conclusions == {"success", "failure", "neutral"}

Verdicts == [terminalState : {"completed", "failed"},
             conclusion    : Conclusions,
             reviewed      : BOOLEAN]

(* Faulty variants: the status taken for the conclusion, and a broken contract *)
(* taken for a pass.                                                        *)
StatusAsConclusion(outcome, policy) ==
  [terminalState |-> "completed", conclusion |-> outcome, reviewed |-> TRUE]

BrokenPasses(outcome, policy) ==
  [terminalState |-> "completed",
   conclusion    |-> IF outcome = "block" THEN "failure" ELSE "success",
   reviewed      |-> TRUE]

(* The publication policy may keep a pass, a block, or (without the "checks"   *)
(* channel) both neutral.                                                   *)
checkConclusionForResult(outcome, policy) ==
  [terminalState |-> IF outcome = "broken" THEN "failed" ELSE "completed",
   conclusion    |-> IF outcome = "pass" /\ policy \notin {"noChecks", "passNeutral"}
                       THEN "success"
                     ELSE IF outcome = "block" /\ policy \notin {"noChecks", "blockNeutral"}
                       THEN "failure"
                     ELSE "neutral",
   reviewed      |-> outcome \in {"pass", "block"}]

=============================================================================
