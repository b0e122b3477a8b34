----------------------------- MODULE JobMessage -----------------------------
(***************************************************************************)
(* What the review job reads of a queue message, in                        *)
(* cloud/worker/src/review-job.ts: the identity that keeps a delivery from  *)
(* starting two executions, and whether it may replace a finished one.      *)
(***************************************************************************)
EXTENDS Optional

deliveryIdentity(m) ==
  IF m.source = "mention" /\ m.comment # None
    THEN <<"mention", m.event, m.comment>>
    ELSE <<"delivery", m.delivery>>

canRestart(m) ==
  \/ m.event = "check_run.rerequested"
  \/ m.source = "mention"
  \/ m.event = "pull_request" /\ ~m.dedupeSameHead

=============================================================================
