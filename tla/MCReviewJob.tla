----------------------------- MODULE MCReviewJob -----------------------------
(* Instances of ReviewJob for TLC: one opened delivery, one explicit rerun of   *)
(* the same head, and a mention.                                              *)
EXTENDS ReviewJob, TLC

CONSTANTS s1, s2, s3, c1, c2, c3, c4

Message(src, com, del, ev, dedupe, skip) ==
  [source |-> src, comment |-> com, delivery |-> del, event |-> ev,
   dedupeSameHead |-> dedupe, skipped |-> skip]

Opened   == Message("automatic", None, 1, "pull_request", TRUE, FALSE)
Rerun    == Message("automatic", None, 2, "check_run.rerequested", TRUE, FALSE)
Mention  == Message("mention", 7, 3, "issue_comment", TRUE, FALSE)
Joined   == Message("mention", 7, 4, "issue_comment", TRUE, TRUE)
Reopened == Message("automatic", None, 5, "pull_request", FALSE, FALSE)

RerunMessages == {Opened, Rerun}
MentionMessages == {Reopened, Mention, Joined}

Everywhere == Kinds \X Steps

(* Not between storing what will be owed and the terminal state, nor between     *)
(* storing the deadline and the running state: the runs about stale flags show   *)
(* what an eviction there does.                                               *)
NotStale == (Kinds \X (Steps \ {"mark"})) \ {<<"start", "run">>}

Symmetry == Permutations(Sandboxes) \cup Permutations(CheckRuns)
=============================================================================
