---------------------------- MODULE MCReviewQueue ----------------------------
(* Instances of ReviewQueue for TLC.                                          *)
EXTENDS ReviewQueue, TLC

Message(src, com, del, ev, dedupe, skip) ==
  [source |-> src, comment |-> com, delivery |-> del, event |-> ev,
   dedupeSameHead |-> dedupe, skipped |-> skip]

Opened   == Message("automatic", None, 1, "pull_request", TRUE, FALSE)
Rerun    == Message("automatic", None, 2, "check_run.rerequested", TRUE, FALSE)

OneMessage  == {Opened}
RerunMessages == {Opened, Rerun}

NotTheLast == 1 .. FINAL_DELIVERY_ATTEMPT - 1

(* The awaits at which an eviction is recovered: the call is retried by the queue,   *)
(* or the alarm is delivered again.                                            *)
Recovered ==
  ({"start"} \X (Steps \ {"schedule"}))
  \cup (Alarms \X Steps)
  \cup ({"supersede"} \X {"tombstone", "flag"})

(* One more await each, for what an eviction there leaves behind.              *)
BeforeTheFirstAlarm == Recovered \cup {<<"start", "schedule">>}

WhileSuperseding == Recovered \cup {<<"supersede", "neutral">>}
=============================================================================
