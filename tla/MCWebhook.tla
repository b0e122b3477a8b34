------------------------------ MODULE MCWebhook ------------------------------
(* Instances of Webhook for TLC.                                              *)
EXTENDS Webhook, TLC

Comment(surface, id, association) ==
  [surface |-> surface, id |-> id, association |-> association, mentions |-> TRUE]

OneComment == {Comment("issue_comment", 1, "MEMBER")}

Author(login, labels) ==
  [author |-> login, headBranch |-> "feature", baseBranch |-> "main", labels |-> labels,
   title |-> "change"]

Plain == {Author("ann", {})}

Policy ==
  [promote_to_blocker |-> [agreement_at_least |-> 2, severity_at_least |-> "warning"],
   drop |-> [agreement_at_most |-> 1, severity_at_most |-> "suggestion"],
   block_when |-> [severity_at_least |-> "blocker"], publish_state |-> "comment"]

File(doc) == [exists |-> TRUE, size |-> 1000, doc |-> doc]
Missing == [exists |-> FALSE, size |-> 0, doc |-> << >>]
Triggers(triggers) == File(Policy @@ [triggers |-> triggers])

Unreadable == Triggers([mode |-> None])
(* Too long for the publication policy's reader, not for that of the triggers.       *)
OptOut == [Triggers([dedupe_same_head |-> FALSE]) EXCEPT !.size = PublicationLimit + 1]
Selective ==
  File(Policy @@
    [triggers |-> [drafts |-> "review",
                   events |-> [pull_request |-> [actions |-> {"opened"}],
                               mention |-> [surfaces |-> {"pull_request_review_comment"}]]],
     publish |-> [channels |-> {"review"}]])
Denied ==
  Triggers([mode |-> "denylist", drafts |-> "review",
            rules |-> <<[name |-> "bots", author |-> {"ann"}]>>])

Files == {Missing, Unreadable, OptOut, Selective, Denied}

Ending(exit, status, summary) ==
  [exitCode |-> exit, summary |-> summary, manifestInvalid |-> FALSE, disappeared |-> FALSE,
   process |-> [wellFormed |-> TRUE, status |-> status, exit_code |-> ExitCodes[status],
                failure |-> FALSE]]

Lanes(n) == [wellFormed |-> TRUE, skipped |-> FALSE, dispatched |-> 2, valid |-> n,
             uncovered |-> 0, regions |-> None]

PassAndEmpty == {Ending(0, "pass", Lanes(2)), Ending(0, "pass", Lanes(0))}

(* The same commit, reviewed for another pull request of the repository.          *)
OtherReview ==
  {[external |-> "other", ours |-> TRUE, completed |-> TRUE,
    facts |-> [job |-> "other", artifact |-> "other", skipped |-> FALSE,
               marker |-> TRUE, legacy |-> TRUE]]}

Alike == Permutations(Heads)
=============================================================================
