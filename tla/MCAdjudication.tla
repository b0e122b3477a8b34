--------------------------- MODULE MCAdjudication ---------------------------
(* Instances of Adjudication for TLC: with two groups and three replicas a vote    *)
(* can tie, split three ways, and leave one group to the expanded pass.         *)
EXTENDS Adjudication, TLC

=============================================================================
