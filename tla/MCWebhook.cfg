SPECIFICATION Spec
CONSTANTS
  None = None
  Heads = {a, b}
  Metadata <- Plain
  Comments <- OneComment
  PolicyFiles <- Files
  Reports <- PassAndEmpty
  Foreign <- OtherReview
  MaxEvents = 2
  MaxRequests = 3
INVARIANTS TypeOK CommentReviewedOnce SkipJustified OnlyHeadRuns
SYMMETRY Alike
CHECK_DEADLOCK FALSE
