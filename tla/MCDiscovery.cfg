SPECIFICATION FairSpec
CONSTANTS
  None = None
  l1 = l1 l2 = l2
  Hunks = {h1, h2}
  Plans <- FourPlans
INVARIANTS TypeOK ReportAccepted NothingLost GapExplained
PROPERTY EventuallyOver
CHECK_DEADLOCK FALSE
