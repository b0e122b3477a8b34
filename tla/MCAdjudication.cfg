SPECIFICATION FairSpec
CONSTANTS
  Groups = {g1, g2}
  Replicas = 3
INVARIANTS TypeOK VerdictEarned OutcomeComplete
PROPERTIES DecidedStays EventuallySettled
CHECK_DEADLOCK FALSE
