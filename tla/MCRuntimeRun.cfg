SPECIFICATION FairSpec
CONSTANTS
  MaxCancels = 2
  Denied = {"term", "grace", "kill", "final"}
  Shutdowns = TRUE
INVARIANTS TypeOK CleanupComplete CancellationPropagates FirstCauseWins EscalationRecorded
PROPERTY EventuallyEnds
CHECK_DEADLOCK FALSE
