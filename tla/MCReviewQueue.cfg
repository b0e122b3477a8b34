SPECIFICATION FairQueueSpec
CONSTANTS
  None = None
  Messages <- OneMessage
  Sandboxes = {s1, s2}
  CheckRuns = {c1, c2, c3, c4}
  Policies = {"checks", "invalid"}
  CrashPoints <- Recovered
  LostAttempts <- NotTheLast
  MaxFaults = 1
INVARIANTS QueueTypeOK AckedIsHandled NeverStranded
PROPERTIES EventuallyTerminal EventuallySettled
CHECK_DEADLOCK FALSE
