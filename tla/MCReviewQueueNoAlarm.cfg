SPECIFICATION FairQueueSpec
CONSTANTS
  None = None
  Messages <- OneMessage
  Sandboxes = {s1, s2}
  CheckRuns = {c1, c2, c3, c4}
  Policies = {"checks", "invalid"}
  CrashPoints <- BeforeTheFirstAlarm
  LostAttempts <- NotTheLast
  MaxFaults = 1
PROPERTY EventuallyTerminal
CHECK_DEADLOCK FALSE
