SPECIFICATION Spec
CONSTANTS
  None = None
  s1 = s1 s2 = s2 s3 = s3
  c1 = c1 c2 = c2 c3 = c3 c4 = c4
  Messages <- RerunMessages
  Sandboxes = {s1, s2}
  CheckRuns = {c1, c2, c3, c4}
  Policies = {"checks", "blockNeutral", "noChecks", "invalid"}
  CrashPoints <- NotStale
  MaxFaults = 2
SYMMETRY Symmetry
PROPERTY LifecycleSpec
