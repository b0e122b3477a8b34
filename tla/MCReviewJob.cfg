SPECIFICATION Spec
CONSTANTS
  None = None
  s1 = s1 s2 = s2 s3 = s3
  c1 = c1 c2 = c2 c3 = c3 c4 = c4
  Messages <- MentionMessages
  Sandboxes = {s1, s2}
  CheckRuns = {c1, c2, c3, c4}
  Policies = {"checks", "noChecks", "invalid"}
  CrashPoints <- Everywhere
  MaxFaults = 2
SYMMETRY Symmetry
INVARIANTS TypeOK NoSandboxLeak OneReviewProcess ConclusionHasEvidence SettledCheckAgrees ClaimedOnce
PROPERTY ReplacesSettled
