SPECIFICATION Spec
CONSTANTS
  None = None
  Margin = 2
  Lifetime = 4
  IdentityTTL = 2
  Mentions = {m1, m2}
  MaxTime = 8
SYMMETRY Symmetry
INVARIANTS TypeOK TokenUsable IdentityCurrent
CHECK_DEADLOCK FALSE
