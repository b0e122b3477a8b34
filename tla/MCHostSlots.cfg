SPECIFICATION FairSpec
CONSTANTS
  None = None
  p1 = p1 p2 = p2
  a1 = a1 a2 = a2 a3 = a3 b1 = b1
  Procs = {p1, p2}
  Runs = {a1, a2, a3, b1}
  Owner <- FourRuns
  Cap = 2
  Concurrency = 2
  Kills = {p2}
  Failures = {a1}
INVARIANTS TypeOK SlotHeldExactly
PROPERTIES PoolSpec EventuallyDone
CHECK_DEADLOCK FALSE
