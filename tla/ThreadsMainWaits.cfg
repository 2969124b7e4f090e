SPECIFICATION Spec
CONSTANTS
  MaxThreads = 3
  MaxSems = 1
  MaxValue = 1
  Waiters = {0, 1, 2}
  Joiners = {}
  Enders = {0, 1, 2}
INVARIANTS
  MutualExclusion
CHECK_DEADLOCK FALSE
