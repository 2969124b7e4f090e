SPECIFICATION AnyTimeSpec
CONSTANTS
  MaxThreads = 3
  MaxSems = 1
  MaxValue = 1
  Waiters = {}
  Joiners = {}
  Enders = {0, 1, 2}
INVARIANTS
  ContextsOwn
CHECK_DEADLOCK FALSE
