SPECIFICATION EarlySpec
CONSTANTS
  MaxThreads = 4
  MaxSems = 0
  MaxValue = 0
  Waiters = {}
  Joiners = {}
  Enders = {0, 1, 2, 3}
INVARIANTS
  ContextsOwn
  NoEarlyEnd
PROPERTIES
  LastExitEnds
  ReadyRuns
CHECK_DEADLOCK FALSE
