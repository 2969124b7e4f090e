SPECIFICATION EndingSpec
CONSTANTS
  MaxThreads = 3
  MaxSems = 1
  MaxValue = 1
  Waiters = {1, 2}
  Joiners = {0, 1}
  Enders = {0, 1, 2}
INVARIANTS
  TypeOK
  ContextsOwn
  RunnersReady
  WaitersListed
  SemaphoreConserved
PROPERTIES
  JoinReturns
  WokenPass
  ReadyRuns
CHECK_DEADLOCK FALSE
