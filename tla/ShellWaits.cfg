SPECIFICATION Spec
CONSTANTS
  Lines <- MCLines
  Pids = {1, 2, 3}
  PipeCap = 1
INVARIANTS
  WaitsForEach
CHECK_DEADLOCK FALSE
