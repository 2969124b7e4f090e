SPECIFICATION Spec
CONSTANTS
  Lines <- MCLines
  Pids = {1, 2, 3}
  PipeCap = 1
INVARIANTS
  TypeOK
  ReapsBalance
  NoInputLost
  AloneInOrder
  RedirectsRight
PROPERTIES
  FittingLineEnds
CHECK_DEADLOCK FALSE
