SPECIFICATION Spec
CONSTANTS
  Tid = {1, 2, 3}
  Page = {p, q, r}
  HashSize = 2
  PageSize = 2
  UintMod = 6
  Byte = {0, 1}
  Written = {1}
  Sizes = {2, 3, 4, 5}
  Args = {1, 3}
  Serial = TRUE
SYMMETRY PageSymmetry
INVARIANTS
  TypeOK
  TableExact
  RefsExact
  Isolated
  ReadsOwn
  FittingInside
  PagesClosed
  HandlerRight
CHECK_DEADLOCK FALSE
