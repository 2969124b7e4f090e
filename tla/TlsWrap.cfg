SPECIFICATION Spec
CONSTANTS
  Tid = {1, 2}
  Page = {p, q, r}
  HashSize = 2
  PageSize = 2
  UintMod = 16
  Byte = {0, 1}
  Written = {1}
  Sizes = {0, 1, 3, 15}
  Args = {0, 1, 2, 15}
  Serial = TRUE
SYMMETRY PageSymmetry
INVARIANTS
  StaysInside
CHECK_DEADLOCK FALSE
