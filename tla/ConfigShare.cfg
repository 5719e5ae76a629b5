SPECIFICATION Spec
CONSTANTS
  c1 = c1  c2 = c2  c3 = c3
  orthonormal = orthonormal  schmidt = schmidt
  NULL = NULL  Free = Free  Planned = Planned
  Config = {c1, c2, c3}
  Block = {1, 2}
  Size <- ShareSize
  Norm = {orthonormal, schmidt}
  GridCall = {}
  Schmidt = {schmidt}
INVARIANTS TypeOK ListOK TablesFit
PROPERTY TablesUntouched
SYMMETRY ConfigSymmetry
CHECK_DEADLOCK FALSE
