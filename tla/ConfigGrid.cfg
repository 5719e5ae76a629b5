SPECIFICATION Spec
CONSTANTS
  c1 = c1  c2 = c2  c3 = c3
  orthonormal = orthonormal  schmidt = schmidt
  NULL = NULL  Free = Free  Planned = Planned
  Config = {c1, c2}
  Block = {1, 2}
  Size <- GridSize
  Norm = {orthonormal, schmidt}
  GridCall <- VectorOrAxi
  Schmidt = {schmidt}
INVARIANTS NoDangling NoDoubleFree NoLeak
PROPERTY LostByRegridOnly
CHECK_DEADLOCK FALSE
