SPECIFICATION LocalSpec
CONSTANTS
  c1 = c1  c2 = c2  x1 = x1  x2 = x2  b1 = b1  b2 = b2
  orthonormal = orthonormal
  NULL = NULL  Free = Free  Planned = Planned
  Config = {c1, c2}
  Block = {1, 2}
  Size <- LocalSize
  Norm = {orthonormal}
  GridCall = {}
  Schmidt = {}
  MAX_CONFIGS = 1
  Cost = {x1, x2}
  LatCall <- Calls
  NoLat = NoLat  Unset = Unset
  Buffer = {b1, b2}
INVARIANTS ListOK LatOfFilling LatPlanned
SYMMETRY LocalSymmetry
CHECK_DEADLOCK FALSE
