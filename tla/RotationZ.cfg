SPECIFICATION Spec
CONSTANTS
  Size <- TwoSizes
  Angle <- SomeAngles
  Tilt <- SomeTilts
  Thread <- TwoThreads
INVARIANT
  RealRotated
