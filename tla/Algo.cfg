CONSTANTS
  p1 = p1
  p2 = p2
  Process = {p1, p2}
  Call <- MCCall
  Typ <- MCTyp
  Way = {1, 2, 3}
  VSIZE2 = 1
  MaxLines = 2
SPECIFICATION Spec
SYMMETRY Processes
INVARIANTS TableRight OnlyDefault SavedAgain
PROPERTY LoadStable
