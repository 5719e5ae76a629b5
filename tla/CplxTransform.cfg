SPECIFICATION Spec
CONSTANTS
  lmax = 3  mmax = 2  nphi = 6
  Team = {2, 3}
  Layout <- BothPlaces
INVARIANTS TypeOK RunningIndex NoRace
PROPERTY Implements
