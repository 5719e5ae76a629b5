SPECIFICATION FlyFairSpec
CONSTANTS
  lmax = 5  mmax = 2  mres = 2  nphi = 5  howmany = 2
  Llim = {0, 3, 5}
  Thread = {t1, t2, t3}
  FftMode <- BatchModes
INVARIANTS TypeOK NoRace
PROPERTIES Implements Returns
