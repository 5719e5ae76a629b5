SPECIFICATION Spec
CONSTANTS
  Mmax = {0, 2}
  Nlat = {8, 9}
  Nphi = {1, 4, 5}
  Howmany = {1, 2, 3}
  Pad <- Padding
  NoPlan = NoPlan
INVARIANTS TypeOK SynthesisPlanned AnalysisOfFieldPlanned PlacesAgree FieldsFit AdjointWeighted
