SPECIFICATION Spec
CONSTANTS
  MaxL = 8
  Truncation <- UpToMaxL
  ShortMax = 9  IntMax = 71
INVARIANTS AtLiM NoUnexpectedError Inverse RootAgrees LiMFits BorrowersFit RoundTrip
CHECK_DEADLOCK FALSE
