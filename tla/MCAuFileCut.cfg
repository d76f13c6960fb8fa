SPECIFICATION FairSpec
CONSTANTS
  Pieces = {1, 3}
  MaxBytes = 4
  Foreign <- OneCutOff
  MayFail = FALSE
PROPERTY OpenReturns
