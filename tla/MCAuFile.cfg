SPECIFICATION FairSpec
CONSTANTS
  Pieces = {1, 3}
  MaxBytes = 4
  Foreign <- AllFiles
  MayFail = TRUE
INVARIANTS ReadBack HeaderHonest
PROPERTIES ImplementsTape Reopens OpenFindsData
