SPECIFICATION Spec
CONSTANTS
  r1 = r1
  r2 = r2
  Readers = {r1}
  WriteSizes = {2}
  ReadSizes = {3}
  Ptimes = {1}
  WishSz = 2
  MaxSz = 0
  MaxWritten = 4
  MaxFrames = 3
  MaxNow = 2
INVARIANTS FullOrSilent
