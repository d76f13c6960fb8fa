SPECIFICATION Spec
CONSTANTS
  r1 = r1
  r2 = r2
  Readers = {r1, r2}
  WriteSizes = {0, 1, 3}
  ReadSizes = {1, 2}
  Ptimes = {2}
  WishSz = 3
  MaxSz = 4
  MaxWritten = 6
  MaxFrames = 3
  MaxNow = 3
INVARIANTS SizeAccounted Paced FullOrSilent LoopAgrees
PROPERTIES InOrder ImplementsFifo
