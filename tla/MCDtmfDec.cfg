SPECIFICATION Spec
CONSTANTS
  k1 = k1
  k2 = k2
  k3 = k3
  None = None
  Keys <- ThreeKeys
  Sizes <- BlockSizes
INVARIANTS NoneMissed
PROPERTY ReportedOnce
