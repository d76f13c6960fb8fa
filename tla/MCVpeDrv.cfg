SPECIFICATION FairSpec
CONSTANTS
  t1 = t1
  t2 = t2
  t3 = t3
  Threads = {t1, t2, t3}
  Nobody = Nobody
  Ops <- SharedOps
  IrqMayFail = TRUE
INVARIANTS OneUser EngineOwned
PROPERTIES ImplementsEngine CallsReturn
