SPECIFICATION FairSpec
CONSTANTS
  s1 = s1
  s2 = s2
  Sources = {s1, s2}
  Content = {s2}
  None = None
  Remains = Remains
  Puts <- LifePuts
  Outs <- LifeOuts
  Ops <- LifeOps
  Layouts = {}
  Frames = {}
PROPERTIES CallsReturn PutsReturn RunningDelivers
