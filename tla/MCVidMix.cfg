SPECIFICATION Spec
CONSTANTS
  s1 = s1
  s2 = s2
  Sources = {s1, s2}
  Content = {s2}
  None = None
  Remains = Remains
  Puts <- ViewPuts
  Outs <- ViewOuts
  Ops <- ViewOps
  Layouts <- ViewLayouts
  Frames <- ViewFrames
INVARIANTS NoGhost DrawnAlive TilesApart EveryonePlaced
PROPERTIES ImplementsConference
