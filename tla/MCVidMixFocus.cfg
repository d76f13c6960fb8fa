SPECIFICATION Spec
CONSTANTS
  s1 = s1
  s2 = s2
  Sources = {s1, s2}
  Content = {}
  None = None
  Remains = Remains
  Puts <- FocusPuts
  Outs <- FocusOuts
  Ops <- FocusOps
  Layouts = {}
  Frames = {}
INVARIANTS FocusAlive
