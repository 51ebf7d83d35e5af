\* Two calls on either platform, two dispatches in one render, one remount.
CONSTANTS
  None = None
  c1 = c1
  c2 = c2
  CallIds = {c1, c2}
  Platforms = {"ios", "android"}
  MaxUpdates = 2
  MaxScreens = 2
  MaxRemounts = 1
SYMMETRY Symmetry
CHECK_DEADLOCK FALSE
INVARIANTS TypeOK RingIsOwn RingEnds ScreenHasCall CallHasScreen Released
SPECIFICATION Spec
