\* The same, up to the first ongoing-call screen that leaves something open.
CONSTANTS
  None = None
  c1 = c1
  c2 = c2
  CallIds = {c1, c2}
  Platforms = {"ios", "android"}
  MaxUpdates = 2
  MaxScreens = 2
  MaxRemounts = 1
SYMMETRY Symmetry
CHECK_DEADLOCK FALSE
INVARIANT EndedIsReleased
SPECIFICATION Spec
