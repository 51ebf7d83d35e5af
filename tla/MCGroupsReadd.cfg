\* A member who was in the group is added to it again.
CONSTANTS
  a = a
  b = b
  k1 = k1
  k2 = k2
  Members = {a}
  Loops = {k1}
  Self = Self
  Nobody = Nobody
  None = None
  MaxChanges = 3
  MaxJoins = 2
  MaxIncidents = 1
  MaxTurns = 3
SPECIFICATION Spec
PROPERTIES AddedIsListed
CHECK_DEADLOCK FALSE
