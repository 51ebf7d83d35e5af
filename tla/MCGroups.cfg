\* One other member, two loops over received messages, three changes or two and a crash or
\* lost answer, read ports that are refused, discarded or expire.
CONSTANTS
  a = a
  b = b
  k1 = k1
  k2 = k2
  Members = {a}
  Loops = {k1, k2}
  Self = Self
  Nobody = Nobody
  None = None
  MaxChanges = 3
  MaxJoins = 2
  MaxIncidents = 1
  MaxTurns = 3
SPECIFICATION Spec
SYMMETRY Symmetry
INVARIANTS TypeOK KeysHeld RosterAgrees SelfAgrees ChatLoads
CHECK_DEADLOCK FALSE
