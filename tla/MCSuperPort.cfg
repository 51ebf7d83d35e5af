\* A port from before there were permissions, an earlier chat and two readers, two loops,
\* and one thing that fails or that the owner does.
CONSTANTS
  l0 = l0
  l1 = l1
  l2 = l2
  a = a
  b = b
  k1 = k1
  k2 = k2
  Nobody = Nobody
  Lines = {l0, l1, l2}
  Peers = {a, b}
  PeerOf <- Readers
  Earlier = l0
  Loops = {k1, k2}
  WithPermissions = FALSE
  FirstLimit = 1
  Limits = {1, 2}
  MaxIncidents = 1
SPECIFICATION Spec
SYMMETRY Symmetry
INVARIANTS TypeOK CountIsHonest LimitHolds OwnSecret
CHECK_DEADLOCK FALSE
