\* Two messages, two pulls cut at any time, one crash; Android, no read receipts.
CONSTANTS
  m1 = m1
  m2 = m2
  p1 = p1
  p2 = p2
  NoMsg = NoMsg
  Msgs = {m1, m2}
  Pulls = {p1, p2}
  Pushes = {}
  IsIOS = FALSE
  ReadReceipts = {FALSE}
  MayCut = TRUE
  MaxCrashes = 1
SPECIFICATION Spec
SYMMETRY Symmetry
INVARIANTS ForgottenIsStored LockIsHeld
