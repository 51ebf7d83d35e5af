\* One message, one pull and a push, a cut and a crash, under fairness.
CONSTANTS
  m1 = m1
  p1 = p1
  x1 = x1
  NoMsg = NoMsg
  Msgs = {m1}
  Pulls = {p1}
  Pushes = {x1}
  IsIOS = TRUE
  ReadReceipts = {TRUE, FALSE}
  MayCut = TRUE
  MaxCrashes = 1
SPECIFICATION FairSpec
PROPERTIES BacklogIsStored LockIsReleased
INVARIANTS TypeOK CountFollowsStore
