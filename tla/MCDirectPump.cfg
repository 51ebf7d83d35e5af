\* One disappearing message, its own task, a pump and a pull: duplicates, lost answers, receipts.
CONSTANTS
  m1 = m1
  p1 = p1
  q1 = q1
  NoMsg = NoMsg
  Msgs = {m1}
  Pumps = {p1}
  Cleaners = {}
  Disappearing = {m1}
  MaxSenderCrashes = 0
  Pulls = {q1}
  Pushes = {}
  IsIOS = FALSE
  ReadReceipts = {TRUE, FALSE}
  MayCut = FALSE
  MaxReceiverCrashes = 0
SPECIFICATION Spec
PROPERTIES ImplementsDelivery
