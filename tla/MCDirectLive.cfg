\* One message, the sender killed once, a pump and a pull that may be cut, under fairness.
CONSTANTS
  m1 = m1
  p1 = p1
  q1 = q1
  NoMsg = NoMsg
  Msgs = {m1}
  Pumps = {p1}
  Cleaners = {}
  Disappearing = {}
  MaxSenderCrashes = 1
  Pulls = {q1}
  Pushes = {}
  IsIOS = FALSE
  ReadReceipts = {FALSE}
  MayCut = TRUE
  MaxReceiverCrashes = 0
SPECIFICATION FairSpec
PROPERTIES EventuallyDelivered
