\* A generated and a read port of one peer, used concurrently; with and without an
\* earlier chat; expiry, discarded ports and two crashes.
CONSTANTS
  t1 = t1
  t2 = t2
  p1 = p1
  p2 = p2
  Tasks = {t1, t2}
  Ports = {p1, p2}
  Generated = {p1}
  PortOf <- OwnPorts
  Old = Old
  HadChat = {TRUE, FALSE}
  NoLine = NoLine
  NoChat = NoChat
  MayDisturb = TRUE
  MaxCrashes = 2
SPECIFICATION Spec
INVARIANTS TypeOK ChatHasLine LineHasKeys
PROPERTIES FormedChatIsKept
