\* Two messages, the tasks of their own sends, two deletions or reactions at a time, any crashes.
CONSTANTS
  m1 = m1
  m2 = m2
  k1 = k1
  k2 = k2
  NoMsg = NoMsg
  Msgs = {m1, m2}
  Pumps = {}
  Cleaners = {k1, k2}
  Disappearing = {}
SPECIFICATION Spec
SYMMETRY Symmetry
INVARIANTS TypeOK EvidenceInv SentIsAccepted
