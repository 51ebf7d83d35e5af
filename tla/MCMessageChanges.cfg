\* Two changes of one message and a pump, requests that fail, any crashes.
CONSTANTS
  c1 = c1
  c2 = c2
  p1 = p1
  Nothing = Nothing
  Original = Original
  Changes = {c1, c2}
  Pumps = {p1}
  MayFail = TRUE
  MaxCopies = 2
SPECIFICATION Spec
INVARIANTS TypeOK PeerForgets EditSettles ReactionSettles
PROPERTIES DeletionIsFinal
SYMMETRY Symmetry
