SPECIFICATION Spec
CONSTANTS
  Copies = {c1, c2}
  Pastes = {p1}
  Wins = {w1, w2}
  None = None
  Attempts = 2
  MaxForeign = 1
SYMMETRY Symmetry
INVARIANTS TypeOK TextIsForeign OfferHasFile NoStrayFile 
CHECK_DEADLOCK FALSE
