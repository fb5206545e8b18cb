SPECIFICATION FairSpec
CONSTANTS
  Wins = {w1, w2}
  MaxQuits = 2
  MaxEdits = 1
  Overlap = FALSE
INVARIANTS
  TypeOK
  
  VetoStands
  OnlyLiveAwaited
PROPERTIES
  
  QuitSettles
CHECK_DEADLOCK FALSE
