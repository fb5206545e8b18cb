SPECIFICATION Spec
CONSTANTS
  Wins = {w1, w2}
  MaxQuits = 2
  MaxEdits = 2
  Overlap = TRUE
INVARIANTS
  CompletedKeepsEdits
CHECK_DEADLOCK FALSE
