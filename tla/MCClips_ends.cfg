SPECIFICATION FairSpec
CONSTANTS
  Copies = {c1}
  Pastes = {p1, p2}
  Wins = {w1}
  None = None
  Attempts = 2
  MaxForeign = 1
PROPERTIES CopyEnds PasteAnswered
CHECK_DEADLOCK FALSE
