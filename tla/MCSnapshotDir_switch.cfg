SPECIFICATION Spec
CONSTANTS
  Apps = {a1, a2}
  Picked = {s}
  Ids = {n1, n2, n3}
  MaxTexts = 3
  MaxStarts = 5
  Mishaps = {}
SYMMETRY Symmetry
INVARIANTS TypeOK OneWriter  ListIsDisk SettingHolds
\* Behaviours end with the starts and the texts.
CHECK_DEADLOCK FALSE
