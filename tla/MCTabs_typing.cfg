SPECIFICATION Spec
CONSTANTS
  Files = {f1, f2}
  Jobs = {j1}
  None = None
  MaxTabs = 1
  MaxEdits = 2
  MaxCalls = 2
  Failing = {}
  Careless = {"type"}
  Overtaking = FALSE
SYMMETRY Symmetry
INVARIANTS CleanIsOnDisk
CHECK_DEADLOCK FALSE
