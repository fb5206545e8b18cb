SPECIFICATION Spec
CONSTANTS
  Files = {f1, f2}
  Jobs = {j1}
  None = None
  MaxTabs = 2
  MaxEdits = 2
  MaxCalls = 2
  Failing = {"file", "record", "delete"}
  Careless = {}
  Overtaking = FALSE
SYMMETRY Symmetry
INVARIANTS TypeOK CleanIsOnDisk ClosedKeepsEdits RestartShowsTabs
PROPERTIES AskedBeforeLost
CHECK_DEADLOCK FALSE
