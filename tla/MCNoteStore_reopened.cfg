SPECIFICATION Spec
CONSTANTS
  Notes = {n1}
  Views = {v1, v2}
  MaxEdits = 3
  MaxCalls = 2
  Failing = "never"
  Reopens = TRUE
INVARIANT FlushedIsStored
