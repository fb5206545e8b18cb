SPECIFICATION FairSpec
CONSTANTS
  Notes = {n1, n2}
  Views = {v1, v2}
  MaxEdits = 3
  MaxCalls = 2
  Failing = "alone"
  Reopens = FALSE
INVARIANTS TypeOK FlushedIsStored
PROPERTIES NoStepBack 
