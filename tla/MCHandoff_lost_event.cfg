SPECIFICATION FairSpec
CONSTANTS
  Notes = {n1}
  Windows = {w1}
  MaxAttempts = 1
PROPERTY ReclaimedUnlocks
CHECK_DEADLOCK FALSE
