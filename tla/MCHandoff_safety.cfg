SPECIFICATION FairSpec
CONSTANTS
  Notes = {n1}
  Windows = {w1, w2}
  MaxAttempts = 2
INVARIANTS TypeOK  TextKept NoOrphanFile DeliveredOnce
PROPERTIES HandoffSettles TextSpec
\* The bound on attempts and windows that are never reborn end every behaviour.
CHECK_DEADLOCK FALSE
