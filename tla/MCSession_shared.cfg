SPECIFICATION Spec
CONSTANTS
  Threads = {t1, t2}
  Opened <- CR
  Typed <- Typing
  UndoLimit = 2
  MaxLen = 2
  MaxCalls = 4
  Fails = {}
SYMMETRY Symmetry
INVARIANTS TypeOK CleanIsSaved PassUndisturbed ScanReadsOneText SleepersAreWoken
PROPERTY HistorySpec
\* Behaviours end with the calls.
CHECK_DEADLOCK FALSE
