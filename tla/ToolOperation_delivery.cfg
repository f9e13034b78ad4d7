SPECIFICATION FairSpec
CONSTANTS
  None = None
  Runtime = {c}
  Worker = {d}
  MaxAttempts = 2
INVARIANTS Inv CancelWins NoOrphanWork
PROPERTIES WaitEnds
CHECK_DEADLOCK FALSE
