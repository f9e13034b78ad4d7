SPECIFICATION FairSpec
CONSTANTS
  None = None
  Sched = {s}
  Loop = {l, m}
  Period = 1
  Grace = 1
  RunTimes = {1}
  FoldAt = 2
  FoldLen = 2
  BatchSize = 1
  MaxRev = 2
  MaxTime = 3
INVARIANTS Inv
PROPERTIES TaskFollowsItsSchedule PauseIsNotMadeUpFor HandledMovesOn DueIsHandled
CHECK_DEADLOCK FALSE
