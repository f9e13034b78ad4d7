SPECIFICATION Spec
CONSTANTS
  None = None
  Task = {t}
  Instance = {p}
  Exec = {x, y}
  AttemptLimit = 2
  MaxAttempts <- MCMaxAttempts
  Deadline <- MCDeadline
  LeaseLen = 2
  BackoffBase = 1
  WaitDelays = {1}
  SlotLimit = 2
  MaxTime = 6
PROPERTIES OnlyCurrentAttemptWrites
CHECK_DEADLOCK FALSE
