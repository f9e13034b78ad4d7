SPECIFICATION FairSpec
CONSTANTS
  None = None
  Task = {t}
  Instance = {p, q}
  Exec = {x, y}
  AttemptLimit = 2
  MaxAttempts <- MCMaxAttempts
  Deadline <- MCDeadline
  LeaseLen = 2
  BackoffBase = 1
  WaitDelays = {1}
  SlotLimit = 2
  MaxTime = 6
INVARIANTS Inv StraysAreReentries SlotsAreCounted UnsafeRunsOnce
PROPERTIES OwnerRulesItsLease ImplementsLifecycle EventuallySettled LapsedLeaseRecovers
CHECK_DEADLOCK FALSE
