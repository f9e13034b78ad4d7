SPECIFICATION FairSpec
CONSTANTS
  r = r  a = a  b = b  x = x  None = None
  Root = r
  Task = {r, a, b, x}
  ParentOf <- MCParentOf
  Depth <- MCDepth
  PlatformLimit = 2
  BestEffort = {a}
  RetrySafe = {a}
  MaxAttempts = 2
  CascadeDepth = 8
  Polls = {b}
INVARIANTS Inv FanInIsAtomic SuccessIsEarned CancelReachesChildren
PROPERTIES BatchEnds
CHECK_DEADLOCK FALSE
