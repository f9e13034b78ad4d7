SPECIFICATION FairSpec
CONSTANTS
  Replicas = 2
  MaxAttempts = 2
INVARIANTS Inv SecondCopyNeedsAFault
PROPERTIES MarkIsKept ImplementsNotice
CHECK_DEADLOCK FALSE
