SPECIFICATION FairSpec
CONSTANTS
  None = None
  Pump = Pump
  Process = {p, q}
  Run = {r}
  UserCap = 1
  Slots = 1
  MaxEpoch = 2
  Upsets = 1
INVARIANTS Inv
PROPERTIES EndIsFinal OlderSegmentWritesNothing CancelHolds LostRunIsReaped StuckSlotComesBack
CHECK_DEADLOCK FALSE
