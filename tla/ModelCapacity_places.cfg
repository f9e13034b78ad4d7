SPECIFICATION FairSpec
CONSTANTS
  None = None
  a = a  b = b  c = c  k = k  l = l
  Call = {a, b, c}
  Key = {k, l}
  KeyCap = 1
  GroupCap = 2
  Rpm = 2
  Tpm = 4
  Tokens = 2
  Minute = 1
  LeaseLen = 1
  Deadline = 3
  MaxTime = 3
INVARIANTS Inv ProviderIsSpared CountersCoverWindow
PROPERTIES PlaceComesBackOrIsCut
CHECK_DEADLOCK FALSE
