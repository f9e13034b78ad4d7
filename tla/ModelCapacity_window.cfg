SPECIFICATION Spec
CONSTANTS
  None = None
  a = a  b = b  c = c  k = k
  Call = {a, b, c}
  Key = {k}
  KeyCap = 2
  GroupCap = 2
  Rpm = 1
  Tpm = 2
  Tokens = 2
  Minute = 2
  LeaseLen = 2
  Deadline = 5
  MaxTime = 6
SYMMETRY Symmetry
INVARIANTS WindowIsRolling
CHECK_DEADLOCK FALSE
