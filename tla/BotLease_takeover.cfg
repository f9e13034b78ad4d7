SPECIFICATION FairSpec
CONSTANTS
  None = None
  Process = {p, q}
  Bot = {b, c}
  Upsets = 2
  Troubled = {p, c}
  MaxEpoch = 4
INVARIANTS Inv
PROPERTIES StaleConnectionEnds ServedUnlessBroken
CHECK_DEADLOCK FALSE
