SPECIFICATION PromptSpec
CONSTANTS
  None = None
  Pump = Pump
  Process = {p, q}
  Run = {r}
  UserCap = 1
  Slots = 1
  MaxEpoch = 1
  Upsets = 0
PROPERTIES CancelledRunEnds
CHECK_DEADLOCK FALSE
