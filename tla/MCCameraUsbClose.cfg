SPECIFICATION Spec
CONSTANTS
  x1 = x1
  x2 = x2
  Xfers <- MCXfers
  MaxRunningAtClose = 2
INVARIANTS
  NoFreeInFlight
CHECK_DEADLOCK FALSE
