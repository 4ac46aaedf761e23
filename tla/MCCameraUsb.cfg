SPECIFICATION FairSpec
CONSTANTS
  x1 = x1
  x2 = x2
  Xfers <- MCXfers
  MaxRunningAtClose = 1
INVARIANTS
  UsbInv
  NoFreeInFlight
PROPERTIES
  StopReturns
  UnplugStopsStream
CHECK_DEADLOCK FALSE
