SPECIFICATION Spec
CONSTANTS
  c1 = c1
  c2 = c2
  l1 = l1
  l2 = l2
  Clients <- TwoClients
  Loops <- TwoLoops
  Requests <- Failing
  Refused <- MCRefused
  Faults = {"init", "open", "start", "unplug"}
  ConcurrentStop = TRUE
  FrameMod <- Unnumbered
SYMMETRY Symmetry
CHECK_DEADLOCK FALSE
INVARIANTS
  RingIntact
  FrameOfMode
  SharedInv
