SPECIFICATION Spec
CONSTANTS
  c1 = c1
  c2 = c2
  l1 = l1
  l2 = l2
  Clients <- TwoClients
  Loops <- TwoLoops
  Requests <- Plain
  Refused <- MCRefused
  Faults = {}
  ConcurrentStop = FALSE
  FrameMod <- Unnumbered
SYMMETRY Symmetry
INVARIANTS
  NothingAwaitedInVain
  OneRunloop
  CallsFindKinect
  HeldBufferValid
