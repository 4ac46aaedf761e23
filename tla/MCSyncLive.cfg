SPECIFICATION FairSpec
CONSTANTS
  c1 = c1
  c2 = c2
  l1 = l1
  l2 = l2
  Clients <- OneClient
  Loops <- OneLoop
  Requests <- ModesAndTasks
  Refused <- MCRefused
  Faults = {"open"}
  ConcurrentStop = FALSE
  FrameMod <- Numbered
PROPERTIES
  CallReturns
  ImplementsMailbox
