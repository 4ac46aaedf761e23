SPECIFICATION Spec
CONSTANTS
  MaxItems = 3
  Gaps = {1}
  Killed = TRUE
  DiskFull = TRUE
  Delays = {0, 1}
  LoopPlayback = TRUE
INVARIANTS
  PlayerInv
PROPERTIES
  PlaysTape
  Replays
CHECK_DEADLOCK FALSE
