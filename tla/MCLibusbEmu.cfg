SPECIFICATION Spec
CONSTANTS
  Endpoints = {"video"}
  Transfers = {1, 2, 3}
  Of <- MCOf
  Faults = {"lost", "error", "refused"}
  EmuDevs = {d1, d2}
  Wanted = {d1, d2}
  MaxLists = 2
  MaxHandles = 2
  Slots = 3
  PktLen = 5
  PktEnd = 2
INVARIANTS
  EmuInv
  EmuDevInv
PROPERTIES
  EmuCallsEnd
CHECK_DEADLOCK FALSE
