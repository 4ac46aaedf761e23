SPECIFICATION Spec
CONSTANTS
  TagMod = 3
  MaxQueue = 2
  MaxFailed = 1
  Low = 1
  High = 5
  NearOn <- MCNearOn
  NearOff <- MCNearOff
  Calls <- MCCalls
  CameraFaults = {"out", "in"}
  Motors = {m1, m2, m3}
  Alt = {m2, m3}
  Missing = {m3}
  Enabled = TRUE
  Angles <- MCAngles
  Leds = {"blink_red_yellow"}
  MaxTag = 2
  MotorFaults = {"timeout", "status", "control"}
  PageSize = 4
  Chunk = 2
  Header = 1
  LoaderFaults = {"bulk", "status"}
  Bus <- MCBus
  Selections = {{"camera", "motor", "other"}, {"camera", "motor", "audio"}}
  Serials = {"A", "B", "C"}
  Files <- MCFiles
  Memory <- MCMemory
  MaxTries = 2
  MaxFaults = 1
  MaxOpens = 2
INVARIANTS
  CamInv
  MotorInv
  LoaderInv
  DevInv
PROPERTIES
  OnlyNamedFlag
  CallsEnd
CHECK_DEADLOCK FALSE
