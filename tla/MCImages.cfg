SPECIFICATION Spec
CONSTANTS
  MaxLost = 1
  W = 4
  H = 4
  DX = 4
  DY = 2
  Scale = 4
  MaxMetric = 100
  NoRaw = 2047
  Raws = {50, 100, 500, 900, 1500, 2047}
  RawToMm <- MCRawToMm
  DepthToRgb <- MCDepthToRgb
  Shifts <- MCShifts
  StartLines = {0, 1}
  Words = 32
INVARIANTS
  ModesInv
  CameraFollows
  PixelsExact
  RegistrationRight
CHECK_DEADLOCK FALSE
