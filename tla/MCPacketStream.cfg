SPECIFICATION Spec
CONSTANTS
  PktsPerFrame = 4
  SeqMod = 6
  MaxLost = 2
  MaxGap = 5
  MaxFrames = 3
  b1 = b1
  UserBufs <- MCUserBufs
  ShortSlots <- MCShortSlots
  SwapAnyTime = FALSE
CHECK_DEADLOCK FALSE
INVARIANTS
  StreamInv
  CompleteFrameIntact
  AtMostOneNewerPart
  RecoversInTwoFrames
PROPERTIES
  ImplementsFrameDelivery
