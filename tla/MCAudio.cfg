SPECIFICATION Spec
CONSTANTS
  First = 3
  Second = 6
  SeqEnd = 8
  WindowMod = 4
  SampleChannels = 2
  MaxOut = 25
  MaxWindow = 3
CHECK_DEADLOCK FALSE
INVARIANTS
  AudioInv
  SamplesReachClient
