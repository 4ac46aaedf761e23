SPECIFICATION Spec
CONSTANTS
  Ids = {kinect}
  Found <- MCFound
  Garbage <- MCGarbage
  X = 3
  Y = 2
  Requested <- MCRequested
  Croppings <- MCCroppings
  Wrap = 4
  Elapsed = {3, 7}
  Word = 16
  MaxStamp = 6
CHECK_DEADLOCK FALSE
INVARIANTS
  CppInv
  OniInv
PROPERTIES
  TimeKept
  DestructorEnds
