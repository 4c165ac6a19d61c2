CONSTANTS
  w1 = w1
  w2 = w2
  w3 = w3
  NoWindow = NoWindow
  Windows <- ThreeWindows
  First = w1
  MultiThreaded = FALSE
SPECIFICATION FairSpec
INVARIANTS
  TypeOK
PROPERTIES
  BegunEnds
CHECK_DEADLOCK FALSE
