CONSTANTS
  StreamLength = 9
  Asks <- SmallAsks
  NoBuffer = NoBuffer
SPECIFICATION FairSpec
INVARIANTS
  BufferOwned
PROPERTIES
  ImplementsDelivery
  ResponseEnds
CHECK_DEADLOCK FALSE
