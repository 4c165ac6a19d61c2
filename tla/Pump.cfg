CONSTANTS
  kMaxTimerDelay = 2
  kTimerDelayPlaceholder = 7
  LParams = 16
  Delays <- AllDelays
  DrainRounds = 2
  ModalInDrain = FALSE
  MaxQueue = 2
  MaxPostponed = 2
SPECIFICATION FairSpec
INVARIANTS
  AlwaysArmed
  WakesInTime
  WorkNotNested
  WaitBounded
PROPERTIES
  EveryRequestServed
CHECK_DEADLOCK FALSE
