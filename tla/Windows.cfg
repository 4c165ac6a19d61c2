CONSTANTS
  w1 = w1
  w2 = w2
  w3 = w3
  NoWindow = NoWindow
  Windows <- ThreeWindows
  First = w1
  MultiThreaded = TRUE
SPECIFICATION Spec
INVARIANTS
  RegisteredUntilDone
  NothingLeftBehind
PROPERTIES
  PageAskedFirst
  ImplementsLifetime
CHECK_DEADLOCK FALSE
