CONSTANTS
  b1 = b1
  b2 = b2
  h1 = h1
  h2 = h2
  main = main
  sub = sub
  Browsers <- OneBrowser
  Frames <- MainAndSub
  MainFrame = main
  Handlers <- OneHandler
  ForwardOnBeforeClose = TRUE
  NavigationMayAbort = FALSE
  Persistence = {FALSE}
  MaxEpoch = 1
  MaxContexts = 2
  MaxRequests = 2
  MaxCalls = 1
  MaxTasks = 0
SPECIFICATION Spec
INVARIANTS
  RequestContextLive
  RequestTracked
CHECK_DEADLOCK FALSE
