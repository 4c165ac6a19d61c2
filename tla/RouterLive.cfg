CONSTANTS
  b1 = b1
  b2 = b2
  h1 = h1
  h2 = h2
  main = main
  sub = sub
  Browsers <- OneBrowser
  Frames <- MainOnly
  MainFrame = main
  Handlers <- OneHandler
  ForwardOnBeforeClose = TRUE
  NavigationMayAbort = FALSE
  Persistence = {TRUE, FALSE}
  MaxEpoch = 1
  MaxContexts = 1
  MaxRequests = 1
  MaxCalls = 1
  MaxTasks = 1
SPECIFICATION FairSpec
PROPERTIES
  EveryQueryEnds
  AbandonedQueryEnds
CHECK_DEADLOCK FALSE
