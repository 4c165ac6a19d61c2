CONSTANTS
  b1 = b1
  b2 = b2
  h1 = h1
  h2 = h2
  main = main
  sub = sub
  Browsers <- TwoBrowsers
  Frames <- MainOnly
  MainFrame = main
  Handlers <- OneHandler
  ForwardOnBeforeClose = FALSE
  NavigationMayAbort = FALSE
  Persistence = {FALSE}
  MaxEpoch = 1
  MaxContexts = 1
  MaxRequests = 1
  MaxCalls = 1
  MaxTasks = 0
SPECIFICATION Spec
SYMMETRY BrowserSymmetry
INVARIANTS
  RequestTracked
CHECK_DEADLOCK FALSE
