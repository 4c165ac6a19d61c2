CONSTANTS
  b1 = b1
  b2 = b2
  h1 = h1
  h2 = h2
  main = main
  sub = sub
  Browsers <- OneBrowser
  Frames <- MainOnly
  MainFrame = main
  Handlers <- OneHandler
  ForwardOnBeforeClose = TRUE
  NavigationMayAbort = TRUE
  Persistence = {TRUE, FALSE}
  MaxEpoch = 2
  MaxContexts = 1
  MaxRequests = 1
  MaxCalls = 2
  MaxTasks = 2
SPECIFICATION Spec
INVARIANTS
  TypeOK
  NoStaleResponse
  CallbackAccounted
  PendingHasRequest
  CallsInOrder
PROPERTIES
  ImplementsContract
CHECK_DEADLOCK FALSE
