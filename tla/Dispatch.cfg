CONSTANTS
  h1 = h1
  h2 = h2
  h3 = h3
  NoHandler = NoHandler
  Handlers <- ThreeHandlers
  Address <- ThreeAddresses
  MaxQueries = 3
  MaxVisits = 3
SPECIFICATION Spec
INVARIANTS
  TypeOK
  ToldAgainOnlyInside
  IteratorsValid
  PendingRegistered
PROPERTIES
  CancelComplete
CHECK_DEADLOCK FALSE
