CONSTANTS
  r1 = r1
  r2 = r2
  archived = archived
  files = files
  app = app
  NoProvider = NoProvider
  NoRequest = NoRequest
  Requests <- TwoRequests
  Providers <- ThreeProviders
  Kind <- ThreeKinds
  Order <- ThreeOrders
  Identifiers <- Single
  ArchivesComplete = FALSE
  RemoveOnce = TRUE
  MaxPosted = 0
SPECIFICATION Spec
SYMMETRY RequestSymmetry
INVARIANTS
  TypeOK
  StateInOnePlace
  EntryAlive
  DeletingWaits
PROPERTIES
  MovesForward
CHECK_DEADLOCK FALSE
