CONSTANTS
  r1 = r1
  r2 = r2
  archived = archived
  files = files
  app = app
  NoProvider = NoProvider
  NoRequest = NoRequest
  Requests <- OneRequest
  Providers <- ThreeProviders
  Kind <- ThreeKinds
  Order <- ThreeOrders
  Identifiers <- Single
  ArchivesComplete = TRUE
  RemoveOnce = TRUE
  MaxPosted = 1
SPECIFICATION FairSpec
PROPERTIES
  EveryRequestContinues
CHECK_DEADLOCK FALSE
