CONSTANTS
  Clients = {c1, c2}
  Delays <- MCDelays
  MaxId = 3
  MaxNow = 3
SPECIFICATION FairSpec
INVARIANT TypeOK
INVARIANT HandlerOwnedOnce
INVARIANT EmptyAtExit
INVARIANT NothingOutlivesQueue
PROPERTY ImplementsService
PROPERTY HandlersRun
PROPERTY DestructorReturns
CHECK_DEADLOCK FALSE
