CONSTANTS
  Children <- MCChildren
  Root = "r"
  Kinds <- MCKinds
  Throwing <- MemoryKinds
  Count <- MCCount
  Results <- MCResults
  HostHalts = TRUE
SPECIFICATION FairSpec
INVARIANT TypeOK
INVARIANT NoneEscapes
INVARIANT DecidedTreeRestarts
INVARIANT Promises
INVARIANT DecidedOnce
PROPERTY TickReturns
