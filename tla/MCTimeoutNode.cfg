CONSTANTS
  MaxId = 3
  Results <- AllResults
  HostHalts = TRUE
  Prompt = FALSE
SPECIFICATION FairSpec
INVARIANT TypeOK
INVARIANT TimeoutEarned
INVARIANT NoOrphanChild
PROPERTY ResultNotLost
PROPERTY CallsReturn
CHECK_DEADLOCK FALSE
