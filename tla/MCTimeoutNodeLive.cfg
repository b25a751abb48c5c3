CONSTANTS
  MaxId = 3
  Results <- NoThrow
  HostHalts = FALSE
  Prompt = TRUE
SPECIFICATION FairSpec
INVARIANT OnHaltedWhileRunning
PROPERTY TimeoutEnforced
CHECK_DEADLOCK FALSE
