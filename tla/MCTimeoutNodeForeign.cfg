CONSTANTS
  MaxId = 2
  Results <- NoThrow
  HostHalts = FALSE
  Prompt = TRUE
SPECIFICATION Spec
INVARIANT NoForeignTimeout
CHECK_DEADLOCK FALSE
