CONSTANTS
  Size = 3
  Depth = 6
  Registered <- MCRegistered
  Demanding = {"Sequence"}
  Labels <- MCLabels
  Secondary <- MCSecondary
SPECIFICATION CSpec
INVARIANT BuiltAsWritten
INVARIANT ReadyToTick
CHECK_DEADLOCK FALSE
