CONSTANTS
  HistorySize = 3
  MaxAge = 4
  Deltas <- MCDeltas
  DeadBand = 2
  TierMatrix = TRUE
  HoldLimit = 2
  Band = 3
  Situations <- MCSituations
SPECIFICATION CSpec
INVARIANT TypeOK
INVARIANT OneSnapshot
INVARIANT VelocityTrue
INVARIANT TierEarned
INVARIANT HoldLimited
