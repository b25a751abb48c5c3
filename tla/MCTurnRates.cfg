CONSTANTS
  Circle = 12
  MinSample = 2
  MaxSample = 3
  MaxRate = 1
  Margin = 1
  MaxTurn = 2
SPECIFICATION TSpec
INVARIANT TypeOK
INVARIANT RatesTrue
PROPERTY CircleEarned
