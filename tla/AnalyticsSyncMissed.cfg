SPECIFICATION Spec
CONSTANTS
  Call = {1, 2, 3, 4, 5}
  PageSize = 3
  MaxCalls = 4
  Overlap = 1
  Lookback = 4
  Lag = 0
  NoTime = noTime
  MaxTime = 1
INVARIANT
  NoMissedCalls
