SPECIFICATION WorkersSpec
CONSTANTS
  Call = {1, 2, 3}
  PageSize = 1
  MaxCalls = 2
  Overlap = 1
  Lookback = 4
  Lag = 1
  NoTime = noTime
  MaxTime = 2
  Job = {1, 2, 3}
  NoJob = noJob
  Doc = {1, 2}
  Content = {a, scan, corrupt}
  Broken = {corrupt}
  Lossy = {scan}
  Batches = 2
  MaxChanges = 2
  None = none
INVARIANTS
  AllTypesOK
  NoMissedCallsWithinLimit
  CompleteIsCurrent
PROPERTIES
  EveryCallCollected
  ImplementsJobs
  JobsSettle
  IndexCatchesUp
