SPECIFICATION QueueSpec
CONSTANTS
  LastBlock = 3
  Source = {s1, s2}
  NoData <- MCNoData
  blockCacheLimit = 2
  fsHeaderForceVerify = 1
  minExpired = 1
  MaxRequest = 2
  MaxSent = 2
  MaxEvents = 1
SYMMETRY SymmQ
CHECK_DEADLOCK FALSE
INVARIANTS PartsConserved ResultsExact  NoStall
