SPECIFICATION FairSpec
CONSTANTS
  WindowStart = 1
  WindowEnd = 2
  MaxPages = 3
  MaxTx = 4
  MaxRetries = 1
  PageLimit = 3
  Times <- MCTimes
  MaxChain = 7
INVARIANTS
  CompleteUnlessPartial
  RequestsBounded
PROPERTIES
  FetchEnds
  ImplementsContract
CHECK_DEADLOCK FALSE
