SPECIFICATION Spec
CONSTANTS
  Address = {1, 2, 3, 4, 5}
  SeedLists <- Lists
  Modes = {"score", "neighbors"}
  MaxSeedWallets = 4
  MaxCandidates = 3
  TargetCount = 1
  DeepDiveTopN = 2
  DeepDiveMinScore = 1
  AttackerMode = FALSE
  SeedCalls = 1
  CandidateCalls = 1
  DeepDiveCalls = 2
  Stats <- Summaries
VIEW Read
INVARIANTS
  DecidedOnce
  AcceptedAreWhole
  BestFirst
  DiveStatusIsTrue
  RequestsWithin
CHECK_DEADLOCK FALSE
