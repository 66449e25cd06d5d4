SPECIFICATION FairSpec
CONSTANTS
  p1 = p1  p2 = p2
  Process = {p1, p2}
  Once = {p2}
  NoProcess = NoProcess
  Budget = 7
  MaxBlocks = 1
  BlockLookback = 2
  SourceCalls = 1
  TargetCount = 1
  RunMaxTXPages = 1
  MaxHeliusRetries = 0
  RPCCredits = 1
  EnhancedCredits = 1
  IntervalNights = {0, 1}
  MaxStarts = 3
  MaxFaults = 1
INVARIANTS
  DayWithinBudget
  OneDaemon
PROPERTIES
  Resumes
  Stops
CHECK_DEADLOCK FALSE
