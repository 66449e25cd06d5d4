SPECIFICATION Spec
CONSTANTS
  Address <- Addresses
  Focal <- Wallet
  ScanStart = 5
  BaselinePool <- History
  ScanPool <- Recents
  Threshold <- Thresholds
  RecencyDays = 3
  PrefixMin = 4
  SuffixMin = 4
  SingleSideMin = 6
  MinInjectionCount = 2
INVARIANTS
  MatchIsBest
  EmittedIsCertain
  CompleteIsExact
CHECK_DEADLOCK FALSE
