SPECIFICATION Spec
CONSTANTS
  c1 = c1  c2 = c2  c3 = c3
  Call = {c1, c2, c3}
  NoCall = NoCall
  WalletSyncTimeout = 1
  FinalizeTimeout = 1
  ReleaseTimeout = 1
  Slack = 4
  Lag = 1
  MaxTime = 8
SYMMETRY Calls
VIEW Read
INVARIANTS
  LockCoversCall
PROPERTIES
  ImplementsMutex
CHECK_DEADLOCK FALSE
