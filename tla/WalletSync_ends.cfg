SPECIFICATION FairSpec
CONSTANTS
  s1 = s1  s2 = s2  s3 = s3
  w1 = w1  w2 = w2  a1 = a1  a2 = a2
  Address = {w1, a1, a2}
  Wallet = {w1}
  NoOwner = NoOwner
  Transfer <- HistoryTransfers
  Window <- RerunWindows
  Sync = {s1}
  NoSync = NoSync
  MaxObservations = 2
  MaxFaults = 2
PROPERTIES
  EveryCallEnds
  LockIsFreed
CHECK_DEADLOCK FALSE
