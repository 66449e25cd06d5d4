SPECIFICATION Spec
CONSTANTS
  s1 = s1  s2 = s2  s3 = s3
  w1 = w1  w2 = w2  a1 = a1  a2 = a2
  Address = {w1, w2, a1}
  Wallet = {w1, w2}
  NoOwner = NoOwner
  Transfer <- SharedTransfers
  Window <- SlidingWindows
  Sync = {s1, s2}
  NoSync = NoSync
  MaxObservations = 1
  MaxFaults = 0
SYMMETRY Calls
VIEW Read
INVARIANTS
  CandidateTraceable
  LastSyncedIsBacked
PROPERTIES
  LastSyncedNeverBack
  KeepsCallContract
CHECK_DEADLOCK FALSE
