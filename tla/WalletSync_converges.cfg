SPECIFICATION Spec
CONSTANTS
  s1 = s1  s2 = s2  s3 = s3
  w1 = w1  w2 = w2  a1 = a1  a2 = a2
  Address = {w1, a1, a2}
  Wallet = {w1}
  NoOwner = NoOwner
  Transfer <- RerunTransfers
  Window <- RerunWindows
  Sync = {s1, s2}
  NoSync = NoSync
  MaxObservations = 1
  MaxFaults = 1
INVARIANTS
  RerunConverges
CHECK_DEADLOCK FALSE
