SPECIFICATION Spec
CONSTANTS
  m1 = m1  f1 = f1  w1 = w1  w2 = w2
  Manual = {m1}
  File = {f1}
  Wallet = {w1, w2}
  AskedFor = {{w1}, {w1, w2}}
  Files = {{w1}}
  NoRun = NoRun
  MaxConcurrent = 1
  MaxLimit = 2
  FetchCodes = {}
  MaxFaults = 1
VIEW Read
INVARIANTS
  WalletsAddUp
PROPERTIES
  NothingAfterTheEnd
  KeepsRunContract
CHECK_DEADLOCK FALSE
