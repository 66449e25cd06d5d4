SPECIFICATION FairSpec
CONSTANTS
  m1 = m1  f1 = f1  w1 = w1  w2 = w2
  Manual = {m1}
  File = {}
  Wallet = {w1, w2}
  AskedFor = {{w1}, {w1, w2}}
  Files = {}
  NoRun = NoRun
  MaxConcurrent = 1
  MaxLimit = 2
  FetchCodes = {"max_tx_per_wallet_reached"}
  MaxFaults = 1
PROPERTIES
  RunRowsEnd
  WorkersKeepCallContract
CHECK_DEADLOCK FALSE
