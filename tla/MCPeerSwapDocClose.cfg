SPECIFICATION Spec
CONSTANTS
  Txs = {t1}
  Coins = {c1}
  Requests <- OneSend
  MaxDiskFaults = 0
INVARIANT CloseWaits
CHECK_DEADLOCK FALSE
