SPECIFICATION FairSpec
CONSTANTS
  Txs = {t1}
  Coins = {c1, c2}
  Requests <- OneSend
  MaxDiskFaults = 0
INVARIANTS
  NoOrphanRenewal
  HeldForCallers
PROPERTY StopEnds
CHECK_DEADLOCK FALSE
