SPECIFICATION Spec
CONSTANTS
  Txs = {t1}
  Coins = {c1}
  Requests <- TwoSends
  MaxDiskFaults = 1
INVARIANTS
  SendJournaled
  OneSendAtATime
CHECK_DEADLOCK FALSE
