SPECIFICATION Spec
CONSTANTS
  Coins = {c1}
  Peers = {p1, p2}
  ReportsWithheld = FALSE
  MaxDiskFaults = 0
  InterruptAt <- Interruptible
INVARIANTS
  BroadcastNotCancelled
CHECK_DEADLOCK FALSE
