SPECIFICATION Spec
CONSTANTS
  Coins = {c1, c2}
  Peers = {p1, p2}
  ReportsWithheld = TRUE
  MaxDiskFaults = 1
  InterruptAt <- Interruptible
SYMMETRY Symmetry
INVARIANT HandOffRecorded
PROPERTIES
  AllWithdrawnFirst
  SentWhenReady
  KeepsPromise
CHECK_DEADLOCK FALSE
