SPECIFICATION FairSpec
CONSTANTS
  Coins = {c1, c2}
  ReportsWithheld = TRUE
  MaxDiskFaults = 1
  InterruptAt <- Interruptible
INVARIANTS
  HandOffRecorded
  CancelOnlyUnbroadcast
  SuccessMeansBroadcast
  LeaseJournaled
  ResolvedClean
PROPERTIES
  KeepsPromise
  HandOffLeased
  LifecycleLegal
  Terminates
CHECK_DEADLOCK FALSE
