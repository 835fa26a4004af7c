SPECIFICATION SpliceSpec
CONSTANTS
  Coins = {c1, c2}
  MaxDiskFaults = 1
  InterruptAt <- Interruptible
SYMMETRY Symmetry
INVARIANTS
  SpliceRecorded
  PaysDestination
PROPERTIES
  KeepsPromise
  HandOffLeased
  LifecycleLegal
  DroppedWhenOver
CHECK_DEADLOCK FALSE
