SPECIFICATION FairSpec
CONSTANTS
  Requests = {r1, r2}
  Calls = {w1, w2, w3}
  MaxPending = 2
INVARIANTS
  AnsweredOnce
  QueueConsistent
  CancelReachesClient
PROPERTIES
  KeepsAnswers
  QueuedSettles
  WatcherHears
CHECK_DEADLOCK FALSE
