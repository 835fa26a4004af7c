SPECIFICATION ChildFairSpec
CONSTANTS
  Methods = {"swap-out"}
  Hooks = {"custommsg"}
  MaxNotices = 1
  MaxAsked = 1
INVARIANTS
  NobodyForgotten
PROPERTIES
  CallsSettle
  HooksAnswered
  FailedInitEndsChild
CHECK_DEADLOCK FALSE
