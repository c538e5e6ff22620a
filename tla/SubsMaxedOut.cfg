SPECIFICATION FairSpec
CONSTANTS
  MaxSubs = 2
  Obj = {o1, o2}
  NULL = NULL
  Limits <- SmallLimits
  MaxDepth = 1
  OneReceiver = TRUE
  TeardownInCallback = FALSE
  UsesShutdown = FALSE
PROPERTIES
  MarkedIsDeleted
CHECK_DEADLOCK TRUE
