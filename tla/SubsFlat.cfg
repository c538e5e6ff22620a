SPECIFICATION FairSpec
CONSTANTS
  MaxSubs = 2
  Obj = {o1, o2, o3}
  NULL = NULL
  Limits <- SmallLimits
  MaxDepth = 1
  OneReceiver = TRUE
  TeardownInCallback = FALSE
  UsesShutdown = TRUE
INVARIANTS
  ServerKnowsOnlyTaken
  LimitRespected
PROPERTIES
  LazyDeletionHappens
CHECK_DEADLOCK TRUE
