SPECIFICATION Spec
CONSTANTS
  MaxSubs = 2
  Obj = {o1, o2, o3}
  NULL = NULL
  Limits <- SmallLimits
  MaxDepth = 2
  OneReceiver = FALSE
  TeardownInCallback = FALSE
  UsesShutdown = FALSE
SYMMETRY ObjSymmetry
INVARIANTS
  TypeOK
  NoUseAfterFree
  RefCountExact
  FreeSidsSound
  NoSlotLost
  RestoredOnReconnect
PROPERTIES
  TimeoutOnlyWithoutResponse
CHECK_DEADLOCK TRUE
