SPECIFICATION FairSpec
CONSTANTS
  main = main
  other = other
  Main = main
  TaskSets <- OneTask
  Links = {"socket", "transport"}
  Kind <- Mixed
  MaxPending = 2
  MaxPings = 0
  PingCap = 2
  Moods = {"calm", "silent"}
INVARIANTS
  TypeOK
  OrderKept
  PingsExact
  OfflineNotSent
PROPERTIES
  FlushHonest
  BufferedIsReceived
  SilentServerNoticed
