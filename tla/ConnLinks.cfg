\* A connected client in a calm network has nothing left to do, a stopped program too.
SPECIFICATION FairSpec
CONSTANTS
  Links = {"none", "tcp", "ws"}
  Named = 3
  Servers = 2
  MaxAttempts <- NoMaximum
  AttemptCap = 2
  Calls = {"connect", "connect_async", "disconnect"}
INVARIANTS
  TypeOK
  IdleLinkIsConnected
  GreetedOnOpenLink
  BackoffStartsAfresh
  FailoverTriesAll
PROPERTIES
  TransportReconnects
CHECK_DEADLOCK FALSE
