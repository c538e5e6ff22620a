\* A connected client in a calm network has nothing left to do, a stopped program too.
SPECIFICATION FairSpec
CONSTANTS
  Links = {"none"}
  Named = 2
  Servers = 2
  MaxAttempts <- NoMaximum
  AttemptCap = 1
  Calls = {}
PROPERTIES
  ReconnectsInTheEnd
CHECK_DEADLOCK FALSE
