SPECIFICATION Spec
CONSTANTS
  Sid = {0}
  Body <- MCBody
  Spelt <- MCSpelt
  Heads = {1}
  Frames = 2
  MaxArgs = 5
  MaxLine = 2
  MaxPayload = 1
  MaxHeader = 1
INVARIANTS
  TypeOK
  DeliveredIntact
  NothingElseLost
PROPERTIES
  DropNoticed
CHECK_DEADLOCK FALSE
