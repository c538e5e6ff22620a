SPECIFICATION Spec
CONSTANTS
  Sid = {0}
  Body <- MCEmptyLine
  Spelt <- MCSpelt
  Heads = {1}
  Frames = 2
  MaxArgs = 5
  MaxLine = 2
  MaxPayload = 1
  MaxHeader = 1
INVARIANT
  EveryMessageDelivered
