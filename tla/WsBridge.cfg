SPECIFICATION Spec
CONSTANTS
  Byte <- MCByte
  Capacity = 3
  Bytes = 6
  Connects = 2
  LineLength = 3
  LineLimit = 3
  MaxFrame = 3
  MaxRead = 2
INVARIANTS
  TypeOK
  BuffersSound
  ConnectHonest
PROPERTIES
  FifoSpec
  DropNoticed
  CallsReturn
