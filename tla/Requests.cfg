SPECIFICATION Spec
CONSTANTS
  MaxCalls = 2
  MaxSubs = 1
  Batch = 2
  Chunks = 2
  MaxDrops = 2
  PingCap = 1
INVARIANTS
  TypeOK
  OwnAnswers
  MetadataMeansStored
PROPERTIES
  GivenUpIsNotSent
  RequestEnds
CHECK_DEADLOCK FALSE
