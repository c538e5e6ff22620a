SPECIFICATION Spec
CONSTANTS
  main = main
  other = other
  Main = main
  TaskSets <- TwoTasks
  Links = {"transport"}
  Kind <- ThreeAndBinary
  MaxPending = 1
  MaxPings = 0
  PingCap = 0
  Moods = {}
INVARIANTS
  ReceivedOnce
  BufferBound
