SPECIFICATION Spec
CONSTANTS
  main = main
  other = other
  Main = main
  TaskSets <- TwoTasks
  Links = {"socket"}
  Kind <- TextOnly
  MaxPending = 2
  MaxPings = 1
  PingCap = 0
  Moods = {}
INVARIANTS
  Framed
