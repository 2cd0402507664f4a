CONSTANTS
  idle = idle
  main = main
  a = a
  b = b
  Thread = {idle, main, a, b}
  Idle = idle
  Main = main
  PrioMax = 3
  InitPrio <- MCPrio
  Slice = 1
  Queue = {}
  Defunct = Defunct
  MaxTick = 1
  SelfDelete = {}
  TimedDelete = FALSE
SPECIFICATION FairSpec
INVARIANTS NoDanglingThread ClosedAccounted ClosedNeverReady
PROPERTIES DeletedIsReclaimed SleepEnds
