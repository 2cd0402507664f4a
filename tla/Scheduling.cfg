CONSTANTS
  idle = idle
  main = main
  a = a
  b = b
  Thread = {idle, main, a, b}
  Idle = idle
  Main = main
  PrioMax = 3
  InitPrio <- MCEquals
  Slice = 1
  Queue = {}
  Defunct = Defunct
  MaxTick = 2
  Calls = {"startup", "yield", "sleep", "suspend", "resume", "control", "critical"}
  Resumers = {main}
  Resumable = {a}
  Sleepers = {main, b}
  MaxLock = 1
SPECIFICATION Spec
INVARIANTS TypeOK ReadyListsExact BitmapExact TimersSuspended NoOverdueTimer HighestRuns
