CONSTANTS
  idle = idle
  main = main
  a = a
  b = b
  Thread = {idle, main, a, b}
  Idle = idle
  Main = main
  PrioMax = 4
  InitPrio <- MCLadder
  Slice = 1
  Queue = {}
  Defunct = Defunct
  MaxTick = 2
  Calls = {"startup", "sleep", "suspend", "resume"}
  Resumers = {main}
  Resumable = {a, b}
  Sleepers = {main, a, b}
  MaxLock = 1
SPECIFICATION Spec
INVARIANT SelectsAThread
