CONSTANTS
  idle = idle
  a = a
  b = b
  c = c
  Thread = {idle, a, b, c}
  Idle = idle
  PrioMax = 3
  InitPrio <- MCPrio
  StartOrder <- MCOrder
  Slice = 1
  Sem = Sem
  Queue = {Sem}
  Defunct = Defunct
  MaxTick = 1
  Flag = "FIFO"
  InitValue = 1
  MaxValue = 1
  Times <- MCTimes
  Calls = {"take", "release", "reset", "delete"}
  TimedDelete = FALSE
SPECIFICATION FairSpec
INVARIANTS TokensConserved NoSleepBesideToken WaitersExact DeleteWakesAll 
PROPERTIES WaiterServed RoundRobin
