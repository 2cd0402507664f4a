CONSTANTS
  idle = idle
  a = a
  b = b
  c = c
  Thread = {idle, a, b, c}
  Idle = idle
  PrioMax = 4
  InitPrio <- MCPrio
  StartOrder <- MCOrder
  Slice = 1
  Mutexes = {m, n}
  Queue = {m, n}
  Defunct = Defunct
  NoThread = NoThread
  MaxTick = 1
  Flag = "PRIO"
  MaxHold = 1
  Times <- MCTimes
SPECIFICATION Spec
INVARIANT OwnPriority
