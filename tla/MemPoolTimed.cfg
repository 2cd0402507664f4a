CONSTANTS
  idle = idle
  a = a
  b = b
  c = c
  Thread = {idle, a, b, c}
  Idle = idle
  PrioMax = 3
  InitPrio <- MCPrio
  StartOrder <- MCOrder
  Slice = 1
  Pool = Pool
  Queue = {Pool}
  Defunct = Defunct
  MaxTick = 2
  Blocks = {x, y}
  Flag = "FIFO"
  Times <- Timed
SPECIFICATION Spec
INVARIANT CountMeansWaiter
