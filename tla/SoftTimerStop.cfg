CONSTANTS
  idle = idle
  a = a
  timer = timer
  Thread = {idle, a, timer}
  Idle = idle
  PrioMax = 3
  InitPrio <- MCPrio
  StartOrder <- MCOrder
  Slice = 1
  Queue = {}
  Defunct = Defunct
  MaxTick = 3
  t1 = t1
  t2 = t2
  Timer = {t1, t2}
  TimerThread = timer
  RT_TICK_MAX = 9
  InitTicks = {0, 1}
  MaxStale = 1
  MaxLate = 0
  SoftSets = {{}, {t1, t2}}
  AnyStop = TRUE
  AnyRestart = FALSE
  AnyExpiry = FALSE
SYMMETRY Symmetry
SPECIFICATION Spec
PROPERTY FiresOnlyWhenWanted
