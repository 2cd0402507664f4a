CONSTANTS
  idle = idle
  a = a
  b = b
  c = c
  q1 = q1
  q2 = q2
  v1 = v1
  v2 = v2
  None = None
  NoThread = NoThread
  NoValue = NoValue
  NoWork = NoWork
  Wild = Wild
  Idle = idle
  Slice = 1
  Defunct = Defunct
SYMMETRY Symmetry
SPECIFICATION Spec
INVARIANTS TypeOK WaitersExact NoLostWakeup TimeKeeps BlocksPartitioned OwnershipExact OwnPriority  ReportsWhatWasAsked WorkSound
PROPERTIES IsFifo ClearsWhatItGives
