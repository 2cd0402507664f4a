CONSTANTS
  t1 = t1
  t2 = t2
  t3 = t3
  t4 = t4
  x = x
  y = y
  None = None
SYMMETRY Symmetry
SPECIFICATION Spec
INVARIANTS Exclusive NoneStranded RingIsQueue HeapTiled UsersExact LeasesSound
