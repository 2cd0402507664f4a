---------------------------- MODULE MCServices ------------------------------
(***************************************************************************)
(* The components above the kernel and beside it, each with the instance   *)
(* that makes its cases happen.  A behaviour is about one of them: kind    *)
(* says which, and the variables of the others are None.                   *)
(***************************************************************************)
EXTENDS Integers, TLC

CONSTANTS
  t1, t2, t3, t4,    \* threads, or clients
  x, y,              \* bytes
  None

VARIABLES
  kind,
  at,                                        \* RwLock and MemHeap
  rw, cond, call, has,                       \* RwLock
  count, gate, step,                         \* Barrier
  rb,                                        \* RingBuffer
  item, free, available, maxUsed, own,       \* MemHeap
  on, server, poll, plist, plus, acked,      \* Dhcps
  table, using, opened,                      \* FdTable, with step
  mode, dev, hw, shell, users                \* Serial

lockVars    == <<rw, cond, call, has>>
barrierVars == <<count, gate>>
heapVars    == <<item, free, available, maxUsed, own>>
dhcpsVars   == <<on, server, poll, plist, plus, acked>>
fdVars      == <<table, using, opened>>
serialVars  == <<mode, dev, hw, shell, users>>

vars == <<kind, at, step, lockVars, barrierVars, rb, heapVars, dhcpsVars, fdVars, serialVars>>

Three == {t1, t2, t3}

Four == {t1, t2, t3, t4}

\* No module tells the threads, the clients or the bytes apart.
Symmetry == Permutations(Three) \cup Permutations({x, y})

-----------------------------------------------------------------------------
RW == INSTANCE RwLock WITH Threads <- Four, MaxValue <- 2, TimedWriters <- FALSE

BA == INSTANCE Barrier WITH Parties <- Three, Count <- 2

\* A buffer of four bytes, and blocks shorter and longer than it.
RB == INSTANCE RingBuffer WITH
  Byte <- {x, y}, Size <- 4, Blocks <- UNION {[1 .. n -> {x, y}] : n \in {1, 3, 4, 5}}

\* A pool in which three blocks just fit, and sizes that round up.
MH == INSTANCE MemHeap WITH
  Threads <- Three, PoolSize <- 168, HeaderSize <- 24, MiniAlloc <- 12, AlignSize <- 4,
  Requests <- {5, 18, 50}

Range(enable, start, end, near) == [enable |-> enable, start |-> start, end |-> end, near |-> near]

\* A range that is not set, a good one, one whose ends are swapped, one that contains a
\* server and one in another segment.
DH == INSTANCE Dhcps WITH
  Mac <- Three, Servers <- {4, 9}, Half <- 8, MaxLease <- 3, MaxStation <- 3, LeaseTime <- 2,
  Width <- 4096,
  Configured <- {Range(FALSE, 0, 0, FALSE), Range(TRUE, 6, 7, TRUE), Range(TRUE, 7, 6, TRUE),
                 Range(TRUE, 8, 10, TRUE), Range(TRUE, 6, 7, FALSE)}

\* Fewer descriptors than threads.
FD == INSTANCE FdTable WITH Users <- Three, FdMax <- 2

\* A FIFO that one interrupt can fill.
SE == INSTANCE Serial WITH
  Byte <- {x, y}, Zero <- None, Bufsz <- 3, HwSize <- 3, MaxSem <- 2, Others <- {"other"}, AnyFlags <- FALSE

ASSUME ServicesAssumption ==
  RB!ConstantsOK /\ MH!ConstantsOK /\ DH!ConstantsOK /\ FD!ConstantsOK /\ SE!ConstantsOK

-----------------------------------------------------------------------------
NoLock == rw = None /\ cond = None /\ call = None /\ has = None

NoBarrier == count = None /\ gate = None

NoHeap == item = None /\ free = None /\ available = None /\ maxUsed = None /\ own = None

NoDhcps ==
  on = None /\ server = None /\ poll = None /\ plist = None /\ plus = None /\ acked = None

NoTable == table = None /\ using = None /\ opened = None

NoSerial == mode = None /\ dev = None /\ hw = None /\ shell = None /\ users = None

Init ==
  \/ /\ kind = "rwlock" /\ RW!Init
     /\ step = None /\ NoBarrier /\ rb = None /\ NoHeap /\ NoDhcps /\ NoTable /\ NoSerial
  \/ /\ kind = "barrier" /\ BA!Init
     /\ at = None /\ NoLock /\ rb = None /\ NoHeap /\ NoDhcps /\ NoTable /\ NoSerial
  \/ /\ kind = "ringbuffer" /\ RB!Init
     /\ at = None /\ step = None /\ NoLock /\ NoBarrier /\ NoHeap /\ NoDhcps /\ NoTable /\ NoSerial
  \/ /\ kind = "memheap" /\ MH!Init
     /\ step = None /\ NoLock /\ NoBarrier /\ rb = None /\ NoDhcps /\ NoTable /\ NoSerial
  \/ /\ kind = "dhcps" /\ DH!Init
     /\ at = None /\ step = None /\ NoLock /\ NoBarrier /\ rb = None /\ NoHeap /\ NoTable /\ NoSerial
  \/ /\ kind = "fdtable" /\ FD!Init
     /\ at = None /\ NoLock /\ NoBarrier /\ rb = None /\ NoHeap /\ NoDhcps /\ NoSerial
  \/ /\ kind = "serial" /\ SE!Init
     /\ at = None /\ step = None /\ NoLock /\ NoBarrier /\ rb = None /\ NoHeap /\ NoDhcps /\ NoTable

Next ==
  /\ \/ /\ kind = "rwlock" /\ RW!Next
        /\ UNCHANGED <<step, barrierVars, rb, heapVars, dhcpsVars, fdVars, serialVars>>
     \/ /\ kind = "barrier" /\ BA!Next
        /\ UNCHANGED <<at, lockVars, rb, heapVars, dhcpsVars, fdVars, serialVars>>
     \/ /\ kind = "ringbuffer" /\ RB!Next
        /\ UNCHANGED <<at, step, lockVars, barrierVars, heapVars, dhcpsVars, fdVars, serialVars>>
     \/ /\ kind = "memheap" /\ MH!Next
        /\ UNCHANGED <<step, lockVars, barrierVars, rb, dhcpsVars, fdVars, serialVars>>
     \/ /\ kind = "dhcps" /\ DH!Next
        /\ UNCHANGED <<at, step, lockVars, barrierVars, rb, heapVars, fdVars, serialVars>>
     \/ /\ kind = "fdtable" /\ FD!Next
        /\ UNCHANGED <<at, lockVars, barrierVars, rb, heapVars, dhcpsVars, serialVars>>
     \/ /\ kind = "serial" /\ SE!Next
        /\ UNCHANGED <<at, step, lockVars, barrierVars, rb, heapVars, dhcpsVars, fdVars>>
  /\ UNCHANGED kind

Spec == Init /\ [][Next]_vars

-----------------------------------------------------------------------------
\* rw_refcount says who holds the read-write lock: one writer, or readers.
Exclusive == kind = "rwlock" => RW!Exclusive

\* Nobody is left asleep at a free read-write lock, at a barrier all have come to, or
\* beside bytes a serial device has received; nobody passes a barrier before.
NoneStranded ==
  /\ kind = "rwlock" => RW!NoneStranded
  /\ kind = "barrier" => BA!NoneStranded /\ BA!PassTogether
  /\ kind = "serial" => SE!NoneStranded

\* The ring buffer is a queue of bytes, wherever its indices are, and the receive FIFO
\* of a serial device one that forgets its oldest bytes.
RingIsQueue ==
  /\ kind = "ringbuffer" => RB!Mirrored /\ RB!RingIsQueue
  /\ kind = "serial" => SE!FifoIsNewest

\* The blocks of the heap fill its pool, and available_size is what is free.
HeapTiled == kind = "memheap" => MH!HeapTiled /\ MH!AvailableExact

\* What is in use has its users: a block of the heap belongs to one thread and is as
\* large as it asked; the reference count of a file descriptor is the number of calls
\* in progress and of open files, that of a serial device the number of its openers.
UsersExact ==
  /\ kind = "memheap" => MH!BlocksOwned
  /\ kind = "fdtable" => FD!RefsExact
  /\ kind = "serial" => SE!OpenersExact

\* The leases of the DHCP server are distinct and in its pool, last as long as the
\* clients were told, and an address is found while one is free.
LeasesSound == kind = "dhcps" => DH!LeasesSound
=============================================================================
