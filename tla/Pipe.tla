-------------------------------- MODULE Pipe --------------------------------
(***************************************************************************)
(* The pipe device of pipe.c: a ring buffer with a list of threads waiting *)
(* to read and one of threads waiting to write.  What the bytes are does   *)
(* not matter here, only how many there are.  A write resumes one reader   *)
(* and a read one writer, however much there is for others, so that at     *)
(* most one thread may wait at each end.                                   *)
(***************************************************************************)
EXTENDS Ipc, Ring

CONSTANTS
  Flags,               \* the flags of a pipe: sets of "BLOCK_RD", "BLOCK_WR", "FORCE_WR"
  Amounts,             \* how much is read or written at a time, never 0
  Readers, Writers,    \* suspended_read_list and suspended_write_list
  AnyUse               \* whether several threads may wait at one end

\* What the constants have to satisfy.
ConstantsOK ==
  /\ {Readers, Writers} \subseteq Queue
  /\ Flags \subseteq SUBSET {"BLOCK_RD", "BLOCK_WR", "FORCE_WR"}
  /\ Size \in Nat \ {0}
  /\ Amounts \subseteq Nat \ {0}

VARIABLES
  flag,      \* pipe->flag, which does not change
  ring,      \* the ring buffer
  amount     \* what each thread is reading or writing

vars == <<k, irq, pc, flag, ring, amount>>

BlockRd == "BLOCK_RD" \in flag

\* A write that does not find room waits.
BlockWr == "BLOCK_WR" \in flag /\ "FORCE_WR" \notin flag

InRead == {t \in Thread : pc[t] \in {"read_sched", "read_wake"}}

InWrite == {t \in Thread : pc[t] \in {"write_sched", "write_wake"}}

Some == CHOOSE b \in Byte : TRUE

\* A block of n bytes.
BlockOf(n) == [i \in 1 .. n |-> Some]

\* rt_pipe_init.
Init ==
  /\ k = AllStarted
  /\ irq = "open"
  /\ pc = [t \in Thread |-> "run"]
  /\ flag \in Flags
  /\ ring = NewRing([i \in Index |-> Some])
  /\ amount = [t \in Thread |-> 0]

-----------------------------------------------------------------------------
\* _rt_pipe_resume_writer and _rt_pipe_resume_reader: the first thread is resumed and
\* rt_schedule called, with interrupts disabled all the time.
ResumeFirst(q) == IF k.tl[q] = <<>> THEN k ELSE rt_schedule(rt_ipc_list_resume(k, q))

Done(t) == Goto(t, "run") /\ amount' = [amount EXCEPT ![t] = 0]

\* Thread t has found nothing to do: it goes to sleep at the end of the list, with no
\* time-out.
Sleeps(t, q, n, label) ==
  /\ k' = rt_ipc_list_suspend(k, q, t, "FIFO")
  /\ Goto(t, label)
  /\ amount' = [amount EXCEPT ![t] = n]
  /\ UNCHANGED ring

\* What rt_pipe_read does when there are bytes.
Read(t, n) ==
  /\ ring' = rt_ringbuffer_get(ring, n)
  /\ k' = ResumeFirst(Writers)
  /\ Done(t)

\* rt_pipe_read from its loop on.
TryRead(t, n) ==
  \/ Available(ring, n) > 0 /\ Read(t, n)
  \/ Available(ring, n) = 0 /\ ~BlockRd /\ Done(t) /\ UNCHANGED <<k, ring>>
  \/ Available(ring, n) = 0 /\ BlockRd /\ Sleeps(t, Readers, n, "read_sched")

rt_pipe_read(t, n) ==
  /\ Calling(t)
  /\ BlockRd /\ InRead # {} => AnyUse
  /\ TryRead(t, n)
  /\ UNCHANGED <<irq, flag>>

ReadAgain(t) == At(t, "read_wake") /\ TryRead(t, amount[t]) /\ UNCHANGED <<irq, flag>>

\* The bytes are put in the buffer and a reader is resumed.
Write(n) ==
  /\ ring' = IF "FORCE_WR" \in flag THEN rt_ringbuffer_put_force(ring, BlockOf(n), Some)
                                    ELSE rt_ringbuffer_put(ring, BlockOf(n))
  /\ k' = ResumeFirst(Readers)

\* rt_pipe_write from its loop on: a write that does not block resumes a reader even
\* if nothing has been written.
TryWrite(t, n) ==
  \/ ~BlockWr /\ Write(n) /\ Done(t)
  \/ BlockWr /\ Accepted(ring, n) > 0 /\ Write(n) /\ Done(t)
  \/ BlockWr /\ Accepted(ring, n) = 0 /\ Sleeps(t, Writers, n, "write_sched")

rt_pipe_write(t, n) ==
  /\ Calling(t)
  /\ BlockWr /\ InWrite # {} => AnyUse
  /\ TryWrite(t, n)
  /\ UNCHANGED <<irq, flag>>

WriteAgain(t) == At(t, "write_wake") /\ TryWrite(t, amount[t]) /\ UNCHANGED <<irq, flag>>

\* An interrupt handler writes to a pipe whose writes do not block.
InterruptWrite(n) ==
  /\ irq = "open"
  /\ ~BlockWr
  /\ Write(n)
  /\ UNCHANGED <<irq, pc, flag, amount>>

\* One reads from a pipe whose reads do not block.
InterruptRead(n) ==
  /\ irq = "open"
  /\ ~BlockRd
  /\ Available(ring, n) > 0
  /\ ring' = rt_ringbuffer_get(ring, n)
  /\ k' = ResumeFirst(Writers)
  /\ UNCHANGED <<irq, pc, flag, amount>>

CallsSchedule(t) ==
  /\ \/ Reschedule(t, "read_sched", "read_wake")
     \/ Reschedule(t, "write_sched", "write_wake")
  /\ UNCHANGED <<flag, ring, amount>>

Tick == rt_tick_increase /\ UNCHANGED <<pc, flag, ring, amount>>

Next ==
  \/ Tick
  \/ \E n \in Amounts : InterruptRead(n) \/ InterruptWrite(n)
  \/ \E t \in Thread :
       \/ \E n \in Amounts : rt_pipe_read(t, n) \/ rt_pipe_write(t, n)
       \/ ReadAgain(t) \/ WriteAgain(t) \/ CallsSchedule(t)

Spec == Init /\ [][Next]_vars

-----------------------------------------------------------------------------
\* The state has the types of struct rt_pipe_device and of the kernel.
TypeOK ==
  /\ k \in KernelType
  /\ pc \in [Thread -> {"run", "read_sched", "read_wake", "write_sched", "write_wake"}]
  /\ flag \in Flags
  /\ ring \in RingType
  /\ amount \in [Thread -> Amounts \cup {0}]

\* No reader sleeps while there are bytes and no writer while there is room.
NoLostWakeup ==
  /\ k.tl[Readers] # <<>> => rt_ringbuffer_data_len(ring) = 0
  /\ k.tl[Writers] # <<>> => rt_ringbuffer_space_len(ring) = 0

\* The lists hold exactly the threads suspended in a read and in a write.
WaitersExact ==
  /\ ListsAgree
  /\ \A t \in Thread :
       /\ Linked(t, Readers) <=> t \in InRead /\ k.stat[t] = "SUSPEND"
       /\ Linked(t, Writers) <=> t \in InWrite /\ k.stat[t] = "SUSPEND"
=============================================================================
