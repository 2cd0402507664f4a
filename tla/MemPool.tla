------------------------------ MODULE MemPool ------------------------------
(***************************************************************************)
(* The memory pool of mempool.c: fixed blocks on a free list, a count of   *)
(* the free blocks, and a wait list with a count of its own.  A waiter is  *)
(* put at the front of the wait list, so the last to come is served first. *)
(***************************************************************************)
EXTENDS Waits, FiniteSets

CONSTANTS
  Blocks,     \* the blocks of the pool
  Pool        \* its wait list

\* What the constants have to satisfy.
ConstantsOK == Pool \in Queue /\ IsFiniteSet(Blocks)

VARIABLES
  mp,      \* the pool object
  used     \* the blocks that have been given out; whoever has one may free it

vars == <<k, irq, pc, wait, mp, used>>

PoolType ==
  [ block_list           : Seq(Blocks),              \* the free blocks
    block_free_count     : 0 .. Cardinality(Blocks),
    suspend_thread_count : Nat ]

\* rt_mp_init links all blocks, in some order.
Fresh(order) ==
  [ block_list           |-> order,
    block_free_count     |-> Cardinality(Blocks),
    suspend_thread_count |-> 0 ]

Orders == {s \in [1 .. Cardinality(Blocks) -> Blocks] : Range(s) = Blocks}

Init ==
  /\ k = AllStarted
  /\ irq = "open"
  /\ pc = [t \in Thread |-> "run"]
  /\ wait = [t \in Thread |-> NoWait]
  /\ mp = Fresh(CHOOSE s \in Orders : TRUE)
  /\ used = {}

-----------------------------------------------------------------------------
\* (defect) the new waiter is linked but not counted
SuspendUncounted(t, w) ==
  /\ LET r == rt_thread_suspend([k EXCEPT !.error[t] = "EOK"], t)
         q == [r EXCEPT !.tl[Pool] = <<t>> \o @]
     IN  k' = IF w.time > 0 THEN rt_timer_start(q, t, w.time) ELSE q
  /\ wait' = [wait EXCEPT ![t] = w]
  /\ Goto(t, "alloc_sched")
  /\ UNCHANGED <<mp, used>>

\* The thread goes to the front of the wait list.
SuspendForBlock(t, w) ==
  /\ LET r == rt_thread_suspend([k EXCEPT !.error[t] = "EOK"], t)
         q == [r EXCEPT !.tl[Pool] = <<t>> \o @]
     IN  k' = IF w.time > 0 THEN rt_timer_start(q, t, w.time) ELSE q
  /\ mp' = [mp EXCEPT !.suspend_thread_count = @ + 1]
  /\ wait' = [wait EXCEPT ![t] = w]
  /\ Goto(t, "alloc_sched")
  /\ UNCHANGED used

TakeBlock(t, w) ==
  /\ mp.block_free_count > 0
  /\ mp' = [mp EXCEPT !.block_free_count = @ - 1, !.block_list = Tail(@)]
  /\ used' = used \cup {Head(mp.block_list)}
  /\ Goto(t, "run") /\ NoMoreWait(t)
  /\ UNCHANGED k

\* rt_mp_alloc from the test of block_free_count on, with interrupts disabled.
TryAlloc(t, w) ==
  \/ TakeBlock(t, w)
  \/ /\ mp.block_free_count = 0 /\ w.time = 0
     /\ k' = [k EXCEPT !.error[t] = "ETIMEOUT"]
     /\ Goto(t, "run") /\ NoMoreWait(t)
     /\ UNCHANGED <<mp, used>>
  \/ mp.block_free_count = 0 /\ w.time # 0 /\ SuspendForBlock(t, w)

rt_mp_alloc(t, time) == Calling(t) /\ TryAlloc(t, For(time)) /\ UNCHANGED irq

\* A thread runs again: it returns RT_NULL if an error is set, or looks again.
AllocAgain(t) ==
  /\ At(t, "alloc_wake")
  /\ IF k.error[t] # "EOK"
     THEN Goto(t, "run") /\ NoMoreWait(t) /\ UNCHANGED <<k, mp, used>>
     ELSE TryAlloc(t, TimeLeft(wait[t]))
  /\ UNCHANGED irq

\* With suspend_thread_count > 0 the first thread of the wait list is resumed.
ResumeFirst ==
  IF mp.suspend_thread_count > 0
  THEN LET u == Head(k.tl[Pool])
       IN  [resumed |-> TRUE, k |-> rt_thread_resume([k EXCEPT !.error[u] = "EOK"], u),
            count |-> mp.suspend_thread_count - 1]
  ELSE [resumed |-> FALSE, k |-> k, count |-> mp.suspend_thread_count]

FreeBlock(b) ==
  /\ used' = used \ {b}
  /\ mp' = [ block_list           |-> <<b>> \o mp.block_list,
             block_free_count     |-> mp.block_free_count + 1,
             suspend_thread_count |-> ResumeFirst.count ]

rt_mp_free(t, b) ==
  /\ Calling(t)
  /\ FreeBlock(b)
  /\ k' = ResumeFirst.k
  /\ Goto(t, IF ResumeFirst.resumed THEN "sched" ELSE "run")
  /\ UNCHANGED <<irq, wait>>

\* rt_mp_free called by an interrupt handler.
InterruptFree(b) ==
  /\ irq = "open"
  /\ FreeBlock(b)
  /\ k' = IF ResumeFirst.resumed THEN rt_schedule(ResumeFirst.k) ELSE k
  /\ UNCHANGED <<irq, pc, wait>>

CallsSchedule(t) ==
  /\ Reschedule(t, "alloc_sched", "alloc_wake") \/ Reschedule(t, "sched", "run")
  /\ UNCHANGED <<wait, mp, used>>

Next ==
  \/ Tick /\ UNCHANGED <<mp, used>>
  \/ \E b \in used : InterruptFree(b)
  \/ \E t \in Thread :
       \/ \E time \in Times : rt_mp_alloc(t, time)
       \/ \E b \in used : rt_mp_free(t, b)
       \/ AllocAgain(t)
       \/ CallsSchedule(t)

Spec == Init /\ [][Next]_vars

-----------------------------------------------------------------------------
\* The state has the types of struct rt_mempool and of the kernel.
TypeOK ==
  /\ k \in KernelType
  /\ irq \in {"open", "tick"}
  /\ pc \in [Thread -> {"run", "sched", "alloc_sched", "alloc_wake"}]
  /\ wait \in [Thread -> WaitType]
  /\ mp \in PoolType
  /\ used \in SUBSET Blocks

\* Every block is either given out or once on the free list, and block_free_count is
\* the length of that list, so that the assertion of rt_mp_alloc on block_ptr holds.
BlocksPartitioned ==
  /\ Range(mp.block_list) = Blocks \ used
  /\ Len(mp.block_list) = Cardinality(Blocks \ used)
  /\ mp.block_free_count = Len(mp.block_list)

InAlloc(t) == pc[t] \in {"alloc_sched", "alloc_wake"}

\* No wake-up is lost: while threads sleep on the pool, every free block has a
\* resumed thread on its way.
NoLostWakeup ==
  k.tl[Pool] # <<>> => mp.block_free_count <= Cardinality(Woken({t \in Thread : InAlloc(t)}))

\* The wait list holds exactly the threads suspended in rt_mp_alloc, and
\* suspend_thread_count is its length.
WaitersExact ==
  /\ ListsAgree
  /\ \A t \in Thread : Linked(t, Pool) <=> InAlloc(t) /\ k.stat[t] = "SUSPEND"
  /\ mp.suspend_thread_count = Len(k.tl[Pool])

\* Where rt_mp_free says "get the suspended thread", there is one: it trusts
\* suspend_thread_count and takes the first entry of the wait list.
CountMeansWaiter == mp.suspend_thread_count > 0 => k.tl[Pool] # <<>>
=============================================================================
