----------------------------- MODULE DataQueue ------------------------------
(***************************************************************************)
(* The data queue of dataqueue.c: a ring of pointers to data, with a list  *)
(* of threads waiting to push and one of threads waiting to pop.  Its two  *)
(* indices run freely and wrap at their width.                             *)
(***************************************************************************)
EXTENDS Waits, FiniteSets

CONSTANTS
  Data, NoData,        \* what is pushed
  Size,                \* the number of entries
  Lwm,                 \* lwm: at or below this level a pop resumes a thread that pushes
  Width,               \* the indices count modulo Width (65536)
  MaxPut,              \* bound: no push when put_index is here
  Pushers, Poppers     \* suspended_push_list and suspended_pop_list

\* What the constants have to satisfy.
ConstantsOK ==
  /\ {Pushers, Poppers} \subseteq Queue
  /\ NoData \notin Data
  /\ Size \in 1 .. Width - 1
  /\ Lwm \in 0 .. Size
  /\ MaxPut \in 0 .. Width

VARIABLES
  dq,     \* the queue: the entries, put_index and get_index
  mail,   \* the data each thread is pushing
  got     \* what the last pop delivered

vars == <<k, irq, pc, wait, dq, mail, got>>

DataQueueType ==
  [pool : [0 .. Size - 1 -> Data \cup {NoData}], put : 0 .. Width - 1, get : 0 .. Width - 1]

\* rt_data_queue_init.
Init ==
  /\ k = AllStarted
  /\ irq = "open"
  /\ pc = [t \in Thread |-> "run"]
  /\ wait = [t \in Thread |-> NoWait]
  /\ dq = [pool |-> [i \in 0 .. Size - 1 |-> NoData], put |-> 0, get |-> 0]
  /\ mail = [t \in Thread |-> NoData]
  /\ got = NoData

-----------------------------------------------------------------------------
\* put_index - get_index, which C computes as a signed integer.
Filled(q) == q.put - q.get

\* (defect) the queue is full one entry too late
FullLate(q) == Filled(q) = Size + 1

Full(q) == Filled(q) = Size

Store(v) == dq' = [dq EXCEPT !.pool[dq.put % Size] = v, !.put = (@ + 1) % Width]

Done(t) == NoMoreWait(t) /\ mail' = [mail EXCEPT ![t] = NoData]

\* rt_data_queue_push from its loop on, with interrupts disabled.
TryPush(t, v, w) ==
  /\ \/ ~Full(dq) /\ dq.put < MaxPut /\ Store(v) /\ Wake(t, Poppers) /\ Done(t)
     \/ Full(dq) /\ w.time = 0 /\ Goto(t, "run") /\ Done(t) /\ UNCHANGED <<k, dq>>
     \/ Full(dq) /\ w.time # 0 /\ WaitOn(t, Pushers, w, "push_sched")
          /\ mail' = [mail EXCEPT ![t] = v] /\ UNCHANGED dq
  /\ UNCHANGED got

rt_data_queue_push(t, v, time) == Calling(t) /\ TryPush(t, v, For(time)) /\ UNCHANGED irq

\* A thread that was resumed waits again with the whole of its waiting time.
PushAgain(t) ==
  /\ At(t, "push_wake")
  /\ IF k.error[t] # "EOK"
     THEN Goto(t, "run") /\ Done(t) /\ UNCHANGED <<k, dq, got>>
     ELSE TryPush(t, mail[t], For(wait[t].time))
  /\ UNCHANGED irq

\* (defect) a pop never resumes a thread that pushes
PopQuiet(t) ==
  /\ got' = dq.pool[dq.get % Size]
  /\ dq' = [dq EXCEPT !.get = (@ + 1) % Width]
  /\ UNCHANGED k /\ Goto(t, "run")

\* An entry is taken; at the low water mark the first thread that pushes is resumed.
Pop(t) ==
  /\ got' = dq.pool[dq.get % Size]
  /\ dq' = [dq EXCEPT !.get = (@ + 1) % Width]
  /\ IF Filled(dq') <= Lwm THEN Wake(t, Pushers) ELSE UNCHANGED k /\ Goto(t, "run")

\* rt_data_queue_pop from its loop on, with interrupts disabled.
TryPop(t, w) ==
  /\ \/ dq.get # dq.put /\ Pop(t) /\ NoMoreWait(t)
     \/ dq.get = dq.put /\ w.time = 0 /\ Goto(t, "run") /\ NoMoreWait(t) /\ UNCHANGED <<k, dq, got>>
     \/ dq.get = dq.put /\ w.time # 0 /\ WaitOn(t, Poppers, w, "pop_sched") /\ UNCHANGED <<dq, got>>
  /\ UNCHANGED mail

rt_data_queue_pop(t, time) == Calling(t) /\ TryPop(t, For(time)) /\ UNCHANGED irq

PopAgain(t) ==
  /\ At(t, "pop_wake")
  /\ IF k.error[t] # "EOK"
     THEN Goto(t, "run") /\ NoMoreWait(t) /\ UNCHANGED <<k, dq, mail, got>>
     ELSE TryPop(t, For(wait[t].time))
  /\ UNCHANGED irq

\* Where a thread is in rt_data_queue_reset.
Resetting == {"reset_pop", "reset_push", "reset_end"}

\* rt_data_queue_push and rt_data_queue_pop called by an interrupt handler, as the
\* serial driver does when a transfer has ended.
InterruptPush(v) ==
  /\ irq = "open" /\ pc[k.cur] \notin Resetting
  /\ dq.put < MaxPut
  /\ ~Full(dq)
  /\ Store(v)
  /\ WakeFromInterrupt(Poppers)
  /\ UNCHANGED <<irq, pc, wait, mail, got>>

InterruptPop ==
  /\ irq = "open" /\ pc[k.cur] \notin Resetting
  /\ dq.get # dq.put
  /\ got' = dq.pool[dq.get % Size]
  /\ dq' = [dq EXCEPT !.get = (@ + 1) % Width]
  /\ IF Filled(dq') <= Lwm THEN WakeFromInterrupt(Pushers) ELSE UNCHANGED k
  /\ UNCHANGED <<irq, pc, wait, mail>>

\* rt_data_queue_reset: with the scheduler locked, all threads wake with -RT_ERROR, the
\* lists one after the other; the data stay.  Each round tests the list with
\* interrupts enabled, so no thread with a time-out may be asleep, and no interrupt
\* handler may use the queue until it is over.
rt_data_queue_reset(t) ==
  /\ Calling(t)
  /\ Range(k.tl[Poppers] \o k.tl[Pushers]) \cap Range(k.timers) = {}
  /\ k' = [k EXCEPT !.lock = @ + 1]
  /\ Goto(t, "reset_pop")
  /\ UNCHANGED <<irq, wait, dq, mail, got>>

ResetRound(t, label, q, next) ==
  /\ At(t, label)
  /\ IF k.tl[q] # <<>>
     THEN k' = ResumeWithError(k, Head(k.tl[q])) /\ UNCHANGED pc
     ELSE UNCHANGED k /\ Goto(t, next)
  /\ UNCHANGED <<irq, wait, dq, mail, got>>

ResetUnlock(t) ==
  /\ At(t, "reset_end")
  /\ k' = rt_schedule([k EXCEPT !.lock = @ - 1])
  /\ Goto(t, "sched")
  /\ UNCHANGED <<irq, wait, dq, mail, got>>

ResetGoesOn(t) ==
  \/ ResetRound(t, "reset_pop", Poppers, "reset_push")
  \/ ResetRound(t, "reset_push", Pushers, "reset_end")
  \/ ResetUnlock(t)

-----------------------------------------------------------------------------
CallsSchedule(t) ==
  /\ \/ Reschedule(t, "push_sched", "push_wake")
     \/ Reschedule(t, "pop_sched", "pop_wake")
     \/ Reschedule(t, "sched", "run")
  /\ UNCHANGED <<wait, dq, mail, got>>

Next ==
  \/ Tick /\ UNCHANGED <<dq, mail, got>>
  \/ InterruptPop \/ \E v \in Data : InterruptPush(v)
  \/ \E t \in Thread :
       \/ \E v \in Data, time \in Times : rt_data_queue_push(t, v, time)
       \/ \E time \in Times : rt_data_queue_pop(t, time)
       \/ rt_data_queue_reset(t)
       \/ PushAgain(t) \/ PopAgain(t) \/ ResetGoesOn(t) \/ CallsSchedule(t)

Spec == Init /\ [][Next]_vars

-----------------------------------------------------------------------------
\* The state has the types of struct rt_data_queue and of the kernel.
TypeOK ==
  /\ k \in KernelType
  /\ pc \in [Thread -> {"run", "sched", "push_sched", "push_wake", "pop_sched", "pop_wake"}
                        \cup Resetting]
  /\ wait \in [Thread -> WaitType]
  /\ dq \in DataQueueType
  /\ mail \in [Thread -> Data \cup {NoData}]
  /\ got \in Data \cup {NoData}

\* What is in the queue, oldest first.
Contents == [i \in 1 .. Filled(dq) |-> dq.pool[(dq.get + i - 1) % Size]]

Promise == INSTANCE Fifo WITH
  Value <- Data, NoValue <- NoData, Puts <- {"BACK"}, queue <- Contents

\* Until an index wraps, the ring is a first-in first-out queue.
IsFifo == Promise!Spec

InPush(t) == pc[t] \in {"push_sched", "push_wake"}

InPop(t) == pc[t] \in {"pop_sched", "pop_wake"}

\* While threads wait to pop, every entry has a resumed thread on its way.  While
\* threads wait to push, there is an entry whose pop will resume one, or one has been
\* resumed: below the low water mark others may go on sleeping beside a free entry,
\* but not beside an empty queue.
NoLostWakeup ==
  /\ k.tl[Poppers] # <<>> => Filled(dq) <= Cardinality(Woken({t \in Thread : InPop(t)}))
  /\ k.tl[Pushers] # <<>> => Filled(dq) > 0 \/ Woken({t \in Thread : InPush(t)}) # {}

\* The lists hold exactly the threads suspended in push and pop.
WaitersExact ==
  /\ ListsAgree
  /\ \A t \in Thread :
       /\ Linked(t, Poppers) <=> InPop(t) /\ k.stat[t] = "SUSPEND"
       /\ Linked(t, Pushers) <=> InPush(t) /\ k.stat[t] = "SUSPEND"
=============================================================================
