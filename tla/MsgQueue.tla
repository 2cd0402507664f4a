------------------------------ MODULE MsgQueue ------------------------------
(***************************************************************************)
(* The message queue of ipc.c.  Its blocks are linked by pointers: a free  *)
(* list and a queue with head and tail.  A message is copied into its      *)
(* block, and out of it, with interrupts enabled, so a block passes from   *)
(* the free list through the hands of a sender to the queue, and through   *)
(* the hands of a receiver back.                                           *)
(***************************************************************************)
EXTENDS Waits, FiniteSets

CONSTANTS
  Msg, NoMsg,     \* the messages
  MaxMsgs,        \* max_msgs: the blocks of the pool are 1 .. MaxMsgs
  Receivers       \* the wait list

\* What the constants have to satisfy.
ConstantsOK ==
  /\ Receivers \in Queue
  /\ NoMsg \notin Msg
  /\ MaxMsgs \in Nat \ {0}

VARIABLES
  mq,      \* the queue object and its pool
  hand,    \* the block each thread copies into or out of
  buf,     \* the message each thread sends, or has received
  got      \* history: the message rt_mq_recv took off the queue last

vars == <<k, irq, pc, wait, mq, hand, buf, got>>

Blocks == 1 .. MaxMsgs

Null == 0

Pointer == Blocks \cup {Null}

QueueType ==
  [ head : Pointer, tail : Pointer, free : Pointer, entry : 0 .. MaxMsgs,
    next : [Blocks -> Pointer],
    body : [Blocks -> Msg \cup {NoMsg}] ]

\* rt_mq_init pushes the blocks on the free list one after the other.
Fresh ==
  [ head |-> Null, tail |-> Null, free |-> MaxMsgs, entry |-> 0,
    next |-> [b \in Blocks |-> b - 1],
    body |-> [b \in Blocks |-> NoMsg] ]

Init ==
  /\ k = AllStarted
  /\ irq = "open"
  /\ pc = [t \in Thread |-> "run"]
  /\ wait = [t \in Thread |-> NoWait]
  /\ mq = Fresh
  /\ hand = [t \in Thread |-> Null]
  /\ buf = [t \in Thread |-> NoMsg]
  /\ got = NoMsg

-----------------------------------------------------------------------------
(* The steps on the queue, each with interrupts disabled except Copy and Fill. *)

Claim(q) == [q EXCEPT !.free = q.next[q.free]]

Copy(q, b, m) == [q EXCEPT !.body[b] = m]

\* rt_mq_send also ends the chain at the new block.
Fill(q, b, m) == [Copy(q, b, m) EXCEPT !.next[b] = Null]

\* (defect) the old tail is not linked to the new one
AppendNoLink(q, b) ==
  [q EXCEPT !.tail = b, !.head = IF @ = Null THEN b ELSE @, !.entry = @ + 1]

\* The end of rt_mq_send: the block becomes the tail.
AppendBlock(q, b) ==
  [q EXCEPT !.next  = IF q.tail = Null THEN @ ELSE [@ EXCEPT ![q.tail] = b],
            !.tail  = b,
            !.head  = IF @ = Null THEN b ELSE @,
            !.entry = @ + 1]

\* The end of rt_mq_urgent: the block becomes the head.
PushBlock(q, b) ==
  [q EXCEPT !.next[b] = q.head,
            !.head    = b,
            !.tail    = IF @ = Null THEN b ELSE @,
            !.entry   = @ + 1]

TakeHead(q) ==
  [q EXCEPT !.head = q.next[q.head],
            !.tail = IF @ = q.head THEN Null ELSE @]

Recycle(q, b) == [q EXCEPT !.next[b] = q.free, !.free = b]

\* Every queued block, from the head on, goes to the free list.
Drain(q) ==
  LET after[n \in 0 .. q.entry] ==
        IF n = 0 THEN q ELSE Recycle(TakeHead(after[n - 1]), after[n - 1].head)
  IN  [after[q.entry] EXCEPT !.entry = 0]

-----------------------------------------------------------------------------
\* rt_mq_send and rt_mq_urgent up to the claim of a block; -RT_EFULL without one.
SendClaim(t, m, label) ==
  /\ Calling(t)
  /\ \/ mq.free = Null /\ UNCHANGED <<pc, mq, hand, buf>>
     \/ /\ mq.free # Null
        /\ mq' = Claim(mq)
        /\ hand' = [hand EXCEPT ![t] = mq.free]
        /\ buf' = [buf EXCEPT ![t] = m]
        /\ Goto(t, label)
  /\ UNCHANGED <<k, irq, wait, got>>

SendFill(t) ==
  /\ At(t, "fill")
  /\ mq' = Fill(mq, hand[t], buf[t])
  /\ Goto(t, "link")
  /\ UNCHANGED <<k, irq, wait, hand, buf, got>>

UrgentFill(t) ==
  /\ At(t, "urgent_fill")
  /\ mq' = Copy(mq, hand[t], buf[t])
  /\ Goto(t, "urgent_link")
  /\ UNCHANGED <<k, irq, wait, hand, buf, got>>

\* A call that has let go of its block.
Done(t) == hand' = [hand EXCEPT ![t] = Null] /\ buf' = [buf EXCEPT ![t] = NoMsg]

SendLink(t) ==
  /\ At(t, "link")
  /\ mq' = AppendBlock(mq, hand[t])
  /\ Wake(t, Receivers)
  /\ Done(t)
  /\ UNCHANGED <<irq, wait, got>>

UrgentLink(t) ==
  /\ At(t, "urgent_link")
  /\ mq' = PushBlock(mq, hand[t])
  /\ Wake(t, Receivers)
  /\ Done(t)
  /\ UNCHANGED <<irq, wait, got>>

\* rt_mq_send called by an interrupt handler, which no thread interrupts.
InterruptSend(m) ==
  /\ irq = "open"
  /\ mq.free # Null
  /\ mq' = AppendBlock(Fill(Claim(mq), mq.free, m), mq.free)
  /\ WakeFromInterrupt(Receivers)
  /\ UNCHANGED <<irq, pc, wait, hand, buf, got>>

\* rt_mq_recv from the test of an empty queue on, with interrupts disabled.
TryRecv(t, w) ==
  /\ \/ /\ mq.entry > 0
        /\ mq' = [TakeHead(mq) EXCEPT !.entry = @ - 1]
        /\ hand' = [hand EXCEPT ![t] = mq.head]
        /\ got' = mq.body[mq.head]
        /\ NoMoreWait(t) /\ Goto(t, "copy")
        /\ UNCHANGED k
     \/ /\ mq.entry = 0 /\ w.time = 0
        /\ k' = [k EXCEPT !.error[t] = IF pc[t] = "run" THEN @ ELSE "ETIMEOUT"]
        /\ NoMoreWait(t) /\ Goto(t, "run")
        /\ UNCHANGED <<mq, hand, got>>
     \/ /\ mq.entry = 0 /\ w.time # 0
        /\ WaitOn(t, Receivers, w, "recv_sched")
        /\ UNCHANGED <<mq, hand, got>>
  /\ UNCHANGED buf

rt_mq_recv(t, time) == Calling(t) /\ TryRecv(t, For(time)) /\ UNCHANGED irq

RecvAgain(t) ==
  /\ At(t, "recv_wake")
  /\ IF k.error[t] # "EOK"
     THEN Goto(t, "run") /\ NoMoreWait(t) /\ UNCHANGED <<k, mq, hand, buf, got>>
     ELSE TryRecv(t, TimeLeft(wait[t]))
  /\ UNCHANGED irq

RecvCopy(t) ==
  /\ At(t, "copy")
  /\ buf' = [buf EXCEPT ![t] = mq.body[hand[t]]]
  /\ Goto(t, "release")
  /\ UNCHANGED <<k, irq, wait, mq, hand, got>>

RecvRelease(t) ==
  /\ At(t, "release")
  /\ mq' = Recycle(mq, hand[t])
  /\ Done(t)
  /\ Goto(t, "run")
  /\ UNCHANGED <<k, irq, wait, got>>

\* rt_mq_control(mq, RT_IPC_CMD_RESET).
rt_mq_control(t) ==
  /\ Calling(t)
  /\ k' = rt_ipc_list_resume_all(k, Receivers)
  /\ mq' = Drain(mq)
  /\ Goto(t, "sched")
  /\ UNCHANGED <<irq, wait, hand, buf, got>>

-----------------------------------------------------------------------------
CallsSchedule(t) ==
  /\ Reschedule(t, "recv_sched", "recv_wake") \/ Reschedule(t, "sched", "run")
  /\ UNCHANGED <<wait, mq, hand, buf, got>>

Service(t) ==
  \/ \E m \in Msg : SendClaim(t, m, "fill") \/ SendClaim(t, m, "urgent_fill")
  \/ \E time \in Times : rt_mq_recv(t, time)
  \/ rt_mq_control(t)

Continue(t) ==
  \/ SendFill(t)
  \/ UrgentFill(t)
  \/ SendLink(t)
  \/ UrgentLink(t)
  \/ RecvAgain(t)
  \/ RecvCopy(t)
  \/ RecvRelease(t)
  \/ CallsSchedule(t)

Next ==
  \/ Tick /\ UNCHANGED <<mq, hand, buf, got>>
  \/ \E m \in Msg : InterruptSend(m)
  \/ \E t \in Thread : Service(t) \/ Continue(t)

Spec == Init /\ [][Next]_vars

-----------------------------------------------------------------------------
Label == {"run", "sched", "fill", "urgent_fill", "link", "urgent_link", "recv_sched",
          "recv_wake", "copy", "release"}

\* The state has the types of struct rt_messagequeue and of the kernel; in particular
\* entry stays between 0 and max_msgs.
TypeOK ==
  /\ k \in KernelType
  /\ irq \in {"open", "tick"}
  /\ pc \in [Thread -> Label]
  /\ wait \in [Thread -> WaitType]
  /\ mq \in QueueType
  /\ hand \in [Thread -> Pointer]
  /\ buf \in [Thread -> Msg \cup {NoMsg}]
  /\ got \in Msg \cup {NoMsg}

\* The blocks linked from pointer p on, for as many steps as there are blocks.
Chain(p) ==
  LET at[n \in Blocks] == IF n = 1 THEN p ELSE IF at[n - 1] = Null THEN Null ELSE mq.next[at[n - 1]]
  IN  SelectSeq([n \in Blocks |-> at[n]], LAMBDA b : b # Null)

Queued == Chain(mq.head)

\* No block is lost or shared.  At every moment, also while messages are copied, each
\* block is in exactly one place, once: the free list, the queue, or the hands of one
\* thread.  The count and the tail pointer agree with the queue.
BlocksPartitioned ==
  LET inHand == {t \in Thread : hand[t] # Null}
      free   == Chain(mq.free)
  IN  /\ Range(free) \cup Range(Queued) \cup {hand[t] : t \in inHand} = Blocks
      /\ Len(free) + Len(Queued) + Cardinality(inHand) = MaxMsgs
      /\ mq.entry = Len(Queued)
      /\ mq.tail = IF Queued = <<>> THEN Null ELSE Queued[Len(Queued)]

\* (For the refinement) the messages in the queue, the next one first.
Contents == [i \in 1 .. Len(Queued) |-> mq.body[Queued[i]]]

Promise == INSTANCE Fifo WITH
  Value <- Msg, NoValue <- NoMsg, Size <- MaxMsgs, Puts <- {"BACK", "FRONT"}, queue <- Contents

\* The pointers implement a first-in first-out queue with urgent messages in front: no
\* message is lost, delivered twice, changed or out of order.
IsFifo == Promise!Spec

\* No wake-up is lost: while receivers sleep, every message in the queue has a resumed
\* receiver on its way.
NoLostWakeup ==
  k.tl[Receivers] # <<>> =>
    mq.entry <= Cardinality(Woken({t \in Thread : pc[t] \in {"recv_sched", "recv_wake"}}))

\* The wait list holds exactly the threads suspended in rt_mq_recv.
WaitersExact ==
  /\ ListsAgree
  /\ \A t \in Thread :
       Linked(t, Receivers) <=> pc[t] \in {"recv_sched", "recv_wake"} /\ k.stat[t] = "SUSPEND"
=============================================================================
