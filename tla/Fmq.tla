-------------------------------- MODULE Fmq ---------------------------------
(***************************************************************************)
(* The fixed-size message queue of fmq.c, which is what a FreeRTOS queue   *)
(* of the ESP-IDF libraries becomes (libcpu.c).  It is a mailbox that      *)
(* copies items instead of words, whose items may also go to the front or  *)
(* overwrite the first one, and may be looked at without being taken.      *)
(***************************************************************************)
EXTENDS Mailbox

CONSTANT PeekTimes    \* the waiting times of a receive that only looks

Position == {"BACK", "FRONT", "OVERWRITE"}

\* What mail[t] says of a pending receive that only looks.
Peeking == <<NoMail, "PEEK">>

FmqInit == Init

-----------------------------------------------------------------------------
\* The item goes to the back, over the first item, or before it.
Place(v, pos) ==
  LET front == IF mb.out = 0 THEN Size - 1 ELSE mb.out - 1
  IN  mb' = CASE mb.entry = 0 \/ pos = "BACK" ->
                   [mb EXCEPT !.pool[mb.in] = v, !.in = Advance(@), !.entry = @ + 1]
              [] mb.entry > 0 /\ pos = "OVERWRITE" -> [mb EXCEPT !.pool[mb.out] = v]
              [] mb.entry > 0 /\ pos = "FRONT" ->
                   [mb EXCEPT !.pool[front] = v, !.out = front, !.entry = @ + 1]

MustWait(pos) == mb.entry = Size /\ pos # "OVERWRITE"

\* rt_fmq_send from the test of a full queue on, with interrupts disabled.
FmqTrySend(t, v, pos, w) ==
  /\ \/ ~MustWait(pos) /\ Place(v, pos) /\ Wake(t, Receivers) /\ Done(t)
     \/ MustWait(pos) /\ w.time = 0 /\ Goto(t, "run") /\ Done(t) /\ UNCHANGED <<k, mb>>
     \/ MustWait(pos) /\ w.time # 0 /\ WaitOn(t, Senders, w, "send_sched")
          /\ mail' = [mail EXCEPT ![t] = <<v, pos>>] /\ UNCHANGED mb
  /\ UNCHANGED got

rt_fmq_send(t, v, pos, time) ==
  Calling(t) /\ FmqTrySend(t, v, pos, For(time)) /\ UNCHANGED irq

FmqSendAgain(t) ==
  /\ At(t, "send_wake")
  /\ IF k.error[t] # "EOK"
     THEN Goto(t, "run") /\ Done(t) /\ UNCHANGED <<k, mb, got>>
     ELSE FmqTrySend(t, mail[t][1], mail[t][2], TimeLeft(wait[t]))
  /\ UNCHANGED irq

\* rt_fmq_recv from the test of an empty queue on; who only looks takes nothing and
\* resumes nobody.
FmqTryRecv(t, peek, w) ==
  \/ mb.entry > 0 /\ ~peek /\ Fetch /\ Wake(t, Senders) /\ Done(t)
  \/ mb.entry > 0 /\ peek /\ Goto(t, "run") /\ Done(t) /\ UNCHANGED <<k, mb, got>>
  \/ mb.entry = 0 /\ w.time = 0 /\ Goto(t, "run") /\ Done(t) /\ UNCHANGED <<mb, got>>
       /\ k' = [k EXCEPT !.error[t] = IF pc[t] = "run" THEN @ ELSE "ETIMEOUT"]
  \/ mb.entry = 0 /\ w.time # 0 /\ WaitOn(t, Receivers, w, "recv_sched") /\ UNCHANGED <<mb, got>>
       /\ mail' = [mail EXCEPT ![t] = IF peek THEN Peeking ELSE NoMail]

rt_fmq_recv(t, peek, time) ==
  Calling(t) /\ FmqTryRecv(t, peek, For(time)) /\ UNCHANGED irq

FmqRecvAgain(t) ==
  /\ At(t, "recv_wake")
  /\ IF k.error[t] # "EOK"
     THEN Goto(t, "run") /\ Done(t) /\ UNCHANGED <<k, mb, got>>
     ELSE FmqTryRecv(t, mail[t] = Peeking, TimeLeft(wait[t]))
  /\ UNCHANGED irq

\* The calls of interrupt handlers never wait; the others may.
xQueueGenericSendFromISR(v, pos) ==
  /\ irq = "open"
  /\ ~MustWait(pos)
  /\ Place(v, pos)
  /\ WakeFromInterrupt(Receivers)
  /\ UNCHANGED <<irq, pc, wait, mail, got>>

xQueueReceiveFromISR ==
  /\ irq = "open"
  /\ mb.entry > 0
  /\ Fetch
  /\ WakeFromInterrupt(Senders)
  /\ UNCHANGED <<irq, pc, wait, mail>>

xQueueGenericSend(t) ==
  \E v \in Mail, pos \in Position, time \in Times : rt_fmq_send(t, v, pos, time)

xQueueGenericReceive(t) ==
  \/ \E time \in Times : rt_fmq_recv(t, FALSE, time)
  \/ \E time \in PeekTimes : rt_fmq_recv(t, TRUE, time)

FmqNext ==
  \/ Tick /\ UNCHANGED <<mb, mail, got>>
  \/ xQueueReceiveFromISR
  \/ \E v \in Mail, pos \in Position : xQueueGenericSendFromISR(v, pos)
  \/ \E t \in Thread :
       \/ xQueueGenericSend(t) \/ xQueueGenericReceive(t)
       \/ FmqSendAgain(t) \/ FmqRecvAgain(t) \/ CallsSchedule(t)

FmqSpec == FmqInit /\ [][FmqNext]_vars

-----------------------------------------------------------------------------
\* The state has the types of the queue object and of the kernel.
FmqTypeOK ==
  /\ k \in KernelType
  /\ pc \in [Thread -> Label]
  /\ mb \in MailboxType
  /\ wait \in [Thread -> WaitType]
  /\ mail \in [Thread -> (Mail \X Position) \cup {NoMail, Peeking}]
  /\ got \in Mail \cup {NoMail}

FmqPromise == INSTANCE Fifo WITH
  Value <- Mail, NoValue <- NoMail, Puts <- Position, queue <- Contents

\* The ring, its two offsets and its count implement a queue with the three ways to
\* put an item in; nothing is lost, delivered twice or out of order.
FmqIsFifo == FmqPromise!Spec
=============================================================================
