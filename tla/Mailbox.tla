------------------------------ MODULE Mailbox ------------------------------
(***************************************************************************)
(* The mailbox of ipc.c: a ring of mails with a wait list of receivers and *)
(* one of senders.  A thread that is resumed tries again, because another  *)
(* thread may have come first, with what is left of its waiting time.      *)
(***************************************************************************)
EXTENDS Waits, FiniteSets

CONSTANTS
  Mail, NoMail,          \* the mails
  Size,                  \* the number of mails the ring holds
  Receivers, Senders     \* the two wait lists

\* What the constants have to satisfy.
ConstantsOK ==
  /\ {Receivers, Senders} \subseteq Queue
  /\ Receivers # Senders
  /\ NoMail \notin Mail
  /\ Size \in Nat \ {0}

VARIABLES
  mb,     \* the mailbox object: msg_pool, in_offset, out_offset, entry
  mail,   \* the mail each thread is sending
  got     \* the mail the last rt_mb_recv delivered

vars == <<k, irq, pc, wait, mb, mail, got>>

Slot == 0 .. Size - 1

MailboxType ==
  [pool : [Slot -> Mail \cup {NoMail}], in : Slot, out : Slot, entry : 0 .. Size]

Empty == [pool |-> [i \in Slot |-> NoMail], in |-> 0, out |-> 0, entry |-> 0]

Init ==
  /\ k = AllStarted
  /\ irq = "open"
  /\ pc = [t \in Thread |-> "run"]
  /\ mb = Empty
  /\ wait = [t \in Thread |-> NoWait]
  /\ mail = [t \in Thread |-> NoMail]
  /\ got = NoMail

-----------------------------------------------------------------------------
Advance(i) == IF i + 1 >= Size THEN 0 ELSE i + 1

Store(v) ==
  mb' = [mb EXCEPT !.pool[mb.in] = v, !.in = Advance(@), !.entry = @ + 1]

Fetch ==
  /\ got' = mb.pool[mb.out]
  /\ mb' = [mb EXCEPT !.out = Advance(@), !.entry = @ - 1]

\* The call of thread t ends.
Done(t) == NoMoreWait(t) /\ mail' = [mail EXCEPT ![t] = NoMail]

\* From the test of a full mailbox on, with interrupts disabled.
TrySend(t, v, w) ==
  /\ \/ mb.entry < Size /\ Store(v) /\ Wake(t, Receivers) /\ Done(t)
     \/ mb.entry = Size /\ w.time = 0 /\ Goto(t, "run") /\ Done(t) /\ UNCHANGED <<k, mb>>
     \/ mb.entry = Size /\ w.time # 0 /\ WaitOn(t, Senders, w, "send_sched")
          /\ mail' = [mail EXCEPT ![t] = v] /\ UNCHANGED mb
  /\ UNCHANGED got

\* rt_mb_send_wait; rt_mb_send is the case of time 0, which returns -RT_EFULL.
rt_mb_send_wait(t, v, time) ==
  /\ Calling(t)
  /\ TrySend(t, v, For(time))
  /\ UNCHANGED irq

\* A sender runs again: it returns the error of a time-out or reset, or tries again.
SendAgain(t) ==
  /\ At(t, "send_wake")
  /\ IF k.error[t] # "EOK"
     THEN Goto(t, "run") /\ Done(t) /\ UNCHANGED <<k, mb, got>>
     ELSE TrySend(t, mail[t], TimeLeft(wait[t]))
  /\ UNCHANGED irq

\* From the test of an empty mailbox on, with interrupts disabled.
TryRecv(t, w) ==
  /\ \/ mb.entry > 0 /\ Fetch /\ Wake(t, Senders) /\ NoMoreWait(t)
     \/ mb.entry = 0 /\ w.time = 0 /\ Goto(t, "run") /\ NoMoreWait(t) /\ UNCHANGED <<mb, got>>
          /\ k' = [k EXCEPT !.error[t] = IF pc[t] = "run" THEN @ ELSE "ETIMEOUT"]
     \/ mb.entry = 0 /\ w.time # 0 /\ WaitOn(t, Receivers, w, "recv_sched") /\ UNCHANGED <<mb, got>>
  /\ UNCHANGED mail

rt_mb_recv(t, time) ==
  /\ Calling(t)
  /\ TryRecv(t, For(time))
  /\ UNCHANGED irq

RecvAgain(t) ==
  /\ At(t, "recv_wake")
  /\ IF k.error[t] # "EOK"
     THEN Goto(t, "run") /\ NoMoreWait(t) /\ UNCHANGED <<k, mb, mail, got>>
     ELSE TryRecv(t, TimeLeft(wait[t]))
  /\ UNCHANGED irq

\* rt_mb_send called by an interrupt handler.
InterruptSend(v) ==
  /\ irq = "open"
  /\ mb.entry < Size
  /\ Store(v)
  /\ WakeFromInterrupt(Receivers)
  /\ UNCHANGED <<irq, pc, wait, mail, got>>

Cleared == [mb EXCEPT !.in = 0, !.out = 0, !.entry = 0]

\* rt_mb_control(mb, RT_IPC_CMD_RESET).
rt_mb_control(t) ==
  /\ Calling(t)
  /\ k' = rt_ipc_list_resume_all(rt_ipc_list_resume_all(k, Receivers), Senders)
  /\ mb' = Cleared
  /\ Goto(t, "sched")
  /\ UNCHANGED <<irq, wait, mail, got>>

-----------------------------------------------------------------------------
CallsSchedule(t) ==
  /\ \/ Reschedule(t, "send_sched", "send_wake")
     \/ Reschedule(t, "recv_sched", "recv_wake")
     \/ Reschedule(t, "sched", "run")
  /\ UNCHANGED <<wait, mb, mail, got>>

Service(t) ==
  \/ \E v \in Mail, time \in Times : rt_mb_send_wait(t, v, time)
  \/ \E time \in Times : rt_mb_recv(t, time)
  \/ rt_mb_control(t)

Next ==
  \/ Tick /\ UNCHANGED <<mb, mail, got>>
  \/ \E v \in Mail : InterruptSend(v)
  \/ \E t \in Thread : CallsSchedule(t) \/ SendAgain(t) \/ RecvAgain(t) \/ Service(t)

Spec == Init /\ [][Next]_vars

-----------------------------------------------------------------------------
Label == {"run", "sched", "send_sched", "send_wake", "recv_sched", "recv_wake"}

\* The state has the types of struct rt_mailbox and of the kernel; in particular
\* entry stays between 0 and size.
TypeOK ==
  /\ k \in KernelType
  /\ irq \in {"open", "tick"}
  /\ pc \in [Thread -> Label]
  /\ mb \in MailboxType
  /\ wait \in [Thread -> WaitType]
  /\ mail \in [Thread -> Mail \cup {NoMail}]
  /\ got \in Mail \cup {NoMail}

\* The mails in the ring, oldest first.
Contents == [i \in 1 .. mb.entry |-> mb.pool[(mb.out + i - 1) % Size]]

Promise == INSTANCE Fifo WITH
  Value <- Mail, NoValue <- NoMail, Puts <- {"BACK"}, queue <- Contents

\* The ring, its two offsets and its count implement a first-in first-out queue: no
\* mail is lost, delivered twice or out of order, however senders, receivers, resets
\* and time-outs interleave.
IsFifo == Promise!Spec

InSend(t) == pc[t] \in {"send_sched", "send_wake"}

InRecv(t) == pc[t] \in {"recv_sched", "recv_wake"}

\* No wake-up is lost.  While receivers sleep, every mail in the ring has a resumed
\* receiver on its way; while senders sleep, every free slot has a resumed sender.
\* A thread that comes first may take what the resumed one was resumed for.
NoLostWakeup ==
  /\ k.tl[Receivers] # <<>> => mb.entry <= Cardinality(Woken({t \in Thread : InRecv(t)}))
  /\ k.tl[Senders] # <<>> => Size - mb.entry <= Cardinality(Woken({t \in Thread : InSend(t)}))

\* The wait lists hold exactly the threads suspended in send and receive.
WaitersExact ==
  /\ ListsAgree
  /\ \A t \in Thread :
       /\ Linked(t, Receivers) <=> InRecv(t) /\ k.stat[t] = "SUSPEND"
       /\ Linked(t, Senders) <=> InSend(t) /\ k.stat[t] = "SUSPEND"
=============================================================================
