------------------------------- MODULE Event -------------------------------
(***************************************************************************)
(* The event object of ipc.c: threads wait for all or for any of a set of  *)
(* event bits, optionally clearing what they receive; a send wakes every   *)
(* waiter it satisfies.                                                    *)
(***************************************************************************)
EXTENDS Ipc

CONSTANTS
  Bit,       \* the event bits
  Ev,        \* the wait list of the event object
  Flag,      \* RT_IPC_FLAG_FIFO or RT_IPC_FLAG_PRIO
  Options,   \* the receive options in use
  Times      \* the waiting times: 0, ticks, or Forever

Option == [mode : {"AND", "OR"}, clear : BOOLEAN]

\* What the constants have to satisfy.
ConstantsOK ==
  /\ Ev \in Queue
  /\ Flag \in {"FIFO", "PRIO"}
  /\ Options \subseteq Option
  /\ Times \subseteq -1 .. MaxTick

VARIABLES
  set,      \* event->set
  info,     \* thread->event_set and thread->event_info of each thread
  asked     \* history: the set each pending or last receive asked for

vars == <<k, irq, pc, set, info, asked>>

Waiters == k.tl[Ev]

Init ==
  /\ k = AllStarted
  /\ irq = "open"
  /\ pc = [t \in Thread |-> "run"]
  /\ set = {}
  /\ info = [t \in Thread |-> [set |-> {}, mode |-> "OR", clear |-> FALSE]]
  /\ asked = [t \in Thread |-> {}]

\* Do the events in now satisfy a receive of want in this mode?
Satisfies(now, want, mode) ==
  IF mode = "AND" THEN want \subseteq now ELSE want \cap now # {}

-----------------------------------------------------------------------------
\* (defect) the events are cleared before they are given
VisitClearsFirst(s, t) ==
  LET w    == s.info[t]
      left == IF w.clear THEN s.set \ w.set ELSE s.set
  IN  IF Satisfies(s.set, w.set, w.mode)
      THEN [ k    |-> rt_thread_resume(s.k, t),
             set  |-> left,
             info |-> [s.info EXCEPT ![t].set = IF w.mode = "OR" THEN @ \cap left ELSE @] ]
      ELSE s

\* (defect) the events a waiter clears are left in the set
VisitNoClear(s, t) ==
  LET w == s.info[t]
  IN  IF Satisfies(s.set, w.set, w.mode)
      THEN [ s EXCEPT !.k           = rt_thread_resume(@, t),
                      !.info[t].set = IF w.mode = "OR" THEN @ \cap s.set ELSE @ ]
      ELSE s

\* One round of the loop of rt_event_send: a satisfied waiter keeps what it receives,
\* which is taken from the events if it asked for that, and is resumed.
Visit(s, t) ==
  LET w   == s.info[t]
      got == IF w.mode = "OR" THEN w.set \cap s.set ELSE w.set
  IN  IF Satisfies(s.set, w.set, w.mode)
      THEN [ k    |-> rt_thread_resume(s.k, t),
             set  |-> IF w.clear THEN s.set \ got ELSE s.set,
             info |-> [s.info EXCEPT ![t].set = got] ]
      ELSE s

\* The loop over the wait list, with interrupts disabled.
Deliver(sent) ==
  LET w == Waiters
      visited[n \in 0 .. Len(w)] ==
        IF n = 0 THEN [k |-> k, set |-> set \cup sent, info |-> info]
                 ELSE Visit(visited[n - 1], w[n])
  IN  visited[Len(w)]

\* Sending no event at all is refused.
rt_event_send(t, sent) ==
  LET r == Deliver(sent)
  IN  /\ Calling(t)
      /\ sent # {}
      /\ k' = r.k /\ set' = r.set /\ info' = r.info
      /\ IF r.k # k THEN Goto(t, "sched") ELSE UNCHANGED pc
      /\ UNCHANGED <<irq, asked>>

\* rt_event_send called by an interrupt handler.
InterruptSend(sent) ==
  LET r == Deliver(sent)
  IN  /\ irq = "open"
      /\ sent # {}
      /\ k' = IF r.k # k THEN rt_schedule(r.k) ELSE r.k
      /\ set' = r.set /\ info' = r.info
      /\ UNCHANGED <<irq, pc, asked>>

-----------------------------------------------------------------------------
\* The events left by a receive that does not wait.
Left(now, want, clear) == IF clear THEN now \ want ELSE now

rt_event_recv(t, want, o, time) ==
  /\ Calling(t)
  /\ want # {}
  /\ \/ /\ Satisfies(set, want, o.mode)
        /\ set' = Left(set, want, o.clear)
        /\ k' = [k EXCEPT !.error[t] = "EOK"]
        /\ UNCHANGED <<pc, info, asked>>
     \/ /\ ~ Satisfies(set, want, o.mode) /\ time = 0
        /\ k' = [k EXCEPT !.error[t] = "ETIMEOUT"]
        /\ UNCHANGED <<pc, set, info, asked>>
     \/ /\ ~ Satisfies(set, want, o.mode) /\ time # 0
        /\ info' = [info EXCEPT ![t] = [set |-> want, mode |-> o.mode, clear |-> o.clear]]
        /\ k' = Block(k, Ev, t, Flag, time)
        /\ Goto(t, "take_sched")
        /\ asked' = [asked EXCEPT ![t] = want]
        /\ UNCHANGED set
  /\ UNCHANGED irq

\* The receive returns thread->error and, if that is EOK, what info[t] holds; nothing
\* reads info[t] after that before the next wait sets it.
RecvReturn(t) ==
  /\ At(t, "taken")
  /\ Goto(t, "run")
  /\ info' = [info EXCEPT ![t] = [set |-> {}, mode |-> "OR", clear |-> FALSE]]
  /\ asked' = [asked EXCEPT ![t] = {}]
  /\ UNCHANGED <<k, irq, set>>

\* rt_event_control(event, RT_IPC_CMD_RESET).
rt_event_control(t) ==
  /\ Calling(t)
  /\ k' = rt_ipc_list_resume_all(k, Ev)
  /\ set' = {}
  /\ Goto(t, "sched")
  /\ UNCHANGED <<irq, info, asked>>

-----------------------------------------------------------------------------
\* The event groups of FreeRTOS over the event object.
xEventGroupSetBits(t, bits) == rt_event_send(t, bits)

\* Clearing is a receive of any of the bits that does not wait.
xEventGroupClearBits(t, bits) == rt_event_recv(t, bits, [mode |-> "OR", clear |-> TRUE], 0)

xEventGroupWaitBits(t, bits, clear, all, ticks) ==
  rt_event_recv(t, bits, [mode |-> IF all THEN "AND" ELSE "OR", clear |-> clear], ticks)

EventGroup(t) ==
  \E bits \in SUBSET Bit :
    \/ xEventGroupSetBits(t, bits) \/ xEventGroupClearBits(t, bits)
    \/ \E clear, all \in BOOLEAN, ticks \in Times : xEventGroupWaitBits(t, bits, clear, all, ticks)

-----------------------------------------------------------------------------
CallsSchedule(t) ==
  /\ Reschedule(t, "take_sched", "taken") \/ Reschedule(t, "sched", "run")
  /\ UNCHANGED <<set, info, asked>>

Service(t) ==
  \/ \E sent \in SUBSET Bit : rt_event_send(t, sent)
  \/ \E want \in SUBSET Bit, o \in Options, time \in Times : rt_event_recv(t, want, o, time)
  \/ rt_event_control(t)
  \/ EventGroup(t)

Tick == rt_tick_increase /\ UNCHANGED <<pc, set, info, asked>>

Next ==
  \/ Tick
  \/ \E sent \in SUBSET Bit : InterruptSend(sent)
  \/ \E t \in Thread : CallsSchedule(t) \/ RecvReturn(t) \/ Service(t)

Spec == Init /\ [][Next]_vars

-----------------------------------------------------------------------------
\* The state has the types of struct rt_event and of the kernel.
TypeOK ==
  /\ k \in KernelType
  /\ irq \in {"open", "tick"}
  /\ pc \in [Thread -> {"run", "take_sched", "taken", "sched"}]
  /\ set \subseteq Bit
  /\ info \in [Thread -> [set : SUBSET Bit, mode : {"AND", "OR"}, clear : BOOLEAN]]
  /\ asked \in [Thread -> SUBSET Bit]

\* No thread sleeps on events that have happened: rt_event_send visits every waiter,
\* and what one waiter clears can only leave later waiters unsatisfied.
NoMissedEvent ==
  \A t \in Range(Waiters) : ~ Satisfies(set, info[t].set, info[t].mode)

\* A receive that waited and returns RT_EOK reports events it asked for: all of them
\* with RT_EVENT_FLAG_AND, at least one with RT_EVENT_FLAG_OR, whatever other sends,
\* receives and time-outs came between its being resumed and its running.
ReportsWhatWasAsked ==
  \A t \in Thread :
    pc[t] = "taken" /\ k.stat[t] = "READY" /\ k.error[t] = "EOK" =>
      IF info[t].mode = "AND" THEN info[t].set = asked[t]
                              ELSE info[t].set # {} /\ info[t].set \subseteq asked[t]

\* The wait list holds exactly the threads suspended in rt_event_recv, and agrees
\* with the ready lists and timers.
WaitersExact ==
  /\ ListsAgree
  /\ \A t \in Thread :
       Linked(t, Ev) <=> pc[t] \in {"take_sched", "taken"} /\ k.stat[t] = "SUSPEND"

\* What a waiter that clears has received is gone: it is not in event->set, unless it
\* has been sent again, when the waiter that received it is resumed.
ClearsStep ==
  \A t \in Thread :
    k.stat[t] = "SUSPEND" /\ k'.stat[t] = "READY" /\ k'.error[t] = "EOK"
      /\ pc[t] \in {"take_sched", "taken"} /\ info[t].clear
    => info'[t].set \cap set' = {}

ClearsWhatItGives == [][ClearsStep]_vars
=============================================================================
