------------------------------ MODULE Threads ------------------------------
(***************************************************************************)
(* Thread context.  A kernel call is a sequence of steps, cut where the    *)
(* code enables interrupts: there a tick may come and the scheduler may    *)
(* switch.  pc[t] is where thread t is in its call, "run" when it is in    *)
(* its own code.                                                           *)
(***************************************************************************)
EXTENDS Kernel

VARIABLE pc

\* Thread t executes: it is at label l and is the current thread.
At(t, l) == irq = "open" /\ k.cur = t /\ pc[t] = l

Goto(t, l) == pc' = [pc EXCEPT ![t] = l]

Linked(t, l) == t \in Range(k.tl[l])

-----------------------------------------------------------------------------
\* Threads of the highest ready priority share the processor: one that stays ready
\* at that priority runs again and again, because rt_tick_increase takes the slice of
\* the running thread and rt_thread_yield puts it behind its equals.
RoundRobin ==
  \A t \in Thread :
    <>[](k.stat[t] = "READY" /\ k.prio[t] = Min(k.group)) => []<>(k.cur = t)

\* A sleep ends, and so does every wait with a time-out: a thread whose timer runs
\* becomes ready again.
SleepEnds == \A t \in Thread \ {Idle} : t \in Range(k.timers) ~> k.stat[t] = "READY"
=============================================================================
