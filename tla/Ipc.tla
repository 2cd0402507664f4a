-------------------------------- MODULE Ipc --------------------------------
(***************************************************************************)
(* What the models of the IPC objects share: threads that have all been    *)
(* started, calls that end in rt_schedule, and sleeping.                   *)
(***************************************************************************)
EXTENDS Threads

CONSTANT StartOrder    \* the threads in the order in which they are started

ASSUME StartAssumption == StartOrder \in Seq(Thread) /\ Range(StartOrder) = Thread

\* The kernel once every thread has been created and started, and the scheduler has
\* been started.
AllStarted ==
  LET ready(p) == SelectSeq(StartOrder, LAMBDA t : InitPrio[t] = p)
      group    == {InitPrio[t] : t \in Thread}
  IN  [ tl     |-> [l \in List |-> IF l \in Prio THEN ready(l) ELSE <<>>],
        group  |-> group,
        stat   |-> [t \in Thread |-> "READY"],
        prio   |-> InitPrio,
        error  |-> [t \in Thread |-> "EOK"],
        slice  |-> [t \in Thread |-> Slice],
        timers |-> <<>>,
        rem    |-> [t \in Thread |-> 0],
        cur    |-> Head(ready(Min(group))),
        lock   |-> 0 ]

\* Thread t, in its own code, makes a call.
Calling(t) == At(t, "run") /\ t # Idle

\* Thread t, at label l, calls rt_schedule.
Reschedule(t, l, next) ==
  /\ At(t, l)
  /\ k' = rt_schedule(k)
  /\ Goto(t, next)
  /\ UNCHANGED irq

\* rt_thread_sleep for one tick.
SleepCall(t) ==
  /\ Calling(t)
  /\ k' = Sleep(k, t, 1)
  /\ Goto(t, "sleep_sched")
  /\ UNCHANGED irq

SleepReturn(t) ==
  /\ At(t, "slept")
  /\ k' = [k EXCEPT !.error[t] = IF @ = "ETIMEOUT" THEN "EOK" ELSE @]
  /\ Goto(t, "run")
  /\ UNCHANGED irq

rt_thread_sleep(t) ==
  SleepCall(t) \/ Reschedule(t, "sleep_sched", "slept") \/ SleepReturn(t)

\* The labels at which a thread is about to call rt_schedule.
Scheduling == {"sched", "take_sched", "sleep_sched"}

\* The lists of the kernel agree with the state of the threads: nothing is linked
\* twice, a thread is on the ready list of its priority exactly while it is READY,
\* and only suspended threads have a running timer.
ListsAgree ==
  /\ \A l \in List : IsInjective(k.tl[l])
  /\ \A t \in Thread, p \in Prio : Linked(t, p) <=> k.stat[t] = "READY" /\ p = k.prio[t]
  /\ IsInjective(k.timers)
  /\ \A t \in Range(k.timers) : k.stat[t] = "SUSPEND"
=============================================================================
