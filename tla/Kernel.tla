------------------------------- MODULE Kernel -------------------------------
(***************************************************************************)
(* The RT-Thread kernel state and the kernel functions that every other    *)
(* component calls: ready lists and bitmap (scheduler.c), thread states    *)
(* (thread.c), the one-shot timer of each thread (timer.c), the tick       *)
(* (clock.c) and the wait lists of IPC objects (ipc.c).                    *)
(*                                                                         *)
(* The kernel state is one record, and a C function that runs with         *)
(* interrupts disabled is an operator from kernel state to kernel state,   *)
(* so that a handler reads like the sequence of calls it makes.  A list    *)
(* threaded through `tlist' is a sequence; the node is intrusive, so       *)
(* rt_list_remove takes the thread out of whatever list holds it.          *)
(*                                                                         *)
(* The processor has one core.  A thread takes a step only while it is     *)
(* rt_current_thread and no interrupt handler runs (irq = "open").         *)
(***************************************************************************)
EXTENDS Lists

CONSTANTS
  Thread,        \* all threads, the idle thread included
  Idle,          \* the idle thread
  PrioMax,       \* RT_THREAD_PRIORITY_MAX
  InitPrio,      \* init_priority of each thread
  Slice,         \* init_tick of every thread
  Queue,         \* the wait lists of the IPC objects of the model
  Defunct,       \* the list rt_thread_defunct
  MaxTick        \* bound: the longest timeout, in ticks

Prio == 0 .. PrioMax - 1

\* Every list a tlist node can be linked in.
List == Prio \cup Queue \cup {Defunct}

ASSUME KernelAssumption ==
  /\ Idle \in Thread
  /\ PrioMax \in Nat \ {0}
  /\ InitPrio \in [Thread -> Prio]
  /\ InitPrio[Idle] = PrioMax - 1
  /\ Slice \in Nat \ {0}
  /\ MaxTick \in Nat
  /\ Prio \cap Queue = {}
  /\ Defunct \notin Prio \cup Queue

VARIABLES
  k,     \* the kernel state
  irq    \* "open": threads run; "tick": the tick handler runs

Stat == {"INIT", "READY", "SUSPEND", "CLOSE"}
Error == {"EOK", "ETIMEOUT", "ERROR"}

KernelType ==
  [ tl     : [List -> Seq(Thread)],      \* the lists
    group  : SUBSET Prio,                \* rt_thread_ready_priority_group
    stat   : [Thread -> Stat],
    prio   : [Thread -> Prio],           \* current_priority
    error  : [Thread -> Error],
    slice  : [Thread -> 1 .. Slice],     \* remaining_tick
    timers : Seq(Thread),                \* rt_timer_list, thread timers
    rem    : [Thread -> -1 .. MaxTick],  \* timeout_tick - rt_tick
    cur    : Thread,                     \* rt_current_thread
    lock   : Nat ]                       \* rt_scheduler_lock_nest

-----------------------------------------------------------------------------
(* scheduler.c *)

Unlink(tl, t) == [l \in List |-> rt_list_remove(tl[l], t)]

Link(tl, l, t) == [tl EXCEPT ![l] = Append(@, t)]

rt_schedule_insert_thread(s, t) ==
  [s EXCEPT !.stat[t] = "READY",
            !.tl      = Link(@, s.prio[t], t),
            !.group   = @ \cup {s.prio[t]}]

\* (defect) the bit is left set when the list becomes empty
RemoveKeepsBit(s, t) == [s EXCEPT !.tl = Unlink(@, t)]

rt_schedule_remove_thread(s, t) ==
  LET tl == Unlink(s.tl, t)
  IN  [s EXCEPT !.tl    = tl,
                !.group = IF tl[s.prio[t]] = <<>> THEN @ \ {s.prio[t]} ELSE @]

\* The thread rt_schedule switches to: the head of the list of the lowest set bit.
Highest(s) == Head(s.tl[Min(s.group)])

rt_schedule(s) == IF s.lock = 0 THEN [s EXCEPT !.cur = Highest(s)] ELSE s

-----------------------------------------------------------------------------
(* timer.c, for the thread timers *)

\* (defect) the timer is left on the list
StopKeepsTimer(s, t) == [s EXCEPT !.rem[t] = 0]

\* rem is meaningless, and kept at 0, while the timer is not in the list.
rt_timer_stop(s, t) == [s EXCEPT !.timers = rt_list_remove(@, t), !.rem[t] = 0]

\* (defect) the timer is linked at the end, wherever its expiry falls
StartAtTail(s, t, n) ==
  [s EXCEPT !.rem[t] = n, !.timers = Append(rt_list_remove(@, t), t)]

rt_timer_start(s, t, n) ==
  LET others == rt_list_remove(s.timers, t)
  IN  [s EXCEPT !.rem[t] = n,
                !.timers = rt_list_insert_before(others, FirstAbove(others, s.rem, n), t)]

-----------------------------------------------------------------------------
(* thread.c *)

\* (defect) the thread stays on its ready list
SuspendKeepsList(s, t) == rt_timer_stop([s EXCEPT !.stat[t] = "SUSPEND"], t)

\* The body of rt_thread_suspend after its check of thread->stat.
SuspendBody(s, t) ==
  rt_timer_stop(rt_schedule_remove_thread([s EXCEPT !.stat[t] = "SUSPEND"], t), t)

rt_thread_suspend(s, t) == IF s.stat[t] = "READY" THEN SuspendBody(s, t) ELSE s

\* (defect) the thread stays on the list it waited on
ResumeKeepsLink(s, t) == rt_timer_stop(s, t)

\* The first critical section of rt_thread_resume.
ResumeUnlink(s, t) == rt_timer_stop([s EXCEPT !.tl = Unlink(@, t)], t)

\* rt_thread_resume where the caller has interrupts disabled.
rt_thread_resume(s, t) ==
  IF s.stat[t] = "SUSPEND"
  THEN rt_schedule_insert_thread(ResumeUnlink(s, t), t)
  ELSE s

\* rt_thread_yield moves the current thread behind its equals, if it has any.
Yields(s) ==
  LET list == s.tl[s.prio[s.cur]]
  IN  s.stat[s.cur] = "READY" /\ s.cur \in Range(list) /\ Len(list) > 1

MoveToTail(s, t) == [s EXCEPT !.tl = Link(Unlink(@, t), s.prio[t], t)]

ChangePriority(s, t, p) ==
  IF s.stat[t] = "READY"
  THEN rt_schedule_insert_thread(
         [rt_schedule_remove_thread(s, t) EXCEPT !.prio[t] = p], t)
  ELSE [s EXCEPT !.prio[t] = p]

\* (defect) a thread that times out does not preempt
TimeoutNoSchedule(s, t) ==
  rt_schedule_insert_thread([s EXCEPT !.error[t] = "ETIMEOUT", !.tl = Unlink(@, t)], t)

rt_thread_timeout(s, t) ==
  rt_schedule(rt_schedule_insert_thread(
    [s EXCEPT !.error[t] = "ETIMEOUT", !.tl = Unlink(@, t)], t))

\* The critical section of rt_thread_sleep.
Sleep(s, t, n) == rt_timer_start(rt_thread_suspend(s, t), t, n)

-----------------------------------------------------------------------------
(* ipc.c: the wait lists *)

\* (defect) the new waiter goes first
LinkFirst(s, q, t, flag) == [s EXCEPT !.tl[q] = <<t>> \o @]

\* Insert t in wait list q: at the end (RT_IPC_FLAG_FIFO), or before the first
\* waiter of lower priority (RT_IPC_FLAG_PRIO).
LinkWaiter(s, q, t, flag) ==
  [s EXCEPT !.tl[q] =
     IF flag = "FIFO" THEN Append(@, t)
                      ELSE rt_list_insert_before(@, FirstAbove(@, s.prio, s.prio[t]), t)]

rt_ipc_list_suspend(s, q, t, flag) == LinkWaiter(rt_thread_suspend(s, t), q, t, flag)

rt_ipc_list_resume(s, q) == rt_thread_resume(s, Head(s.tl[q]))

\* The body of the loop of rt_ipc_list_resume_all, for waiter t.
ResumeWithError(s, t) == rt_thread_resume([s EXCEPT !.error[t] = "ERROR"], t)

\* rt_ipc_list_resume_all where the caller has interrupts disabled.
rt_ipc_list_resume_all(s, q) ==
  LET w == s.tl[q]
      woken[n \in 0 .. Len(w)] ==
        IF n = 0 THEN s ELSE ResumeWithError(woken[n - 1], w[n])
  IN  woken[Len(w)]

\* A waiting time of RT_WAITING_FOREVER.
Forever == -1

\* How a blocking IPC call goes to sleep: the error is reset, the thread joins the
\* wait list, and its timer starts if the waiting time is finite.
Block(s, q, t, flag, time) ==
  LET r == rt_ipc_list_suspend([s EXCEPT !.error[t] = "EOK"], q, t, flag)
  IN  IF time > 0 THEN rt_timer_start(r, t, time) ELSE r

-----------------------------------------------------------------------------
(* clock.c and rt_timer_check: the tick interrupt, one step per expired timer *)

\* (defect) the slice is not reloaded
SliceNoReload(s) ==
  LET r == [s EXCEPT !.slice[s.cur] = @ - 1]
  IN  IF r.slice[s.cur] = 0 /\ Yields(r) THEN rt_schedule(MoveToTail(r, s.cur)) ELSE r

\* (defect) the slice is reloaded but the thread does not yield
SliceNoYield(s) ==
  [s EXCEPT !.slice[s.cur] = IF @ > 1 THEN @ - 1 ELSE Slice]

\* -- remaining_tick; at zero it is reloaded and the thread yields.
TimeSlice(s) ==
  LET t == s.cur
  IN  IF s.slice[t] > 1
      THEN [s EXCEPT !.slice[t] = @ - 1]
      ELSE LET r == [s EXCEPT !.slice[t] = Slice]
           IN  IF Yields(r) THEN rt_schedule(MoveToTail(r, t)) ELSE r

\* (defect) the tick is not counted while the idle thread runs
ElapseBusy(s) ==
  IF s.cur = Idle THEN s
  ELSE [s EXCEPT !.rem = [t \in Thread |-> IF t \in Range(s.timers) THEN @[t] - 1 ELSE @[t]]]

\* ++ rt_tick brings every running timer one tick closer.
Elapse(s) ==
  [s EXCEPT !.rem = [t \in Thread |-> IF t \in Range(s.timers) THEN @[t] - 1 ELSE @[t]]]

TimerDue == k.timers # <<>> /\ k.rem[Head(k.timers)] <= 0

TickEnter ==
  /\ irq = "open"
  /\ irq' = "tick"
  /\ k' = TimeSlice(Elapse(k))

TickTimer ==
  /\ irq = "tick"
  /\ TimerDue
  /\ k' = rt_thread_timeout(rt_timer_stop(k, Head(k.timers)), Head(k.timers))
  /\ UNCHANGED irq

TickLeave ==
  /\ irq = "tick"
  /\ ~TimerDue
  /\ irq' = "open"
  /\ UNCHANGED k

rt_tick_increase == TickEnter \/ TickTimer \/ TickLeave
=============================================================================
