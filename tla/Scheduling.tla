----------------------------- MODULE Scheduling -----------------------------
(***************************************************************************)
(* Threads calling the scheduling services of thread.c and scheduler.c:    *)
(* startup, yield, sleep, suspend, resume, priority change, and the        *)
(* scheduler lock, under the tick interrupt.                               *)
(*                                                                         *)
(* arg[t] is the thread that the call of thread t is about.                *)
(***************************************************************************)
EXTENDS Threads

CONSTANTS
  Main,            \* the thread that runs first (main_thread_entry)
  Calls,           \* which services the threads call
  Sleepers,        \* the threads that call sleep
  Resumers,        \* the threads that call startup and resume
  Resumable,       \* the threads that resume is called on
  MaxLock          \* bound: the deepest scheduler lock

Call == {"startup", "yield", "sleep", "suspend", "resume", "control", "critical"}

ASSUME SchedulingAssumption ==
  /\ Main \in Thread
  /\ InitPrio[Main] < InitPrio[Idle]
  /\ Calls \subseteq Call
  /\ Sleepers \subseteq Thread
  /\ Resumers \subseteq Thread
  /\ Resumable \subseteq Thread
  /\ MaxLock \in Nat

\* How rt_thread_resume must be used from thread context: by one thread, on threads
\* that do not sleep.  Its check and its two critical sections are not atomic.
Disciplined ==
  /\ \A r, s \in Resumers : r = s
  /\ Resumable \cap Sleepers = {}

VARIABLE arg

vars == <<k, irq, pc, arg>>

PC == {"run", "sched", "sleep_sched", "slept", "suspend", "resume", "unlink", "insert"}

\* The main thread and the idle thread have been started and the scheduler runs.
Init ==
  /\ k = [ tl     |-> [l \in List |-> CASE l = InitPrio[Main] -> <<Main>>
                                            [] l = InitPrio[Idle] -> <<Idle>>
                                            [] OTHER -> <<>>],
           group  |-> {InitPrio[Main], InitPrio[Idle]},
           stat   |-> [t \in Thread |-> IF t \in {Main, Idle} THEN "READY" ELSE "INIT"],
           prio   |-> InitPrio,
           error  |-> [t \in Thread |-> "EOK"],
           slice  |-> [t \in Thread |-> Slice],
           timers |-> <<>>,
           rem    |-> [t \in Thread |-> 0],
           cur    |-> Main,
           lock   |-> 0 ]
  /\ irq = "open"
  /\ pc = [t \in Thread |-> "run"]
  /\ arg = [t \in Thread |-> t]

\* Thread t, in its own code, makes call c.
Calling(t, c) == At(t, "run") /\ t # Idle /\ c \in Calls

\* arg[t] is t where the call has no other thread at hand.
Forget(t) == arg' = [arg EXCEPT ![t] = t]

\* rt_schedule, the last call of most services.
Reschedule(t) ==
  /\ At(t, "sched")
  /\ k' = rt_schedule(k)
  /\ Goto(t, "run")
  /\ UNCHANGED <<irq, arg>>

-----------------------------------------------------------------------------
rt_thread_yield(t) ==
  /\ Calling(t, "yield")
  /\ IF Yields(k) THEN k' = MoveToTail(k, t) /\ Goto(t, "sched")
                  ELSE UNCHANGED <<k, pc>>
  /\ UNCHANGED <<irq, arg>>

\* A thread does not sleep with the scheduler locked.
rt_thread_sleep(t, n) ==
  /\ Calling(t, "sleep")
  /\ t \in Sleepers
  /\ k.lock = 0
  /\ k' = Sleep(k, t, n)
  /\ Goto(t, "sleep_sched")
  /\ UNCHANGED <<irq, arg>>

SleepSchedule(t) ==
  /\ At(t, "sleep_sched")
  /\ k' = rt_schedule(k)
  /\ Goto(t, "slept")
  /\ UNCHANGED <<irq, arg>>

SleepReturn(t) ==
  /\ At(t, "slept")
  /\ k' = [k EXCEPT !.error[t] = IF @ = "ETIMEOUT" THEN "EOK" ELSE @]
  /\ Goto(t, "run")
  /\ UNCHANGED <<irq, arg>>

\* rt_thread_control(u, RT_THREAD_CTRL_CHANGE_PRIORITY, p); the caller reschedules.
rt_thread_control(t, u, p) ==
  /\ Calling(t, "control")
  /\ u # Idle
  /\ k' = ChangePriority(k, u, p)
  /\ Goto(t, "sched")
  /\ UNCHANGED <<irq, arg>>

\* rt_thread_suspend reads thread->stat with interrupts enabled ...
SuspendCheck(t, u) ==
  /\ Calling(t, "suspend")
  /\ u # Idle
  /\ u = t => k.lock = 0
  /\ IF k.stat[u] = "READY" THEN Goto(t, "suspend") /\ arg' = [arg EXCEPT ![t] = u]
                            ELSE UNCHANGED <<pc, arg>>
  /\ UNCHANGED <<k, irq>>

\* ... and acts on it with interrupts disabled.
SuspendAct(t) ==
  /\ At(t, "suspend")
  /\ k' = SuspendBody(k, arg[t])
  /\ Goto(t, "sched")
  /\ Forget(t)
  /\ UNCHANGED irq

\* rt_thread_startup sets the thread up as suspended, then resumes it.
rt_thread_startup(t, u) ==
  /\ Calling(t, "startup")
  /\ t \in Resumers
  /\ k.stat[u] = "INIT"
  /\ k' = [k EXCEPT !.prio[u] = InitPrio[u], !.stat[u] = "SUSPEND"]
  /\ Goto(t, "resume")
  /\ arg' = [arg EXCEPT ![t] = u]
  /\ UNCHANGED irq

\* rt_thread_resume(u), as startup calls it or as a thread does.
ResumeCall(t, u) ==
  /\ Calling(t, "resume")
  /\ t \in Resumers
  /\ u \in Resumable \ {t}
  /\ Goto(t, "resume")
  /\ arg' = [arg EXCEPT ![t] = u]
  /\ UNCHANGED <<k, irq>>

\* It reads thread->stat with interrupts enabled ...
ResumeCheck(t) ==
  /\ At(t, "resume")
  /\ IF k.stat[arg[t]] = "SUSPEND" THEN Goto(t, "unlink") /\ UNCHANGED arg
                                    ELSE Goto(t, "sched") /\ Forget(t)
  /\ UNCHANGED <<k, irq>>

\* ... takes the thread off its list and stops its timer in one critical section ...
ResumeTakeOff(t) ==
  /\ At(t, "unlink")
  /\ k' = ResumeUnlink(k, arg[t])
  /\ Goto(t, "insert")
  /\ UNCHANGED <<irq, arg>>

\* ... and makes it ready in another.
ResumeInsert(t) ==
  /\ At(t, "insert")
  /\ k' = rt_schedule_insert_thread(k, arg[t])
  /\ Goto(t, "sched")
  /\ Forget(t)
  /\ UNCHANGED irq

rt_enter_critical(t) ==
  /\ Calling(t, "critical")
  /\ k.lock < MaxLock
  /\ k' = [k EXCEPT !.lock = @ + 1]
  /\ UNCHANGED <<irq, pc, arg>>

rt_exit_critical(t) ==
  /\ Calling(t, "critical")
  /\ k' = [k EXCEPT !.lock = IF @ <= 1 THEN 0 ELSE @ - 1]
  /\ IF k.lock <= 1 THEN Goto(t, "sched") ELSE UNCHANGED pc
  /\ UNCHANGED <<irq, arg>>

-----------------------------------------------------------------------------
\* The steps inside a call, which the processor executes once the thread runs.
InCall(t) ==
  \/ Reschedule(t) \/ SleepSchedule(t) \/ SleepReturn(t) \/ SuspendAct(t)
  \/ ResumeCheck(t) \/ ResumeTakeOff(t) \/ ResumeInsert(t)

\* The calls a thread may make from its own code.
Service(t) ==
  \/ rt_thread_yield(t)
  \/ \E n \in 0 .. MaxTick : rt_thread_sleep(t, n)
  \/ \E u \in Thread, p \in Prio : rt_thread_control(t, u, p)
  \/ \E u \in Thread : SuspendCheck(t, u) \/ rt_thread_startup(t, u) \/ ResumeCall(t, u)
  \/ rt_enter_critical(t)
  \/ rt_exit_critical(t)

Tick == rt_tick_increase /\ UNCHANGED <<pc, arg>>

Next == Tick \/ \E t \in Thread : InCall(t) \/ Service(t)

Spec == Init /\ [][Next]_vars

-----------------------------------------------------------------------------
\* The kernel state has the types of the C declarations; remaining_tick never
\* reaches 0 outside the tick handler, and lock_nest never goes negative.
TypeOK ==
  /\ k \in KernelType
  /\ irq \in {"open", "tick"}
  /\ pc \in [Thread -> PC]
  /\ arg \in [Thread -> Thread]

\* A thread is linked in at most one list, once, and it is on the ready list of
\* its current priority exactly while its stat is RT_THREAD_READY: whatever
\* suspend, resume, priority changes, yields and timeouts interleave.
ReadyListsExact ==
  /\ \A l \in List : IsInjective(k.tl[l])
  /\ \A t \in Thread, l \in List :
        Linked(t, l) <=> k.stat[t] = "READY" /\ l = k.prio[t]

\* A bit of rt_thread_ready_priority_group is set exactly while the ready list of
\* that priority is not empty.
BitmapExact == k.group = {p \in Prio : k.tl[p] # <<>>}

\* The assertion of rt_thread_timeout (thread.c:702) never fails: a thread whose
\* timer is running is suspended.
TimersSuspended ==
  /\ IsInjective(k.timers)
  /\ \A t \in Range(k.timers) : k.stat[t] = "SUSPEND"

\* When the tick handler returns, no timer that is due is left in the list: the
\* handler stops at the first timer that is not due, so the list must be sorted.
NoOverdueTimer ==
  irq = "open" => \A t \in Range(k.timers) : k.rem[t] >= 0

\* Unless the scheduler is locked, or the thread is about to call rt_schedule, the
\* running thread is the head of the ready list of the highest ready priority.
HighestRuns ==
  k.lock = 0 /\ pc[k.cur] \notin {"sched", "sleep_sched"} => k.cur = Highest(k)

\* rt_schedule "will select one thread with the highest priority level"
\* (scheduler.c:189): the list of the highest set bit is not empty whenever a tick
\* or a thread may call it.
SelectsAThread == k.lock = 0 => k.tl[Min(k.group)] # <<>>
=============================================================================
