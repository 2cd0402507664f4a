-------------------------- MODULE SchedulingProofs --------------------------
(***************************************************************************)
(* The safety of the scheduling services, for every set of threads, every  *)
(* priority assignment and every bound, under the discipline that one      *)
(* thread calls resume and that the threads it resumes do not sleep.       *)
(***************************************************************************)
EXTENDS Scheduling, KernelProofs

\* Suspended with no timer running: only resume makes such a thread ready.
Held(s, t) == s.stat[t] = "SUSPEND" /\ t \notin Range(s.timers)

\* What a thread in the middle of a call still relies on.
Pending(t) ==
  /\ pc[t] \in {"resume", "unlink", "insert"} => t \in Resumers
  /\ pc[t] = "resume" => arg[t] \in Resumable \/ Held(k, arg[t])
  /\ pc[t] \in {"unlink", "insert"} => Held(k, arg[t])
  /\ pc[t] = "suspend" => arg[t] # Idle

\* The inductive invariant.
IInv ==
  /\ TypeOK
  /\ Sound(k)
  /\ Range(k.timers) \subseteq Sleepers
  /\ \A t \in Thread : Pending(t)
  /\ NoOverdueTimer
  /\ HighestRuns

-----------------------------------------------------------------------------
\* A step that leaves held threads held disturbs no other thread's call.
LEMMA PendingElsewhere ==
  ASSUME IInv, NEW t \in Thread,
         \A v \in Thread : Held(k, v) => Held(k', v),
         \A u \in Thread \ {t} : pc'[u] = pc[u] /\ arg'[u] = arg[u],
         pc'[t] \notin {"resume", "unlink", "insert", "suspend"}
  PROVE  \A u \in Thread : Pending(u)'
<1> TAKE u \in Thread
<1>1. CASE u = t
  BY <1>1 DEF Pending
<1>2. CASE u # t
  <2>1. arg[u] \in Thread /\ Pending(u)
    BY DEF IInv, TypeOK
  <2> QED
    BY <1>2, <2>1 DEF Pending
<1> QED
  BY <1>1, <1>2

\* The running thread is ready when it is in its own code and may be switched away.
LEMMA RunningIsReady ==
  ASSUME IInv, k.lock = 0, pc[k.cur] \notin {"sched", "sleep_sched"}
  PROVE  k.stat[k.cur] = "READY"
<1>1. Sound(k) /\ k.cur = Highest(k)
  BY DEF IInv, HighestRuns
<1> QED
  BY <1>1, ScheduleSound

LEMMA InitIInv == Init => IInv
<1> SUFFICES ASSUME Init PROVE IInv
  OBVIOUS
<1> DEFINE pm == InitPrio[Main]
           pi == InitPrio[Idle]
<1>1. /\ Main \in Thread /\ Idle \in Thread /\ Main # Idle
      /\ pm \in Prio /\ pi \in Prio /\ pm < pi /\ pm \in List /\ pi \in List
      /\ pm \in Nat /\ pi \in Nat
      /\ Slice \in Nat \ {0} /\ MaxTick \in Nat
  BY KernelAssumption, SchedulingAssumption, ListFacts DEF Prio
<1> HIDE DEF pm, pi
<1>2. /\ k.tl = [l \in List |-> CASE l = pm -> <<Main>> [] l = pi -> <<Idle>> [] OTHER -> <<>>]
      /\ k.group = {pm, pi}
      /\ k.stat = [t \in Thread |-> IF t \in {Main, Idle} THEN "READY" ELSE "INIT"]
      /\ k.prio = InitPrio
      /\ k.error = [t \in Thread |-> "EOK"]
      /\ k.slice = [t \in Thread |-> Slice]
      /\ k.timers = <<>> /\ k.rem = [t \in Thread |-> 0] /\ k.cur = Main /\ k.lock = 0
      /\ irq = "open" /\ pc = [t \in Thread |-> "run"] /\ arg = [t \in Thread |-> t]
  BY DEF Init, pm, pi
<1>3. /\ k.tl \in [List -> Seq(Thread)]
      /\ k.tl[pm] = <<Main>> /\ k.tl[pi] = <<Idle>>
      /\ \A l \in List \ {pm, pi} : k.tl[l] = <<>>
  BY <1>1, <1>2
<1>4. \A l \in List : /\ IsInjective(k.tl[l])
                      /\ Range(k.tl[l]) = IF l = pm THEN {Main} ELSE IF l = pi THEN {Idle} ELSE {}
  <2>1. \A t : IsInjective(<<t>>) /\ Range(<<t>>) = {t}
    BY DEF IsInjective, Range
  <2>2. IsInjective(<<>>) /\ Range(<<>>) = {}
    BY DEF IsInjective, Range
  <2> TAKE l \in List
  <2>3. CASE l = pm
    BY <1>3, <2>1, <2>3, Zenon
  <2>4. CASE l # pm /\ l = pi
    BY <1>3, <2>1, <2>4, Zenon
  <2>5. CASE l # pm /\ l # pi
    BY <1>3, <2>2, <2>5
  <2> QED
    BY <2>3, <2>4, <2>5
<1>5. k \in KernelType
  <2>1. /\ k.group \in SUBSET Prio /\ k.stat \in [Thread -> Stat] /\ k.prio \in [Thread -> Prio]
        /\ k.error \in [Thread -> Error] /\ k.slice \in [Thread -> 1 .. Slice]
        /\ k.timers \in Seq(Thread) /\ k.rem \in [Thread -> -1 .. MaxTick]
        /\ k.cur \in Thread /\ k.lock \in Nat
    BY <1>1, <1>2, KernelAssumption DEF Stat, Error
  <2> QED
    BY <1>3, <2>1 DEF Init, KernelType
<1>6. WellFormed(k)
  <2>1. k.group = {p \in Prio : k.tl[p] # <<>>}
    BY <1>1, <1>2, <1>3, ListFacts
  <2>2. IsInjective(k.timers) /\ SortedBy(k.timers, k.rem)
    BY <1>2 DEF IsInjective, SortedBy
  <2> QED
    BY <1>4, <1>5, <2>1, <2>2 DEF WellFormed
<1>7. Range(k.timers) = {}
  BY <1>2 DEF Range
<1>8. Sound(k)
  <2>1. \A t \in Thread, l \in List : In(k, t, l) <=> k.stat[t] = "READY" /\ l = k.prio[t]
    BY <1>1, <1>2, <1>4 DEF In, pm, pi
  <2> QED
    BY <1>1, <1>2, <1>6, <1>7, <2>1 DEF Sound
<1>9. HighestRuns
  <2>1. Min({pm, pi}) = pm
    <3>1. Min({pm, pi}) \in {pm, pi} /\ \A i \in {pm, pi} : Min({pm, pi}) <= i
      BY <1>1, MinOfNaturals
    <3> QED
      BY <1>1, <3>1
  <2>2. Head(<<Main>>) = Main
    OBVIOUS
  <2> QED
    BY <1>2, <1>3, <2>1, <2>2 DEF HighestRuns, Highest
<1>10. TypeOK
  BY <1>2, <1>5 DEF TypeOK, PC
<1>11. \A t \in Thread : Pending(t)
  BY <1>2 DEF Pending
<1>12. NoOverdueTimer
  BY <1>7 DEF NoOverdueTimer
<1> QED
  BY <1>7, <1>8, <1>9, <1>10, <1>11, <1>12 DEF IInv

-----------------------------------------------------------------------------
(* One lemma per kind of step. *)

\* rt_schedule, at the end of a service or of a sleep.
LEMMA ScheduleStep ==
  ASSUME IInv, NEW t \in Thread, NEW l \in {"run", "slept"},
         At(t, "sched") \/ At(t, "sleep_sched"),
         k' = rt_schedule(k), Goto(t, l), UNCHANGED <<irq, arg>>
  PROVE  IInv'
<1>1. Sound(k) /\ TypeOK /\ NoOverdueTimer
  BY DEF IInv
<1>2. /\ Sound(k')
      /\ k'.tl = k.tl /\ k'.group = k.group /\ k'.stat = k.stat
      /\ k'.prio = k.prio /\ k'.timers = k.timers /\ k'.rem = k.rem /\ k'.lock = k.lock
      /\ k.lock = 0 => k'.cur = Highest(k)
  BY <1>1, ScheduleSound
<1>3. HighestRuns'
  BY <1>2 DEF HighestRuns, Highest
<1>4. TypeOK'
  BY <1>1, <1>2, SoundTypes DEF TypeOK, Goto, PC
<1>5. \A u \in Thread : Pending(u)'
  <2>1. \A v \in Thread : Held(k, v) => Held(k', v)
    BY <1>2 DEF Held
  <2>2. pc'[t] = l /\ \A u \in Thread \ {t} : pc'[u] = pc[u] /\ arg'[u] = arg[u]
    BY <1>1 DEF TypeOK, Goto
  <2> QED
    BY <2>1, <2>2, PendingElsewhere
<1>6. NoOverdueTimer' /\ Range(k'.timers) \subseteq Sleepers
  BY <1>1, <1>2 DEF NoOverdueTimer, IInv
<1> QED
  BY <1>2, <1>3, <1>4, <1>5, <1>6 DEF IInv

\* A service that goes on to rt_schedule with a sound kernel state in which held
\* threads are still held.
LEMMA ServiceStep ==
  ASSUME IInv, NEW t \in Thread, k.cur = t, irq' = "open", irq = "open",
         NEW l \in {"sched", "sleep_sched"}, Goto(t, l),
         \A u \in Thread \ {t} : arg'[u] = arg[u], arg' \in [Thread -> Thread],
         Sound(k'), k'.cur = k.cur,
         \A v \in Thread : Held(k, v) => Held(k', v),
         \A v \in Range(k'.timers) : v \in Sleepers /\ k'.rem[v] >= 0
  PROVE  IInv'
<1>1. TypeOK
  BY DEF IInv
<1>2. pc' \in [Thread -> PC] /\ pc'[t] = l /\ \A u \in Thread \ {t} : pc'[u] = pc[u]
  BY <1>1 DEF TypeOK, Goto, PC
<1>3. TypeOK'
  BY <1>2, SoundTypes DEF TypeOK
<1>4. \A u \in Thread : Pending(u)'
  BY <1>2, PendingElsewhere
<1>5. HighestRuns'
  BY <1>2 DEF HighestRuns
<1>6. NoOverdueTimer' /\ Range(k'.timers) \subseteq Sleepers
  BY DEF NoOverdueTimer
<1> QED
  BY <1>3, <1>4, <1>5, <1>6 DEF IInv

\* A step that changes the kernel state in nothing the invariant is about.
LEMMA QuietStep ==
  ASSUME IInv, k' \in KernelType,
         k'.tl = k.tl, k'.group = k.group, k'.stat = k.stat, k'.prio = k.prio,
         k'.timers = k.timers, k'.rem = k.rem
  PROVE  Sound(k') /\ Range(k'.timers) \subseteq Sleepers
BY SameSound DEF IInv

LEMMA StutterStep ==
  ASSUME IInv, UNCHANGED vars
  PROVE  IInv'
BY DEF IInv, vars, TypeOK, Pending, NoOverdueTimer, HighestRuns

LEMMA YieldStep ==
  ASSUME IInv, NEW t \in Thread, rt_thread_yield(t)
  PROVE  IInv'
<1>1. TypeOK /\ Sound(k) /\ NoOverdueTimer /\ irq = "open" /\ irq' = "open" /\ k.cur = t
  BY DEF IInv, rt_thread_yield, Calling, At
<1>2. CASE Yields(k)
  <2>1. k' = MoveToTail(k, t) /\ Goto(t, "sched") /\ arg' = arg /\ k.stat[t] = "READY"
    BY <1>1, <1>2 DEF rt_thread_yield, Yields
  <2>2. /\ Sound(k')
        /\ k'.stat = k.stat /\ k'.prio = k.prio /\ k'.timers = k.timers /\ k'.rem = k.rem
        /\ k'.cur = k.cur
    BY <1>1, <2>1, MoveSound
  <2>3. \A v \in Thread : Held(k, v) => Held(k', v)
    BY <2>2 DEF Held
  <2>4. \A v \in Range(k'.timers) : v \in Sleepers /\ k'.rem[v] >= 0
    BY <1>1, <2>2 DEF IInv, NoOverdueTimer
  <2>5. arg' \in [Thread -> Thread]
    BY <1>1, <2>1 DEF TypeOK
  <2> QED
    BY <1>1, <2>1, <2>2, <2>3, <2>4, <2>5, ServiceStep, SMTT(20)
<1>3. CASE ~ Yields(k)
  <2>1. UNCHANGED vars
    BY <1>3 DEF rt_thread_yield, vars
  <2> QED
    BY <2>1, StutterStep
<1> QED
  BY <1>2, <1>3

LEMMA SleepStep ==
  ASSUME IInv, NEW t \in Thread, NEW n \in 0 .. MaxTick, rt_thread_sleep(t, n)
  PROVE  IInv'
<1> DEFINE a == SuspendBody(k, t)
<1>1. /\ TypeOK /\ Sound(k) /\ NoOverdueTimer /\ irq = "open" /\ irq' = "open"
      /\ k.cur = t /\ pc[t] = "run" /\ t \in Thread \ {Idle} /\ t \in Sleepers /\ k.lock = 0
      /\ k' = rt_timer_start(rt_thread_suspend(k, t), t, n)
      /\ Goto(t, "sleep_sched") /\ arg' = arg
  BY DEF IInv, rt_thread_sleep, Sleep, Calling, At
<1>2. k.stat[t] = "READY"
  BY <1>1, RunningIsReady
<1>3. /\ Sound(a)
      /\ a.stat = [k.stat EXCEPT ![t] = "SUSPEND"]
      /\ a.prio = k.prio /\ a.cur = k.cur /\ a.lock = k.lock
      /\ Range(a.timers) = Range(k.timers) \ {t}
      /\ \A u \in Thread \ {t} : a.rem[u] = k.rem[u]
  BY <1>1, SuspendSound, SMTT(20)
<1>4. k' = rt_timer_start(a, t, n)
  BY <1>1, <1>2 DEF rt_thread_suspend
<1> HIDE DEF a
<1>5. /\ WellFormed(k')
      /\ k'.tl = a.tl /\ k'.group = a.group /\ k'.stat = a.stat
      /\ k'.prio = a.prio /\ k'.cur = a.cur /\ k'.lock = a.lock
      /\ Range(k'.timers) = Range(a.timers) \cup {t}
      /\ k'.rem = [a.rem EXCEPT ![t] = n]
  BY <1>3, <1>4, StartTimer DEF Sound
<1>6. /\ k.stat \in [Thread -> Stat] /\ a.rem \in [Thread -> -1 .. MaxTick]
      /\ Range(k.timers) \subseteq Thread
  BY <1>1, <1>3, SoundTypes, TimersAreThreads
<1>7. Sound(k')
  BY <1>3, <1>5, <1>6 DEF Sound, In
<1>8. \A v \in Thread : Held(k, v) => Held(k', v)
  BY <1>2, <1>3, <1>5, <1>6 DEF Held
<1>9. \A v \in Range(k'.timers) : v \in Sleepers /\ k'.rem[v] >= 0
  <2> TAKE v \in Range(k'.timers)
  <2>1. CASE v = t
    <3>1. k'.rem[v] = n
      BY <1>5, <1>6, <2>1
    <3> QED
      BY <1>1, <2>1, <3>1
  <2>2. CASE v # t
    <3>1. v \in Range(k.timers) /\ v \in Thread \ {t} /\ k'.rem[v] = k.rem[v]
      BY <1>3, <1>5, <1>6, <2>2
    <3> QED
      BY <1>1, <3>1 DEF IInv, NoOverdueTimer
  <2> QED
    BY <2>1, <2>2
<1>10. arg' \in [Thread -> Thread] /\ k'.cur = k.cur
  BY <1>1, <1>3, <1>5 DEF TypeOK
<1> QED
  BY <1>1, <1>7, <1>8, <1>9, <1>10, ServiceStep

LEMMA SleepReturnStep ==
  ASSUME IInv, NEW t \in Thread, SleepReturn(t)
  PROVE  IInv'
<1> DEFINE e == IF k.error[t] = "ETIMEOUT" THEN "EOK" ELSE k.error[t]
<1>1. /\ TypeOK /\ Sound(k) /\ NoOverdueTimer /\ HighestRuns /\ irq' = irq /\ k.cur = t /\ pc[t] = "slept"
      /\ k' = [k EXCEPT !.error[t] = e] /\ Goto(t, "run") /\ arg' = arg
  BY DEF IInv, SleepReturn, At
<1>2. e \in Error /\ k \in KernelType
  BY <1>1, SoundTypes DEF Error
<1> HIDE DEF e
<1>3. /\ k' \in KernelType
      /\ k'.tl = k.tl /\ k'.group = k.group /\ k'.stat = k.stat /\ k'.prio = k.prio
      /\ k'.timers = k.timers /\ k'.rem = k.rem /\ k'.cur = k.cur /\ k'.lock = k.lock
  BY <1>1, <1>2, Zenon DEF KernelType
<1>4. Sound(k') /\ Range(k'.timers) \subseteq Sleepers
  BY <1>3, QuietStep
<1>5. pc' \in [Thread -> PC] /\ pc'[t] = "run" /\ \A u \in Thread \ {t} : pc'[u] = pc[u]
  BY <1>1 DEF TypeOK, Goto, PC
<1>6. \A u \in Thread : Pending(u)'
  <2>1. \A v \in Thread : Held(k, v) => Held(k', v)
    BY <1>3 DEF Held
  <2> QED
    BY <1>1, <1>5, <2>1, PendingElsewhere
<1>7. TypeOK' /\ NoOverdueTimer'
  BY <1>1, <1>3, <1>5 DEF TypeOK, NoOverdueTimer
<1>8. HighestRuns'
  BY <1>1, <1>3 DEF HighestRuns, Highest
<1> QED
  BY <1>4, <1>6, <1>7, <1>8 DEF IInv

LEMMA ControlStep ==
  ASSUME IInv, NEW t \in Thread, NEW u \in Thread, NEW p \in Prio, rt_thread_control(t, u, p)
  PROVE  IInv'
<1>1. /\ TypeOK /\ Sound(k) /\ NoOverdueTimer /\ irq = "open" /\ irq' = "open" /\ k.cur = t
      /\ k' = ChangePriority(k, u, p) /\ Goto(t, "sched") /\ arg' = arg
  BY DEF IInv, rt_thread_control, Calling, At
<1>2. /\ Sound(k')
      /\ k'.stat = k.stat /\ k'.timers = k.timers /\ k'.rem = k.rem /\ k'.cur = k.cur
  BY <1>1, ChangePrioritySound
<1>3. \A v \in Thread : Held(k, v) => Held(k', v)
  BY <1>2 DEF Held
<1>4. \A v \in Range(k'.timers) : v \in Sleepers /\ k'.rem[v] >= 0
  BY <1>1, <1>2 DEF IInv, NoOverdueTimer
<1>5. arg' \in [Thread -> Thread]
  BY <1>1 DEF TypeOK
<1> QED
  BY <1>1, <1>2, <1>3, <1>4, <1>5, ServiceStep, SMTT(20)

LEMMA SuspendActStep ==
  ASSUME IInv, NEW t \in Thread, SuspendAct(t)
  PROVE  IInv'
<1>1. /\ TypeOK /\ Sound(k) /\ NoOverdueTimer /\ irq = "open" /\ irq' = "open" /\ k.cur = t
      /\ k' = SuspendBody(k, arg[t]) /\ Goto(t, "sched") /\ arg' = [arg EXCEPT ![t] = t]
      /\ pc[t] = "suspend" /\ Pending(t)
  BY DEF IInv, SuspendAct, At, Forget
<1>2. arg[t] \in Thread \ {Idle}
  BY <1>1 DEF TypeOK, Pending
<1>3. /\ Sound(k')
      /\ k'.stat = [k.stat EXCEPT ![arg[t]] = "SUSPEND"] /\ k'.cur = k.cur
      /\ Range(k'.timers) = Range(k.timers) \ {arg[t]}
      /\ \A v \in Thread \ {arg[t]} : k'.rem[v] = k.rem[v]
  <2> DEFINE r == SuspendBody(k, arg[t])
  <2>1. /\ Sound(r)
        /\ r.stat = [k.stat EXCEPT ![arg[t]] = "SUSPEND"] /\ r.cur = k.cur
        /\ Range(r.timers) = Range(k.timers) \ {arg[t]}
        /\ \A v \in Thread \ {arg[t]} : r.rem[v] = k.rem[v]
    <3> Sound(k)
      BY <1>1
    <3> QED
      BY <1>2, SuspendSound, Zenon
  <2>2. k' = r
    BY <1>1
  <2> HIDE DEF r
  <2> QED
    BY <2>1, <2>2
<1>4. k.stat \in [Thread -> Stat] /\ Range(k.timers) \subseteq Thread
  BY <1>1, SoundTypes, TimersAreThreads
<1>5. \A v \in Thread : Held(k, v) => Held(k', v)
  BY <1>2, <1>3, <1>4 DEF Held
<1>6. \A v \in Range(k'.timers) : v \in Sleepers /\ k'.rem[v] >= 0
  BY <1>1, <1>3, <1>4 DEF IInv, NoOverdueTimer
<1>7. arg' \in [Thread -> Thread] /\ \A u \in Thread \ {t} : arg'[u] = arg[u]
  BY <1>1 DEF TypeOK
<1> QED
  BY <1>1, <1>3, <1>5, <1>6, <1>7, ServiceStep, ZenonT(60)

\* A step inside a call that leaves the scheduler, the timers and the states of the
\* threads as they are.
LEMMA LocalStep ==
  ASSUME IInv, NEW t \in Thread, k' = k, irq' = irq, k.cur = t, pc[t] \in {"run", "resume"},
         pc' \in [Thread -> PC], arg' \in [Thread -> Thread],
         \A u \in Thread \ {t} : pc'[u] = pc[u] /\ arg'[u] = arg[u],
         Pending(t)'
  PROVE  IInv'
<1>1. TypeOK' /\ Sound(k)' /\ NoOverdueTimer' /\ HighestRuns' /\ Range(k'.timers) \subseteq Sleepers
  BY DEF IInv, TypeOK, NoOverdueTimer, HighestRuns
<1>2. \A u \in Thread : Pending(u)'
  <2> TAKE u \in Thread
  <2>1. CASE u = t
    BY <2>1
  <2>2. CASE u # t
    <3>1. Pending(u)
      BY DEF IInv
    <3> QED
      BY <2>2, <3>1 DEF Pending
  <2> QED
    BY <2>1, <2>2
<1> QED
  BY <1>1, <1>2 DEF IInv

LEMMA SuspendCheckStep ==
  ASSUME IInv, NEW t \in Thread, NEW u \in Thread, SuspendCheck(t, u)
  PROVE  IInv'
<1>1. TypeOK /\ k' = k /\ irq' = irq /\ k.cur = t /\ pc[t] = "run" /\ u # Idle
  BY DEF IInv, SuspendCheck, Calling, At
<1>2. CASE k.stat[u] = "READY"
  <2>1. pc' = [pc EXCEPT ![t] = "suspend"] /\ arg' = [arg EXCEPT ![t] = u]
    BY <1>2 DEF SuspendCheck, Goto
  <2>2. /\ pc' \in [Thread -> PC] /\ arg' \in [Thread -> Thread]
        /\ pc'[t] = "suspend" /\ arg'[t] = u
        /\ \A v \in Thread \ {t} : pc'[v] = pc[v] /\ arg'[v] = arg[v]
    BY <1>1, <2>1 DEF TypeOK, PC
  <2>3. Pending(t)'
    BY <1>1, <2>2 DEF Pending
  <2> QED
    BY <1>1, <2>2, <2>3, LocalStep
<1>3. CASE k.stat[u] # "READY"
  <2>1. UNCHANGED vars
    BY <1>3 DEF SuspendCheck, vars
  <2> QED
    BY <2>1, StutterStep
<1> QED
  BY <1>2, <1>3

LEMMA ResumeCallStep ==
  ASSUME IInv, NEW t \in Thread, NEW u \in Thread, ResumeCall(t, u)
  PROVE  IInv'
<1>1. /\ TypeOK /\ k' = k /\ irq' = irq /\ k.cur = t /\ pc[t] = "run"
      /\ t \in Resumers /\ u \in Resumable
      /\ pc' = [pc EXCEPT ![t] = "resume"] /\ arg' = [arg EXCEPT ![t] = u]
  BY DEF IInv, ResumeCall, Calling, At, Goto
<1>2. /\ pc' \in [Thread -> PC] /\ arg' \in [Thread -> Thread]
      /\ pc'[t] = "resume" /\ arg'[t] = u
      /\ \A v \in Thread \ {t} : pc'[v] = pc[v] /\ arg'[v] = arg[v]
  BY <1>1 DEF TypeOK, PC
<1>3. Pending(t)'
  BY <1>1, <1>2 DEF Pending
<1> QED
  BY <1>1, <1>2, <1>3, LocalStep

\* The discipline at work: a suspended thread that may be resumed has no timer.
LEMMA ResumeCheckStep ==
  ASSUME Disciplined, IInv, NEW t \in Thread, ResumeCheck(t)
  PROVE  IInv'
<1>1. TypeOK /\ k' = k /\ irq' = irq /\ irq = "open" /\ k.cur = t /\ pc[t] = "resume" /\ Pending(t) /\ Sound(k)
  BY DEF IInv, ResumeCheck, At
<1>2. CASE k.stat[arg[t]] = "SUSPEND"
  <2>1. pc' = [pc EXCEPT ![t] = "unlink"] /\ arg' = arg
    BY <1>2 DEF ResumeCheck, Goto
  <2>2. /\ pc' \in [Thread -> PC] /\ arg' \in [Thread -> Thread] /\ pc'[t] = "unlink"
        /\ \A v \in Thread \ {t} : pc'[v] = pc[v] /\ arg'[v] = arg[v]
    BY <1>1, <2>1 DEF TypeOK, PC
  <2>3. Held(k, arg[t])
    BY <1>1, <1>2 DEF Pending, Held, IInv, Disciplined
  <2>4. Pending(t)'
    BY <1>1, <2>1, <2>2, <2>3 DEF Pending
  <2> QED
    BY <1>1, <2>2, <2>4, LocalStep
<1>3. CASE k.stat[arg[t]] # "SUSPEND"
  <2>1. pc' = [pc EXCEPT ![t] = "sched"] /\ arg' = [arg EXCEPT ![t] = t]
    BY <1>3 DEF ResumeCheck, Goto, Forget
  <2>2. /\ pc' \in [Thread -> PC] /\ arg' \in [Thread -> Thread] /\ pc'[t] = "sched"
        /\ \A v \in Thread \ {t} : pc'[v] = pc[v] /\ arg'[v] = arg[v]
    BY <1>1, <2>1 DEF TypeOK, PC
  <2>3. Pending(t)'
    BY <2>2 DEF Pending
  <2> QED
    BY <1>1, <2>2, <2>3, LocalStep
<1> QED
  BY <1>2, <1>3

\* Only one thread is ever inside resume.
LEMMA OneResumer ==
  ASSUME Disciplined, IInv, NEW t \in Thread, NEW u \in Thread, t \in Resumers, u # t
  PROVE  pc[u] \notin {"resume", "unlink", "insert"}
<1>1. Pending(u)
  BY DEF IInv
<1> QED
  BY <1>1 DEF Pending, Disciplined

LEMMA TakeOffStep ==
  ASSUME IInv, NEW t \in Thread, ResumeTakeOff(t)
  PROVE  IInv'
<1>1. /\ TypeOK /\ Sound(k) /\ NoOverdueTimer /\ HighestRuns /\ Pending(t) /\ irq' = irq /\ arg' = arg
      /\ k.cur = t /\ pc[t] = "unlink" /\ irq = "open"
      /\ k' = ResumeUnlink(k, arg[t]) /\ pc' = [pc EXCEPT ![t] = "insert"]
  BY DEF IInv, ResumeTakeOff, At, Goto
<1>2. arg[t] \in Thread /\ Held(k, arg[t]) /\ t \in Resumers
  BY <1>1 DEF Pending, TypeOK
<1>3. /\ Sound(k')
      /\ k'.tl = k.tl /\ k'.group = k.group /\ k'.stat = k.stat /\ k'.prio = k.prio
      /\ Range(k'.timers) = Range(k.timers)
      /\ k'.cur = k.cur /\ k'.lock = k.lock
      /\ \A u \in Thread \ {arg[t]} : k'.rem[u] = k.rem[u]
  BY <1>1, <1>2, TakeOffSound, SMTT(60) DEF Held
<1>4. \A v \in Thread : Held(k', v) <=> Held(k, v)
  BY <1>3 DEF Held
<1>5. pc' \in [Thread -> PC] /\ pc'[t] = "insert" /\ \A u \in Thread \ {t} : pc'[u] = pc[u]
  BY <1>1 DEF TypeOK, PC
<1>6. \A u \in Thread : Pending(u)'
  <2> TAKE u \in Thread
  <2>1. CASE u = t
    BY <1>1, <1>2, <1>4, <1>5, <2>1 DEF Pending
  <2>2. CASE u # t
    <3>1. Pending(u) /\ arg[u] \in Thread
      BY <1>1 DEF IInv, TypeOK
    <3> QED
      BY <1>1, <1>4, <1>5, <2>2, <3>1 DEF Pending
  <2> QED
    BY <2>1, <2>2
<1>7. TypeOK'
  BY <1>1, <1>3, <1>5, SoundTypes, ZenonT(30) DEF TypeOK
<1>8. NoOverdueTimer' /\ Range(k'.timers) \subseteq Sleepers
  <2>1. Range(k.timers) \subseteq Thread
    BY <1>1, TimersAreThreads
  <2> QED
    BY <1>1, <1>2, <1>3, <2>1 DEF NoOverdueTimer, IInv, Held
<1>9. HighestRuns'
  BY <1>1, <1>3 DEF HighestRuns, Highest
<1> QED
  BY <1>3, <1>6, <1>7, <1>8, <1>9 DEF IInv

LEMMA ResumeInsertStep ==
  ASSUME Disciplined, IInv, NEW t \in Thread, ResumeInsert(t)
  PROVE  IInv'
<1>1. /\ TypeOK /\ Sound(k) /\ NoOverdueTimer /\ Pending(t) /\ irq' = irq /\ irq = "open"
      /\ k.cur = t /\ pc[t] = "insert"
      /\ k' = rt_schedule_insert_thread(k, arg[t])
      /\ pc' = [pc EXCEPT ![t] = "sched"] /\ arg' = [arg EXCEPT ![t] = t]
  BY DEF IInv, ResumeInsert, At, Goto, Forget
<1>2. arg[t] \in Thread /\ Held(k, arg[t]) /\ t \in Resumers
  BY <1>1 DEF Pending, TypeOK
<1>3. /\ Sound(k')
      /\ k'.stat = [k.stat EXCEPT ![arg[t]] = "READY"]
      /\ k'.timers = k.timers /\ k'.rem = k.rem /\ k'.cur = k.cur
  BY <1>1, <1>2, InsertSound, SMTT(60) DEF Held
<1>4. /\ pc' \in [Thread -> PC] /\ arg' \in [Thread -> Thread] /\ pc'[t] = "sched"
      /\ \A u \in Thread \ {t} : pc'[u] = pc[u] /\ arg'[u] = arg[u]
  BY <1>1 DEF TypeOK, PC
<1>5. \A u \in Thread : Pending(u)'
  <2> TAKE u \in Thread
  <2>1. CASE u = t
    BY <1>4, <2>1 DEF Pending
  <2>2. CASE u # t
    <3>1. pc[u] \notin {"resume", "unlink", "insert"} /\ Pending(u)
      BY <1>2, <2>2, OneResumer DEF IInv
    <3> QED
      BY <1>4, <2>2, <3>1 DEF Pending
  <2> QED
    BY <2>1, <2>2
<1>6. TypeOK' /\ HighestRuns'
  BY <1>1, <1>3, <1>4, SoundTypes DEF TypeOK, HighestRuns
<1>7. NoOverdueTimer' /\ Range(k'.timers) \subseteq Sleepers
  BY <1>1, <1>3 DEF NoOverdueTimer, IInv
<1> QED
  BY <1>3, <1>5, <1>6, <1>7 DEF IInv

LEMMA StartupStep ==
  ASSUME IInv, NEW t \in Thread, NEW u \in Thread, rt_thread_startup(t, u)
  PROVE  IInv'
<1>1. /\ TypeOK /\ Sound(k) /\ NoOverdueTimer /\ HighestRuns /\ irq' = irq /\ irq = "open"
      /\ k.cur = t /\ pc[t] = "run" /\ t \in Resumers /\ k.stat[u] = "INIT"
      /\ k' = [k EXCEPT !.prio[u] = InitPrio[u], !.stat[u] = "SUSPEND"]
      /\ pc' = [pc EXCEPT ![t] = "resume"] /\ arg' = [arg EXCEPT ![t] = u]
  BY DEF IInv, rt_thread_startup, Calling, At, Goto
<1>2. /\ k \in KernelType /\ k.stat \in [Thread -> Stat] /\ k.prio \in [Thread -> Prio]
      /\ InitPrio[u] \in Prio /\ Idle \in Thread /\ Range(k.timers) \subseteq Thread
  BY <1>1, SoundTypes, TimersAreThreads, KernelAssumption
<1>3. /\ k'.tl = k.tl /\ k'.group = k.group /\ k'.timers = k.timers /\ k'.rem = k.rem
      /\ k'.cur = k.cur /\ k'.lock = k.lock
      /\ k'.stat = [k.stat EXCEPT ![u] = "SUSPEND"] /\ k'.prio = [k.prio EXCEPT ![u] = InitPrio[u]]
      /\ k' \in KernelType
  BY <1>1, <1>2, Zenon DEF KernelType, Stat
<1>4. WellFormed(k')
  BY <1>1, <1>3 DEF Sound, WellFormed
<1>5. Sound(k')
  <2>1. \A v \in Thread, l \in List : In(k', v, l) <=> k'.stat[v] = "READY" /\ l = k'.prio[v]
    <3> TAKE v \in Thread, l \in List
    <3>1. In(k', v, l) <=> k.stat[v] = "READY" /\ l = k.prio[v]
      BY <1>1, <1>3 DEF Sound, In
    <3>2. CASE v = u
      BY <1>1, <1>2, <1>3, <3>1, <3>2, SMTT(20)
    <3>3. CASE v # u
      BY <1>2, <1>3, <3>1, <3>3
    <3> QED
      BY <3>2, <3>3
  <2>2. k'.stat[Idle] = "READY" /\ \A v \in Range(k'.timers) : k'.stat[v] = "SUSPEND"
    BY <1>1, <1>2, <1>3 DEF Sound
  <2> QED
    BY <1>4, <2>1, <2>2 DEF Sound
<1>6. Held(k', u) /\ \A v \in Thread : Held(k, v) => Held(k', v)
  <2>1. u \notin Range(k.timers)
    BY <1>1 DEF Sound
  <2> QED
    BY <1>1, <1>2, <1>3, <2>1 DEF Held
<1>7. /\ pc' \in [Thread -> PC] /\ arg' \in [Thread -> Thread] /\ pc'[t] = "resume" /\ arg'[t] = u
      /\ \A v \in Thread \ {t} : pc'[v] = pc[v] /\ arg'[v] = arg[v]
  BY <1>1 DEF TypeOK, PC
<1>8. \A v \in Thread : Pending(v)'
  <2> TAKE v \in Thread
  <2>1. CASE v = t
    BY <1>1, <1>6, <1>7, <2>1 DEF Pending
  <2>2. CASE v # t
    <3>1. Pending(v) /\ arg[v] \in Thread
      BY <1>1 DEF IInv, TypeOK
    <3> QED
      BY <1>6, <1>7, <2>2, <3>1 DEF Pending
  <2> QED
    BY <2>1, <2>2
<1>9. TypeOK' /\ HighestRuns' /\ NoOverdueTimer' /\ Range(k'.timers) \subseteq Sleepers
  BY <1>1, <1>3, <1>7 DEF TypeOK, HighestRuns, Highest, NoOverdueTimer, IInv
<1> QED
  BY <1>5, <1>8, <1>9 DEF IInv

\* rt_enter_critical and rt_exit_critical.
LEMMA CriticalStep ==
  ASSUME IInv, NEW t \in Thread, rt_enter_critical(t) \/ rt_exit_critical(t)
  PROVE  IInv'
<1>1. /\ TypeOK /\ Sound(k) /\ NoOverdueTimer /\ HighestRuns /\ irq' = irq /\ arg' = arg
      /\ k.cur = t /\ pc[t] = "run" /\ k \in KernelType /\ k.lock \in Nat
  BY SoundTypes DEF IInv, rt_enter_critical, rt_exit_critical, Calling, At
<1>2. PICK n \in Nat, l \in {"run", "sched"} :
         /\ k' = [k EXCEPT !.lock = n]
         /\ pc' = [pc EXCEPT ![t] = l]
         /\ n = 0 => l = "sched"
  <2>1. CASE rt_enter_critical(t)
    <3>1. k' = [k EXCEPT !.lock = k.lock + 1] /\ pc' = pc
      BY <2>1 DEF rt_enter_critical
    <3>2. pc' = [pc EXCEPT ![t] = "run"]
      BY <1>1, <3>1 DEF TypeOK
    <3>3. k.lock + 1 \in Nat /\ k.lock + 1 # 0
      BY <1>1
    <3> QED
      BY <3>1, <3>2, <3>3, Zenon
  <2>2. CASE rt_exit_critical(t) /\ k.lock <= 1
    <3>1. k' = [k EXCEPT !.lock = 0] /\ pc' = [pc EXCEPT ![t] = "sched"]
      BY <2>2 DEF rt_exit_critical, Goto
    <3> QED
      BY <3>1
  <2>3. CASE rt_exit_critical(t) /\ ~ (k.lock <= 1)
    <3>1. k' = [k EXCEPT !.lock = k.lock - 1] /\ pc' = pc
      BY <2>3 DEF rt_exit_critical
    <3>2. pc' = [pc EXCEPT ![t] = "run"]
      BY <1>1, <3>1 DEF TypeOK
    <3>3. k.lock - 1 \in Nat /\ k.lock - 1 # 0
      BY <1>1, <2>3
    <3> QED
      BY <3>1, <3>2, <3>3, Zenon
  <2> QED
    BY <2>1, <2>2, <2>3
<1>3. /\ k' \in KernelType
      /\ k'.tl = k.tl /\ k'.group = k.group /\ k'.stat = k.stat /\ k'.prio = k.prio
      /\ k'.timers = k.timers /\ k'.rem = k.rem /\ k'.cur = k.cur /\ k'.lock = n
  BY <1>1, <1>2, Zenon DEF KernelType
<1>4. Sound(k') /\ Range(k'.timers) \subseteq Sleepers
  BY <1>3, QuietStep
<1>5. pc' \in [Thread -> PC] /\ pc'[t] = l /\ \A u \in Thread \ {t} : pc'[u] = pc[u]
  BY <1>1, <1>2 DEF TypeOK, PC
<1>6. \A u \in Thread : Pending(u)'
  <2>1. \A v \in Thread : Held(k, v) => Held(k', v)
    BY <1>3 DEF Held
  <2> QED
    BY <1>1, <1>5, <2>1, PendingElsewhere, SMTT(20)
<1>7. TypeOK' /\ NoOverdueTimer'
  BY <1>1, <1>3, <1>5 DEF TypeOK, NoOverdueTimer
<1>8. HighestRuns'
  BY <1>1, <1>2, <1>3, <1>5 DEF HighestRuns
<1> QED
  BY <1>4, <1>6, <1>7, <1>8 DEF IInv

\* The timer list is sorted, so when its head is not due nothing is.
LEMMA SortedFromHead ==
  ASSUME Sound(k), ~ TimerDue
  PROVE  \A v \in Range(k.timers) : k.rem[v] >= 0
<1>1. k.timers \in Seq(Thread) /\ k.rem \in [Thread -> -1 .. MaxTick] /\ MaxTick \in Nat
  BY SoundTypes, KernelAssumption
<1>2. DOMAIN k.timers = 1 .. Len(k.timers) /\ Len(k.timers) \in Nat
  BY <1>1, LenProperties
<1> TAKE v \in Range(k.timers)
<1>3. PICK i \in 1 .. Len(k.timers) : v = k.timers[i]
  BY <1>2 DEF Range
<1>4. k.timers # <<>> /\ Head(k.timers) = k.timers[1] /\ Head(k.timers) \in Thread
  BY <1>1, EmptyFacts
<1> DEFINE h == Head(k.timers)
<1>5. k.rem[h] \in Int /\ k.rem[h] > 0
  BY <1>1, <1>4 DEF TimerDue
<1>6. v \in Thread /\ k.rem[v] \in Int
  BY <1>1, TimersAreThreads
<1>7. k.rem[h] <= k.rem[v]
  <2>1. CASE i = 1
    BY <1>3, <1>4, <1>5, <2>1
  <2>2. CASE i # 1
    <3>1. 1 \in 1 .. Len(k.timers) /\ 1 < i
      BY <1>2, <2>2
    <3>2. SortedBy(k.timers, k.rem)
      BY DEF Sound, WellFormed
    <3> QED
      BY <1>3, <1>4, <3>1, <3>2 DEF SortedBy
  <2> QED
    BY <2>1, <2>2
<1> HIDE DEF h
<1> QED
  BY <1>5, <1>6, <1>7

\* The tick handler: time passes for every timer, the running thread uses its
\* slice, and each timer that is due makes its thread ready.
LEMMA TickStep ==
  ASSUME IInv, Tick
  PROVE  IInv'
<1>1. TypeOK /\ Sound(k) /\ NoOverdueTimer /\ HighestRuns /\ pc' = pc /\ arg' = arg
  BY DEF IInv, Tick
<1>2. ASSUME Sound(k'), \A v \in Thread : Held(k, v) => Held(k', v),
             HighestRuns', NoOverdueTimer', Range(k'.timers) \subseteq Sleepers,
             irq' \in {"open", "tick"}
      PROVE  IInv'
  <2>1. TypeOK'
    BY <1>1, <1>2, SoundTypes DEF TypeOK
  <2>2. \A u \in Thread : Pending(u)'
    <3> TAKE u \in Thread
    <3>1. Pending(u) /\ arg[u] \in Thread
      BY <1>1 DEF IInv, TypeOK
    <3> QED
      BY <1>1, <1>2, <3>1 DEF Pending
  <2> QED
    BY <1>2, <2>1, <2>2 DEF IInv
<1>3. CASE TickEnter
  <2> DEFINE a == Elapse(k)
  <2>1. irq = "open" /\ irq' = "tick" /\ k' = TimeSlice(a)
    BY <1>3 DEF TickEnter
  <2>2. /\ Sound(a)
        /\ a.tl = k.tl /\ a.group = k.group /\ a.stat = k.stat /\ a.prio = k.prio
        /\ a.timers = k.timers /\ a.cur = k.cur /\ a.lock = k.lock
    BY <1>1, <2>1, ElapseSound DEF NoOverdueTimer
  <2> HIDE DEF a
  <2>3. /\ Sound(k')
        /\ k'.stat = a.stat /\ k'.timers = a.timers /\ k'.lock = a.lock
        /\ \/ k'.tl = a.tl /\ k'.group = a.group /\ k'.cur = a.cur
           \/ a.lock = 0 => k'.cur = Highest(k')
    BY <2>1, <2>2, TimeSliceSound
  <2>4. HighestRuns'
    BY <1>1, <2>2, <2>3 DEF HighestRuns, Highest
  <2>5. \A v \in Thread : Held(k, v) => Held(k', v)
    BY <2>2, <2>3 DEF Held
  <2>6. NoOverdueTimer' /\ Range(k'.timers) \subseteq Sleepers
    BY <2>1, <2>2, <2>3 DEF NoOverdueTimer, IInv
  <2> QED
    BY <1>2, <2>1, <2>3, <2>4, <2>5, <2>6
<1>4. CASE TickTimer
  <2> DEFINE h == Head(k.timers)
  <2>1. /\ irq = "tick" /\ irq' = "tick" /\ k.timers # <<>>
        /\ k' = rt_thread_timeout(rt_timer_stop(k, h), h)
    BY <1>4 DEF TickTimer, TimerDue
  <2>2. h \in Range(k.timers) /\ h \in Thread
    <3>1. k.timers \in Seq(Thread)
      BY <1>1, SoundTypes
    <3> QED
      BY <2>1, <3>1, EmptyFacts
  <2> HIDE DEF h
  <2>3. /\ Sound(k')
        /\ k'.stat = [k.stat EXCEPT ![h] = "READY"] /\ k'.lock = k.lock
        /\ Range(k'.timers) = Range(k.timers) \ {h}
        /\ k.lock = 0 => k'.cur = Highest(k')
    BY <1>1, <2>1, <2>2, TimeoutSound, SMTT(60)
  <2>4. HighestRuns'
    BY <2>3 DEF HighestRuns
  <2>5. \A v \in Thread : Held(k, v) => Held(k', v)
    <3>1. k.stat \in [Thread -> Stat]
      BY <1>1, SoundTypes
    <3> QED
      BY <2>2, <2>3, <3>1 DEF Held
  <2>6. NoOverdueTimer' /\ Range(k'.timers) \subseteq Sleepers
    BY <2>1, <2>3 DEF NoOverdueTimer, IInv
  <2> QED
    BY <1>2, <2>1, <2>3, <2>4, <2>5, <2>6
<1>5. CASE TickLeave
  <2>1. irq' = "open" /\ k' = k /\ ~ TimerDue
    BY <1>5 DEF TickLeave
  <2>2. \A v \in Range(k.timers) : k.rem[v] >= 0
    BY <1>1, <2>1, SortedFromHead
  <2>3. HighestRuns' /\ NoOverdueTimer' /\ Sound(k') /\ Range(k'.timers) \subseteq Sleepers
    BY <1>1, <2>1, <2>2 DEF HighestRuns, NoOverdueTimer, IInv
  <2>4. \A v \in Thread : Held(k, v) => Held(k', v)
    BY <2>1
  <2> QED
    BY <1>2, <2>1, <2>3, <2>4
<1> QED
  BY <1>3, <1>4, <1>5 DEF Tick, rt_tick_increase

-----------------------------------------------------------------------------
LEMMA NextIInv ==
  ASSUME Disciplined, IInv, [Next]_vars
  PROVE  IInv'
<1>1. CASE Tick
  BY <1>1, TickStep
<1>2. ASSUME NEW t \in Thread, InCall(t)
      PROVE  IInv'
  <2>1. CASE Reschedule(t)
    BY <2>1, ScheduleStep DEF Reschedule
  <2>2. CASE SleepSchedule(t)
    BY <2>2, ScheduleStep DEF SleepSchedule
  <2>3. CASE SleepReturn(t)
    BY <2>3, SleepReturnStep
  <2>4. CASE SuspendAct(t)
    BY <2>4, SuspendActStep
  <2>5. CASE ResumeCheck(t)
    BY <2>5, ResumeCheckStep
  <2>6. CASE ResumeTakeOff(t)
    BY <2>6, TakeOffStep
  <2>7. CASE ResumeInsert(t)
    BY <2>7, ResumeInsertStep
  <2> QED
    BY <1>2, <2>1, <2>2, <2>3, <2>4, <2>5, <2>6, <2>7 DEF InCall
<1>3. ASSUME NEW t \in Thread, Service(t)
      PROVE  IInv'
  <2>1. CASE rt_thread_yield(t)
    BY <2>1, YieldStep
  <2>2. CASE \E n \in 0 .. MaxTick : rt_thread_sleep(t, n)
    BY <2>2, SleepStep
  <2>3. CASE \E u \in Thread, p \in Prio : rt_thread_control(t, u, p)
    BY <2>3, ControlStep
  <2>4. CASE \E u \in Thread : SuspendCheck(t, u) \/ rt_thread_startup(t, u) \/ ResumeCall(t, u)
    BY <2>4, SuspendCheckStep, StartupStep, ResumeCallStep
  <2>5. CASE rt_enter_critical(t) \/ rt_exit_critical(t)
    BY <2>5, CriticalStep
  <2> QED
    BY <1>3, <2>1, <2>2, <2>3, <2>4, <2>5 DEF Service
<1>4. CASE UNCHANGED vars
  BY <1>4, StutterStep
<1> QED
  BY <1>1, <1>2, <1>3, <1>4 DEF Next

\* The invariant holds of every reachable state.
THEOREM IInvHolds ==
  ASSUME Disciplined
  PROVE  Spec => []IInv
<1>1. Init => IInv
  BY InitIInv
<1>2. IInv /\ [Next]_vars => IInv'
  BY NextIInv
<1> QED
  BY <1>1, <1>2, PTL DEF Spec

\* The kernel state always has its types; in particular the thread rt_schedule
\* selects always exists, and no counter leaves its range.
THEOREM TypeCorrect ==
  ASSUME Disciplined
  PROVE  Spec => []TypeOK
<1>1. IInv => TypeOK
  BY DEF IInv
<1> QED
  BY <1>1, IInvHolds, PTL

\* A thread is on the ready list of its priority exactly while it is ready, and the
\* bitmap of priorities tells which ready lists have a thread.
THEOREM ReadyListsCorrect ==
  ASSUME Disciplined
  PROVE  Spec => [](ReadyListsExact /\ BitmapExact)
<1>1. IInv => ReadyListsExact /\ BitmapExact
  BY DEF IInv, Sound, WellFormed, In, ReadyListsExact, Linked, BitmapExact
<1> QED
  BY <1>1, IInvHolds, PTL

\* The assertion of rt_thread_timeout never fails, and the tick handler leaves no
\* timer behind that is due.
THEOREM TimersCorrect ==
  ASSUME Disciplined
  PROVE  Spec => [](TimersSuspended /\ NoOverdueTimer)
<1>1. IInv => TimersSuspended /\ NoOverdueTimer
  BY DEF IInv, Sound, WellFormed, TimersSuspended
<1> QED
  BY <1>1, IInvHolds, PTL

\* The running thread is the first of the highest ready priority whenever the
\* scheduler is unlocked and has had its turn.
THEOREM PriorityScheduling ==
  ASSUME Disciplined
  PROVE  Spec => []HighestRuns
<1>1. IInv => HighestRuns
  BY DEF IInv
<1> QED
  BY <1>1, IInvHolds, PTL
=============================================================================
