------------------------------- MODULE Timers -------------------------------
(***************************************************************************)
(* The timers of timer.c: hard timers, whose callbacks the tick interrupt  *)
(* runs, and soft timers, whose callbacks the timer thread runs.  Threads  *)
(* and callbacks start, stop and reconfigure them.  rt_tick and the expiry *)
(* times are unsigned and wrap.                                            *)
(*                                                                         *)
(* The timer of each thread, which is in rt_timer_list too, stays in the   *)
(* kernel state; timers of the two kinds that are due at the same tick are *)
(* taken in either order.                                                  *)
(***************************************************************************)
EXTENDS Ipc

CONSTANTS
  Timer,         \* the timers
  TimerThread,   \* timer_thread
  RT_TICK_MAX,   \* the largest tick; ticks count modulo RT_TICK_MAX + 1
  InitTicks,     \* the init_tick values in use
  SoftSets,      \* which timers may be the soft ones
  MaxStale,      \* bound: ticks between reading rt_tick and using what was read
  MaxLate,       \* bound: ticks by which the timer thread or who resumes it is behind
  AnyStop,       \* may a soft callback stop another soft timer?
  AnyRestart,    \* may the callback of a one-shot timer restart that timer?
  AnyExpiry      \* may a soft timer fall due at the tick RT_TICK_MAX?

Half == RT_TICK_MAX \div 2

ASSUME TimersAssumption ==
  /\ TimerThread \in Thread \ {Idle}
  /\ RT_TICK_MAX \in Nat \ {0}
  /\ InitTicks \subseteq 0 .. Half - 1
  /\ SoftSets \subseteq SUBSET Timer
  /\ MaxStale \in Nat /\ MaxLate \in Nat
  /\ {AnyStop, AnyRestart, AnyExpiry} \subseteq BOOLEAN

VARIABLES
  w,      \* the timers and rt_tick
  op,     \* op[p]: the timer that the call of p is about, and where p returns to
  chk,    \* the locals of the timer thread
  left,   \* history: ticks until each timer is due, counted without wrapping
  want,   \* history: the timers started, and not stopped since
  stale   \* history: ticks since thread p read the tick that it has yet to use

vars == <<k, irq, pc, w, op, chk, left, want, stale>>

\* n is the loop cursor of rt_soft_timer_check; End is the list head.
End == "end"

WType ==
  [ tick     : 0 .. RT_TICK_MAX,
    list     : [{"hard", "soft"} -> Seq(Timer)],  \* rt_timer_list, rt_soft_timer_list
    due      : [Timer -> 0 .. RT_TICK_MAX],       \* timeout_tick
    init     : [Timer -> InitTicks],              \* init_tick
    active   : SUBSET Timer,                      \* RT_TIMER_FLAG_ACTIVATED
    periodic : SUBSET Timer,                      \* RT_TIMER_FLAG_PERIODIC
    soft     : SUBSET Timer ]                     \* RT_TIMER_FLAG_SOFT_TIMER

\* Unsigned subtraction of ticks.
Minus(m, n) == (m - n) % (RT_TICK_MAX + 1)

Class(s, t) == IF t \in s.soft THEN "soft" ELSE "hard"

Listed(s, t) == t \in Range(s.list[Class(s, t)])

_rt_timer_remove(s, t) ==
  [s EXCEPT !.list = [c \in DOMAIN @ |-> rt_list_remove(@[c], t)]]

\* The expiry is not read any more, except through the cursor of the timer thread,
\* and is kept at 0.
Deactivate(s, t) ==
  [s EXCEPT !.active = @ \ {t},
            !.due[t] = IF Listed(s, t) \/ chk.n = t THEN @ ELSE 0]

\* Timer t has expired at tick.
Expired(s, tick, t) == Minus(tick, s.due[t]) < Half

\* (defect) expiry times are compared without regard to the wrap of rt_tick
PlaceNoWrap(s, list, t) ==
  Min({i \in 1 .. Len(list) : s.due[list[i]] > s.due[t]} \cup {Len(list) + 1})

\* Where rt_timer_start links t: before the first timer that is due after it.
Place(s, list, t) ==
  Min({i \in 1 .. Len(list) :
         /\ s.due[list[i]] # s.due[t]
         /\ Minus(s.due[list[i]], s.due[t]) < Half} \cup {Len(list) + 1})

\* The three parts of rt_timer_start before it looks at the timer thread.
StartRemove(s, t) == Deactivate(_rt_timer_remove(s, t), t)

StartDue(s, t) == [s EXCEPT !.due[t] = (s.tick + s.init[t]) % (RT_TICK_MAX + 1)]

StartLink(s, t) ==
  LET list == s.list[Class(s, t)]
  IN  [s EXCEPT !.list[Class(s, t)] = rt_list_insert_before(list, Place(s, list, t), t),
                !.active            = @ \cup {t}]

\* rt_timer_start and rt_timer_stop of a hard timer, interrupts disabled.
rt_timer_start_now(s, t) == StartLink(StartDue(StartRemove(s, t), t), t)

rt_timer_stop_now(s, t) ==
  IF t \in s.active THEN Deactivate(_rt_timer_remove(s, t), t) ELSE s

-----------------------------------------------------------------------------
NoCheck == [tick |-> 0, n |-> End, t |-> End]

\* The timers have been created, none is started, and the timer thread is about to
\* run for the first time.
Init ==
  /\ k = AllStarted
  /\ irq = "open"
  /\ pc = [p \in Thread |-> IF p = TimerThread THEN "next" ELSE "run"]
  /\ \E soft \in SoftSets, periodic \in SUBSET Timer :
       w = [ tick |-> 0, list |-> [c \in {"hard", "soft"} |-> <<>>],
             due |-> [t \in Timer |-> 0], init |-> [t \in Timer |-> Min(InitTicks)],
             active |-> {}, periodic |-> periodic, soft |-> soft ]
  /\ op = [p \in Thread |-> [timer |-> End, ret |-> "run"]]
  /\ chk = NoCheck
  /\ left = [t \in Timer |-> 0]
  /\ want = {}
  /\ stale = [p \in Thread |-> 0]

\* Thread p is inside rt_timer_start or rt_timer_stop of timer t.
Operating(p, t) == op[p].timer = t

\* A timer is not operated on from two contexts at once.
Free(t) == \A p \in Thread : ~Operating(p, t)

Return(p) ==
  /\ Goto(p, op[p].ret)
  /\ op' = [op EXCEPT ![p] = [timer |-> End, ret |-> "run"]]

-----------------------------------------------------------------------------
(* rt_timer_start, called by thread p, which goes on at label ret *)

StartCall(p, t, ret) ==
  /\ w' = StartRemove(w, t)
  /\ op' = [op EXCEPT ![p] = [timer |-> t, ret |-> ret]]
  /\ Goto(p, "due")

\* Unless AnyExpiry, a soft timer that would fall due at RT_TICK_MAX is started one
\* tick later.
Barred(p) ==
  /\ ~AnyExpiry
  /\ pc[p] = "due"
  /\ LET t == op[p].timer IN t \in w.soft /\ StartDue(w, t).due[t] = RT_TICK_MAX

\* rt_tick is read with interrupts enabled.
StartReadsTick(p) ==
  /\ At(p, "due")
  /\ ~Barred(p)
  /\ w' = StartDue(w, op[p].timer)
  /\ left' = [left EXCEPT ![op[p].timer] = w.init[op[p].timer]]
  /\ stale' = [stale EXCEPT ![p] = 0]
  /\ Goto(p, "link")
  /\ UNCHANGED <<k, irq, op, chk, want>>

StartLinks(p) ==
  /\ At(p, "link")
  /\ w' = StartLink(w, op[p].timer)
  /\ want' = want \cup {op[p].timer}
  /\ stale' = [stale EXCEPT ![p] = 0]
  /\ IF op[p].timer \in w.soft THEN Goto(p, "look") /\ UNCHANGED op ELSE Return(p)
  /\ UNCHANGED <<k, irq, chk, left>>

\* A soft timer makes sure that the timer thread looks at the list again.
StartLooks(p) ==
  /\ At(p, "look")
  /\ IF k.stat[TimerThread] # "READY" THEN Goto(p, "resume") /\ UNCHANGED op ELSE Return(p)
  /\ UNCHANGED <<k, irq, w, chk, left, want, stale>>

\* rt_thread_resume(&timer_thread): a check and two critical sections.
ResumeTimerThread(p) ==
  /\ \/ /\ At(p, "resume")
        /\ Goto(p, IF k.stat[TimerThread] = "SUSPEND" THEN "unlink" ELSE "sched")
        /\ UNCHANGED k
     \/ /\ At(p, "unlink")
        /\ k' = ResumeUnlink(k, TimerThread)
        /\ Goto(p, "insert")
     \/ /\ At(p, "insert")
        /\ k' = rt_schedule_insert_thread(k, TimerThread)
        /\ Goto(p, "sched")
  /\ UNCHANGED <<irq, w, op, chk, left, want, stale>>

StartSchedules(p) ==
  /\ At(p, "sched")
  /\ k' = rt_schedule(k)
  /\ Return(p)
  /\ UNCHANGED <<irq, w, chk, left, want, stale>>

-----------------------------------------------------------------------------
(* rt_timer_stop, called by thread p, which goes on at label ret *)

\* The flag is tested with interrupts enabled.
StopCall(p, t, ret) ==
  /\ IF t \in w.active
     THEN /\ op' = [op EXCEPT ![p] = [timer |-> t, ret |-> ret]]
          /\ Goto(p, "remove")
          /\ UNCHANGED want
     ELSE Goto(p, ret) /\ want' = want \ {t} /\ UNCHANGED op
  /\ UNCHANGED w

StopRemoves(p) ==
  /\ At(p, "remove")
  /\ w' = _rt_timer_remove(w, op[p].timer)
  /\ Goto(p, "clear")
  /\ UNCHANGED <<k, irq, op, chk, left, want, stale>>

\* (defect) the flag is left set
StopKeepsFlag(p) ==
  /\ At(p, "clear")
  /\ want' = want \ {op[p].timer}
  /\ Return(p)
  /\ UNCHANGED <<k, irq, w, chk, left, stale>>

\* The flag is cleared with interrupts enabled again.
StopClears(p) ==
  /\ At(p, "clear")
  /\ w' = Deactivate(w, op[p].timer)
  /\ want' = want \ {op[p].timer}
  /\ Return(p)
  /\ UNCHANGED <<k, irq, chk, left, stale>>

-----------------------------------------------------------------------------
(* Calls by the threads of the application *)

Caller(p) == Calling(p) /\ p # TimerThread

rt_timer_start_call(p, t) ==
  /\ Caller(p) /\ Free(t)
  /\ StartCall(p, t, "run")
  /\ UNCHANGED <<k, irq, chk, left, want, stale>>

rt_timer_stop_call(p, t) ==
  /\ Caller(p) /\ Free(t)
  /\ StopCall(p, t, "run")
  /\ UNCHANGED <<k, irq, chk, left, stale>>

\* SET_TIME, SET_ONESHOT and SET_PERIODIC; a timer that runs keeps its expiry.
rt_timer_control(p, t) ==
  /\ Caller(p)
  /\ \/ \E n \in InitTicks : w' = [w EXCEPT !.init[t] = n]
     \/ w' = [w EXCEPT !.periodic = @ \ {t}]
     \/ w' = [w EXCEPT !.periodic = @ \cup {t}]
  /\ UNCHANGED <<k, irq, pc, op, chk, left, want, stale>>

-----------------------------------------------------------------------------
(* The tick interrupt: rt_tick_increase and rt_timer_check *)

\* Thread p has read the tick and not yet used it.
Holding(p) == pc[p] = "link" \/ (p = TimerThread /\ pc[p] = "delay")

\* A thread that has started a soft timer is on its way to resume the timer thread.
Resuming == \E p \in Thread : pc[p] \in {"look", "resume", "unlink", "insert"}

\* Code is faster than ticks: bounds on what a thread can fall behind.
MayTick ==
  \/ Barred(k.cur)
  \/ /\ \A p \in Thread : Holding(p) => stale[p] < MaxStale
     /\ \A t \in Range(w.list["soft"]) :
          k.stat[TimerThread] = "READY" \/ Resuming => left[t] > -MaxLate

\* Timer t counts down: it is listed, or its expiry has been computed.
Runs(t) == Listed(w, t) \/ \E p \in Thread : Operating(p, t) /\ pc[p] = "link"

TickBegins ==
  /\ MayTick
  /\ TickEnter
  /\ w' = [w EXCEPT !.tick = (@ + 1) % (RT_TICK_MAX + 1)]
  /\ left' = [t \in Timer |-> IF Runs(t) THEN left[t] - 1 ELSE left[t]]
  /\ stale' = [p \in Thread |-> IF Holding(p) THEN stale[p] + 1 ELSE 0]
  /\ UNCHANGED <<pc, op, chk, want>>

HardDue ==
  /\ w.list["hard"] # <<>>
  /\ Expired(w, w.tick, Head(w.list["hard"]))

\* What is wanted of timer t once it has fired: a one-shot timer is done.
WantAfter(t) == IF t \in w.periodic THEN want ELSE want \ {t}

\* What the callback of hard timer t does to hard timer u.
HardCallback(t) ==
  {[do |-> "nothing", u |-> t], [do |-> "stop", u |-> t]}
  \cup {[do |-> "start", u |-> u] : u \in
          {u \in Timer \ w.soft : u # t => Free(u)} \ (IF AnyRestart \/ t \in w.periodic THEN {} ELSE {t})}
  \cup {[do |-> "stop", u |-> u] : u \in {u \in Timer \ w.soft : Free(u)}}

Done(s, c) == CASE c.do = "nothing" -> s
                [] c.do = "start"   -> rt_timer_start_now(s, c.u)
                [] c.do = "stop"    -> rt_timer_stop_now(s, c.u)

\* (defect) the timer is restarted although its callback has stopped it
RestartStopped(s, t) ==
  IF t \in s.periodic THEN rt_timer_start_now(Deactivate(s, t), t) ELSE Deactivate(s, t)

\* After its callback a periodic timer that is still active starts again.
AfterCallback(s, t) ==
  IF t \in s.periodic \cap s.active
  THEN rt_timer_start_now(Deactivate(s, t), t)
  ELSE Deactivate(s, t)

\* The first hard timer, which is due, is taken off the list and its callback runs,
\* all with interrupts disabled.
HardFires(t) ==
  /\ irq = "tick"
  /\ HardDue /\ t = Head(w.list["hard"])
  /\ \E c \in HardCallback(t) :
       /\ w' = AfterCallback(Done(_rt_timer_remove(w, t), c), t)
       /\ want' = CASE c.do = "nothing" -> WantAfter(t)
                    [] c.do = "start"   -> WantAfter(t) \cup {c.u}
                    [] c.do = "stop"    -> WantAfter(t) \ {c.u}
       /\ left' = [u \in Timer |->
                     IF u \notin Range(w'.list["hard"]) THEN (IF u = t THEN 0 ELSE left[u])
                     ELSE IF u = t \/ (c.do = "start" /\ c.u = u) THEN w.init[u] ELSE left[u]]
  /\ UNCHANGED <<k, irq, pc, op, chk, stale>>

ThreadTimerFires ==
  /\ TickTimer
  /\ UNCHANGED <<pc, w, op, chk, left, want, stale>>

TickEnds ==
  /\ TickLeave
  /\ ~HardDue
  /\ UNCHANGED <<pc, w, op, chk, left, want, stale>>

Tick == TickBegins \/ (\E t \in Timer : HardFires(t)) \/ ThreadTimerFires \/ TickEnds

-----------------------------------------------------------------------------
(* The timer thread: rt_thread_timer_entry and rt_soft_timer_check *)

TT == TimerThread

rt_timer_list_next_timeout(list) == IF list = <<>> THEN RT_TICK_MAX ELSE w.due[Head(list)]

\* What it reads of the list; nothing in the model changes the list in between.
LooksForNext ==
  /\ At(TT, "next")
  /\ LET next == rt_timer_list_next_timeout(w.list["soft"])
     IN  IF next = RT_TICK_MAX
         THEN Goto(TT, "suspend") /\ UNCHANGED chk
         ELSE Goto(TT, "now") /\ chk' = [chk EXCEPT !.tick = next]
  /\ UNCHANGED <<k, irq, w, op, left, want, stale>>

SuspendsItself ==
  /\ At(TT, "suspend")
  /\ k' = rt_thread_suspend(k, TT)
  /\ Goto(TT, "suspend_sched")
  /\ UNCHANGED <<irq, w, op, chk, left, want, stale>>

\* (defect) the thread sleeps one tick longer
ReadsTickLate ==
  /\ At(TT, "now")
  /\ LET delta == Minus(chk.tick, w.tick)
     IN  IF delta < Half
         THEN Goto(TT, "delay") /\ chk' = [chk EXCEPT !.tick = delta + 2]
         ELSE Goto(TT, "check") /\ chk' = NoCheck
  /\ stale' = [stale EXCEPT ![TT] = 0]
  /\ UNCHANGED <<k, irq, w, op, left, want>>

\* A timer that is already due is not slept for.
ReadsTick ==
  /\ At(TT, "now")
  /\ LET delta == Minus(chk.tick, w.tick)
     IN  IF delta < Half
         THEN Goto(TT, "delay") /\ chk' = [chk EXCEPT !.tick = delta]
         ELSE Goto(TT, "check") /\ chk' = NoCheck
  /\ stale' = [stale EXCEPT ![TT] = 0]
  /\ UNCHANGED <<k, irq, w, op, left, want>>

\* rt_thread_delay.
Delays ==
  /\ At(TT, "delay")
  /\ k' = Sleep(k, TT, chk.tick)
  /\ chk' = NoCheck
  /\ stale' = [stale EXCEPT ![TT] = 0]
  /\ Goto(TT, "delay_sched")
  /\ UNCHANGED <<irq, w, op, left, want>>

Switches ==
  /\ Reschedule(TT, "suspend_sched", "check") \/ Reschedule(TT, "delay_sched", "delayed")
  /\ UNCHANGED <<w, op, chk, left, want, stale>>

DelayReturns ==
  /\ At(TT, "delayed")
  /\ k' = [k EXCEPT !.error[TT] = IF @ = "ETIMEOUT" THEN "EOK" ELSE @]
  /\ Goto(TT, "check")
  /\ UNCHANGED <<irq, w, op, chk, left, want, stale>>

First(list) == IF list = <<>> THEN End ELSE Head(list)

\* n->next: the entry behind n, the list head behind the last one, and n itself when
\* n is not linked, because rt_list_remove leaves a node pointing to itself.
After(list, n) ==
  IF n \notin Range(list) THEN n
  ELSE LET i == CHOOSE i \in 1 .. Len(list) : list[i] = n
       IN  IF i = Len(list) THEN End ELSE list[i + 1]

CheckBegins ==
  /\ At(TT, "check")
  /\ k' = [k EXCEPT !.lock = @ + 1]
  /\ chk' = [tick |-> w.tick, n |-> First(w.list["soft"]), t |-> End]
  /\ Goto(TT, "loop")
  /\ UNCHANGED <<irq, w, op, left, want, stale>>

rt_exit_critical(s) == rt_schedule([s EXCEPT !.lock = @ - 1])

\* The timer at the cursor is due: the cursor moves on, the timer is taken off the
\* list, and the scheduler is unlocked for the callback.
SoftFires(t) ==
  /\ At(TT, "loop")
  /\ chk.n = t
  /\ Expired(w, chk.tick, t)
  /\ chk' = [chk EXCEPT !.n = After(w.list["soft"], t), !.t = t]
  /\ w' = _rt_timer_remove(w, t)
  /\ want' = WantAfter(t)
  /\ left' = [left EXCEPT ![t] = 0]
  /\ k' = rt_exit_critical(k)
  /\ Goto(TT, "callback")
  /\ UNCHANGED <<irq, op, stale>>

\* What the callback does: nothing, or start or stop a timer.
SoftCallback ==
  /\ At(TT, "callback")
  /\ \/ Goto(TT, "after") /\ UNCHANGED <<w, op, want>>
     \/ \E u \in Timer :
          /\ Free(u)
          /\ u = chk.t => AnyRestart \/ u \in w.periodic
          /\ StartCall(TT, u, "after")
          /\ UNCHANGED want
     \/ \E u \in Timer :
          /\ Free(u)
          /\ u \in w.soft \ {chk.t} => AnyStop
          /\ StopCall(TT, u, "after")
  /\ UNCHANGED <<k, irq, chk, left, stale>>

\* The scheduler is locked again; a periodic timer that is still active starts again.
CallbackReturns ==
  /\ At(TT, "after")
  /\ k' = [k EXCEPT !.lock = @ + 1]
  /\ chk' = [chk EXCEPT !.tick = w.tick, !.t = End]
  /\ IF chk.t \in w.periodic \cap w.active
     THEN StartCall(TT, chk.t, "loop")
     ELSE w' = Deactivate(w, chk.t) /\ Goto(TT, "loop") /\ UNCHANGED op
  /\ UNCHANGED <<irq, left, want, stale>>

CheckEnds ==
  /\ At(TT, "loop")
  /\ chk.n # End => ~Expired(w, chk.tick, chk.n)
  /\ chk' = NoCheck
  /\ k' = rt_exit_critical(k)
  /\ Goto(TT, "next")
  /\ UNCHANGED <<irq, w, op, left, want, stale>>

TimerThreadStep ==
  \/ LooksForNext \/ SuspendsItself \/ ReadsTick \/ Delays \/ Switches \/ DelayReturns
  \/ CheckBegins \/ (\E t \in Timer : SoftFires(t)) \/ SoftCallback \/ CallbackReturns
  \/ CheckEnds

-----------------------------------------------------------------------------
InCall(p) ==
  \/ StartReadsTick(p) \/ StartLinks(p) \/ StartLooks(p) \/ ResumeTimerThread(p)
  \/ StartSchedules(p) \/ StopRemoves(p) \/ StopClears(p)

\* What a thread asks of a timer, itself or with xTimerGenericCommand: all but its
\* deletion.
Service(p) ==
  \E t \in Timer : rt_timer_start_call(p, t) \/ rt_timer_stop_call(p, t) \/ rt_timer_control(p, t)

Next == Tick \/ TimerThreadStep \/ \E p \in Thread : InCall(p) \/ Service(p)

Spec == Init /\ [][Next]_vars

-----------------------------------------------------------------------------
\* The state has the types of struct rt_timer and of the locals of the timer thread.
TypeOK ==
  /\ k \in KernelType
  /\ w \in WType
  /\ left \in [Timer -> Int]
  /\ want \subseteq Timer
  /\ \A c \in DOMAIN w.list : IsInjective(w.list[c])
  /\ chk \in [tick : 0 .. RT_TICK_MAX, n : Timer \cup {End}, t : Timer \cup {End}]

\* When rt_timer_check returns, no hard timer that is due is left in the list, also
\* when its expiry or rt_tick has wrapped, when its expiry was computed before the
\* last tick, and when callbacks have started and stopped timers on the way.
HardOnTime ==
  [][irq = "tick" /\ irq' = "open" => \A t \in Range(w.list["hard"]) : left[t] > 0]_vars

\* While the timer thread sleeps it will wake in time: it sleeps with a time-out that
\* ends at most MaxStale ticks after the expiry of any soft timer, unless a thread
\* that has started that timer is on its way to resume it.
SoftOnTime ==
  k.stat[TT] = "SUSPEND" /\ ~Resuming =>
    \A t \in Range(w.list["soft"]) :
      TT \in Range(k.timers) /\ k.rem[TT] <= left[t] + MaxStale

\* The flag that rt_timer_stop trusts is right: outside rt_timer_start, rt_timer_stop
\* and its own callback, a timer is marked active exactly while it is in its list.
ActiveMeansListed ==
  irq = "open" =>
    \A t \in Timer : Free(t) /\ chk.t # t => (t \in w.active <=> Listed(w, t))

\* A callback runs only when its timer is due, not early, and only if the timer was
\* started and neither stopped (rt_timer_stop: "This function will stop the timer",
\* timer.c:413) nor, being one-shot, fired since.
FiresOnlyWhenWanted ==
  [][\A t \in Timer : HardFires(t) \/ SoftFires(t) => t \in want /\ left[t] <= 0]_vars
=============================================================================
