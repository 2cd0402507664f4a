------------------------------- MODULE Mutex -------------------------------
(***************************************************************************)
(* The mutex of ipc.c: recursive, owned, with priority inheritance.        *)
(* Threads take mutexes, with and without a time-out, release them and     *)
(* sleep, so that threads of every priority get to hold them.              *)
(***************************************************************************)
EXTENDS Ipc

CONSTANTS
  Mutexes,       \* the mutexes, each one named as its wait list
  Flag,          \* RT_IPC_FLAG_FIFO or RT_IPC_FLAG_PRIO
  NoThread,      \* RT_NULL
  MaxHold,       \* bound: how deep one thread takes one mutex
  Times          \* the waiting times: 0, ticks, or Forever

\* What the constants have to satisfy.
ConstantsOK ==
  /\ Mutexes \subseteq Queue
  /\ Flag \in {"FIFO", "PRIO"}
  /\ NoThread \notin Thread
  /\ MaxHold \in 1 .. 255
  /\ Times \subseteq -1 .. MaxTick

VARIABLES
  mtx,     \* the mutex objects
  want,    \* the mutex the pending take of each thread is about
  held     \* history: the takes of each thread that have returned and have not
           \* been released, last one first

vars == <<k, irq, pc, mtx, want, held>>

NoPrio == 255

MutexType ==
  [ value : 0 .. 1,
    owner : Thread \cup {NoThread},
    orig  : Prio \cup {NoPrio},        \* original_priority
    hold  : 0 .. 255 ]

\* rt_mutex_init.
Free == [value |-> 1, owner |-> NoThread, orig |-> NoPrio, hold |-> 0]

Init ==
  /\ k = AllStarted
  /\ irq = "open"
  /\ pc = [t \in Thread |-> "run"]
  /\ mtx = [m \in Mutexes |-> Free]
  /\ want = [t \in Thread |-> CHOOSE m \in Mutexes : TRUE]
  /\ held = [t \in Thread |-> <<>>]

-----------------------------------------------------------------------------
\* The first thread takes a free mutex.
Own(x, t) ==
  [value |-> x.value - 1, owner |-> t, orig |-> k.prio[t], hold |-> (x.hold + 1) % 256]


\* The owner runs at least at the priority of a waiter.
Boost(s, o, t) == IF s.prio[t] < s.prio[o] THEN ChangePriority(s, o, s.prio[t]) ELSE s

rt_mutex_take(t, m, time) ==
  LET x == mtx[m]
      s == [k EXCEPT !.error[t] = "EOK"]
  IN  /\ Calling(t)
      /\ \/ /\ x.owner = t
            /\ x.hold < MaxHold
            /\ mtx' = [mtx EXCEPT ![m].hold = (@ + 1) % 256]
            /\ held' = [held EXCEPT ![t] = <<m>> \o @]
            /\ k' = s
            /\ UNCHANGED <<pc, want>>
         \/ /\ x.owner # t /\ x.value > 0
            /\ mtx' = [mtx EXCEPT ![m] = Own(x, t)]
            /\ held' = [held EXCEPT ![t] = <<m>> \o @]
            /\ k' = s
            /\ UNCHANGED <<pc, want>>
         \/ /\ x.owner # t /\ x.value = 0 /\ time = 0
            /\ k' = [k EXCEPT !.error[t] = "ETIMEOUT"]
            /\ UNCHANGED <<pc, mtx, want, held>>
         \/ /\ x.owner # t /\ x.value = 0 /\ time # 0
            /\ k' = Block(Boost(s, x.owner, t), m, t, Flag, time)
            /\ Goto(t, "take_sched")
            /\ want' = [want EXCEPT ![t] = m]
            /\ UNCHANGED <<mtx, held>>
      /\ UNCHANGED irq

\* rt_mutex_take returns thread->error.
TakeReturn(t) ==
  /\ At(t, "taken")
  /\ held' = IF k.error[t] = "EOK" THEN [held EXCEPT ![t] = <<want[t]>> \o @] ELSE held
  /\ want' = [want EXCEPT ![t] = want[Idle]]
  /\ Goto(t, "run")
  /\ UNCHANGED <<k, irq, mtx>>

-----------------------------------------------------------------------------
\* (defect) the owner keeps the priority it inherited
NoRestore(s, t, p) == s

\* The owner goes back to the priority it had when it took the mutex.
Restore(s, t, p) == IF p # s.prio[t] THEN ChangePriority(s, t, p) ELSE s

\* (defect) the mutex is freed although a waiter is resumed
HandOverFrees(x, u, p) == Free

\* The mutex of a resumed waiter u, whose priority is p.
HandOver(x, u, p) == [x EXCEPT !.owner = u, !.orig = p, !.hold = 1]

rt_mutex_release(t, m) ==
  LET x == mtx[m]
      s == Restore(k, t, x.orig)
      u == Head(s.tl[m])
  IN  /\ Calling(t)
      /\ \/ /\ x.owner # t
            /\ k' = [k EXCEPT !.error[t] = "ERROR"]
            /\ UNCHANGED <<pc, mtx, held>>
         \/ /\ x.owner = t /\ x.hold > 1
            /\ mtx' = [mtx EXCEPT ![m].hold = @ - 1]
            /\ held' = [held EXCEPT ![t] = rt_list_remove(@, m)]
            /\ UNCHANGED <<k, pc>>
         \/ /\ x.owner = t /\ x.hold = 1
            /\ held' = [held EXCEPT ![t] = rt_list_remove(@, m)]
            /\ IF s.tl[m] # <<>>
               THEN /\ k' = rt_ipc_list_resume(s, m)
                    /\ mtx' = [mtx EXCEPT ![m] = HandOver(x, u, s.prio[u])]
                    /\ Goto(t, "sched")
               ELSE /\ k' = s
                    /\ mtx' = [mtx EXCEPT ![m] = Free]
                    /\ UNCHANGED pc
      /\ UNCHANGED <<irq, want>>

-----------------------------------------------------------------------------
CallsSchedule(t) ==
  /\ Reschedule(t, "take_sched", "taken") \/ Reschedule(t, "sched", "run")
  /\ UNCHANGED <<mtx, want, held>>

Sleeps(t) == rt_thread_sleep(t) /\ UNCHANGED <<mtx, want, held>>

Service(t) ==
  \/ \E m \in Mutexes, time \in Times : rt_mutex_take(t, m, time)
  \/ \E m \in Mutexes : rt_mutex_release(t, m)

Tick == rt_tick_increase /\ UNCHANGED <<pc, mtx, want, held>>

Next == Tick \/ \E t \in Thread : CallsSchedule(t) \/ TakeReturn(t) \/ Sleeps(t) \/ Service(t)

Spec == Init /\ [][Next]_vars

-----------------------------------------------------------------------------
\* The state has the types of struct rt_mutex and of the kernel.
TypeOK ==
  /\ k \in KernelType
  /\ irq \in {"open", "tick"}
  /\ pc \in [Thread -> {"run", "take_sched", "taken", "sched", "sleep_sched", "slept"}]
  /\ mtx \in [Mutexes -> MutexType]
  /\ want \in [Thread -> Mutexes]
  /\ held \in [Thread -> Seq(Mutexes)]

Taking == {"take_sched", "taken"}

\* The thread that a release has made owner of m and whose take has not returned.
Granted(t, m) ==
  pc[t] \in Taking /\ want[t] = m /\ k.stat[t] = "READY" /\ k.error[t] = "EOK"

\* How often t holds m, by the returns of its own calls.
Holds(t, m) == Len(SelectSeq(held[t], LAMBDA n : n = m)) + (IF Granted(t, m) THEN 1 ELSE 0)

\* The mutex object and the threads agree on who holds it and how often, whatever
\* time-outs and hand-overs have happened: one owner at most, it is the thread whose
\* takes succeeded, and the mutex is available exactly while nobody holds it.
OwnershipExact ==
  \A m \in Mutexes :
    LET x == mtx[m]
    IN  /\ \A t \in Thread : Holds(t, m) = IF x.owner = t THEN x.hold ELSE 0
        /\ x.owner = NoThread <=> x.hold = 0
        /\ x.value = IF x.owner = NoThread THEN 1 ELSE 0
        /\ x.owner = NoThread => k.tl[m] = <<>>

\* "change the owner thread to original priority" (ipc.c:813): a thread that owns no
\* mutex runs at its own priority, however often it inherited a higher one.
OwnPriority ==
  \A t \in Thread : (\A m \in Mutexes : mtx[m].owner # t) => k.prio[t] = InitPrio[t]


\* The wait list of a mutex holds exactly the threads suspended in rt_mutex_take on
\* it, in the order of the flag, and agrees with the ready lists and timers.
WaitersExact ==
  /\ ListsAgree
  /\ \A t \in Thread, m \in Mutexes :
        Linked(t, m) <=> pc[t] \in Taking /\ want[t] = m /\ k.stat[t] = "SUSPEND"
  /\ Flag = "PRIO" =>
       \A m \in Mutexes : \A i, j \in 1 .. Len(k.tl[m]) :
         i < j => k.prio[k.tl[m][i]] <= k.prio[k.tl[m][j]]
=============================================================================
