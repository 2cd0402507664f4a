----------------------------- MODULE ThreadLife -----------------------------
(***************************************************************************)
(* The life of a thread object: rt_thread_create or rt_thread_init,        *)
(* startup, exit, rt_thread_delete or rt_thread_detach, and the reclaiming *)
(* of defunct threads by the idle thread.  A thread is "dynamic", with its *)
(* object and stack on the heap, or a system object in memory of the       *)
(* caller: "static", or "cleanup" if it has a cleanup function that gives  *)
(* this memory back, as POSIX threads have.                                *)
(*                                                                         *)
(* rt_thread_delete and rt_thread_detach are four steps, each with         *)
(* interrupts disabled, and a tick may come between any two of them.       *)
(***************************************************************************)
EXTENDS Threads

CONSTANTS
  Main,           \* the thread that creates, starts and deletes the others
  SelfDelete,     \* the threads that call vTaskDelete(NULL)
  TimedDelete     \* whether Main deletes threads that are asleep on a timer

ASSUME LifeAssumption ==
  /\ Main \in Thread \ {Idle}
  /\ InitPrio[Main] < InitPrio[Idle]
  /\ SelfDelete \subseteq Thread
  /\ TimedDelete \in BOOLEAN

VARIABLES
  obj,        \* the kind of thread object in each place, "none" if the memory is free
  listed,     \* the threads in the object container of class Thread
  arg         \* the thread the call of each thread is about

vars == <<k, irq, pc, obj, listed, arg>>

Kind == {"dynamic", "static", "cleanup"}

Workers == Thread \ {Main, Idle}

Init ==
  /\ k = [ tl     |-> [l \in List |-> CASE l = InitPrio[Main] -> <<Main>>
                                            [] l = InitPrio[Idle] -> <<Idle>>
                                            [] OTHER -> <<>>],
           group  |-> {InitPrio[Main], InitPrio[Idle]},
           stat   |-> [t \in Thread |-> IF t \in Workers THEN "CLOSE" ELSE "READY"],
           prio   |-> InitPrio,
           error  |-> [t \in Thread |-> "EOK"],
           slice  |-> [t \in Thread |-> Slice],
           timers |-> <<>>,
           rem    |-> [t \in Thread |-> 0],
           cur    |-> Main,
           lock   |-> 0 ]
  /\ irq = "open"
  /\ pc = [t \in Thread |-> "run"]
  /\ obj = [t \in Thread |-> IF t \in Workers THEN "none" ELSE "static"]
  /\ listed = {Main, Idle}
  /\ arg = [t \in Thread |-> t]

Forget(t) == arg' = [arg EXCEPT ![t] = t]

\* The memory of thread u is given back, and nothing in it counts any more.
Vanish(u) == obj' = [obj EXCEPT ![u] = "none"]

\* The memory of thread u may be used again: it has been given back, or u is a static
\* thread, closed and detached, and the processor has left its stack.
Gone(u) ==
  \/ obj[u] = "none"
  \/ obj[u] = "static" /\ k.stat[u] = "CLOSE" /\ u \notin listed /\ k.cur # u

-----------------------------------------------------------------------------
(* Main creates and starts threads *)

\* rt_thread_create, or rt_thread_init for a system object: _rt_thread_init fills in
\* the object, which nobody else can reach yet.
rt_thread_create(u, kind) ==
  /\ At(Main, "run")
  /\ Gone(u)
  /\ obj' = [obj EXCEPT ![u] = kind]
  /\ listed' = listed \cup {u}
  /\ k' = [k EXCEPT !.stat[u] = "INIT", !.prio[u] = InitPrio[u],
                    !.error[u] = "EOK", !.slice[u] = Slice]
  /\ pc' = [pc EXCEPT ![u] = "run"]
  /\ UNCHANGED <<irq, arg>>

\* rt_thread_startup sets the thread up as suspended and resumes it.
rt_thread_startup(u) ==
  /\ At(Main, "run")
  /\ obj[u] \in Kind /\ k.stat[u] = "INIT"
  /\ k' = ResumeUnlink([k EXCEPT !.prio[u] = InitPrio[u], !.stat[u] = "SUSPEND"], u)
  /\ Goto(Main, "insert")
  /\ arg' = [arg EXCEPT ![Main] = u]
  /\ UNCHANGED <<irq, obj, listed>>

StartupInsert ==
  /\ At(Main, "insert")
  /\ k' = rt_schedule_insert_thread(k, arg[Main])
  /\ Goto(Main, "sched")
  /\ Forget(Main)
  /\ UNCHANGED <<irq, obj, listed>>

-----------------------------------------------------------------------------
(* Threads wait, and end *)

\* rt_thread_sleep for one tick.
SleepCall(t) ==
  /\ At(t, "run") /\ t # Idle
  /\ k' = Sleep(k, t, 1)
  /\ Goto(t, "sched")
  /\ UNCHANGED <<irq, obj, listed, arg>>

\* rt_thread_suspend on oneself, without a timer.
SuspendCall(t) ==
  /\ At(t, "run") /\ t \in Workers
  /\ k' = rt_thread_suspend(k, t)
  /\ Goto(t, "sched")
  /\ UNCHANGED <<irq, obj, listed, arg>>

Bury(s, t) == [s EXCEPT !.tl[Defunct] = <<t>> \o @]

\* (defect) the object goes back before the last switch away from the thread
ExitVanishes(t) ==
  /\ At(t, "run") /\ t \in Workers
  /\ k' = [rt_timer_stop(rt_schedule_remove_thread(k, t), t) EXCEPT !.stat[t] = "CLOSE"]
  /\ listed' = listed \ {t} /\ Vanish(t)
  /\ Goto(t, "sched")
  /\ UNCHANGED <<irq, arg>>

\* rt_thread_exit, where the entry function of the thread returns to.  A static
\* thread is only detached.
rt_thread_exit(t) ==
  /\ At(t, "run") /\ t \in Workers
  /\ LET closed == [rt_timer_stop(rt_schedule_remove_thread(k, t), t) EXCEPT !.stat[t] = "CLOSE"]
     IN  IF obj[t] = "static"
         THEN k' = closed /\ listed' = listed \ {t}
         ELSE k' = Bury(closed, t) /\ UNCHANGED listed
  /\ Goto(t, "sched")
  /\ UNCHANGED <<irq, obj, arg>>

\* rt_schedule, the last call of every service.  A thread that is not ready does not
\* come back from it until it is; a closed thread never does.
Reschedule(t) ==
  /\ At(t, "sched")
  /\ k' = rt_schedule(k)
  /\ Goto(t, "run")
  /\ UNCHANGED <<irq, obj, listed, arg>>

-----------------------------------------------------------------------------
(* rt_thread_delete for dynamic threads, rt_thread_detach for static ones *)

\* Who may be deleted: by Main any thread that has not ended, by itself a thread of
\* SelfDelete.
Deletable(t, u) ==
  /\ obj[u] \in Kind /\ k.stat[u] # "CLOSE"
  /\ \/ t = Main /\ u \in Workers /\ (TimedDelete \/ u \notin Range(k.timers))
     \/ t = u /\ u \in SelfDelete \cap Workers

\* (defect) the thread is not taken off its ready list
DeleteKeepsReady(t, u) ==
  /\ At(t, "run") /\ Deletable(t, u)
  /\ Goto(t, "detach_timer")
  /\ arg' = [arg EXCEPT ![t] = u]
  /\ UNCHANGED <<k, irq, obj, listed>>

\* A thread that was started is removed from its ready list, or wait list.
DeleteRemove(t, u) ==
  /\ At(t, "run") /\ Deletable(t, u)
  /\ k' = IF k.stat[u] = "INIT" THEN k ELSE rt_schedule_remove_thread(k, u)
  /\ Goto(t, "detach_timer")
  /\ arg' = [arg EXCEPT ![t] = u]
  /\ UNCHANGED <<irq, obj, listed>>

\* rt_timer_detach, and stat = RT_THREAD_CLOSE.
DeleteClose(t) ==
  /\ At(t, "detach_timer")
  /\ k' = [rt_timer_stop(k, arg[t]) EXCEPT !.stat[arg[t]] = "CLOSE"]
  /\ Goto(t, IF obj[arg[t]] = "dynamic" THEN "bury" ELSE "detach_object")
  /\ UNCHANGED <<irq, obj, listed, arg>>

\* rt_thread_detach only: without cleanup this was the last step.
DetachObject(t) ==
  /\ At(t, "detach_object")
  /\ listed' = listed \ {arg[t]}
  /\ IF obj[arg[t]] = "cleanup"
     THEN Goto(t, "bury") /\ UNCHANGED arg
     ELSE Goto(t, "sched") /\ Forget(t)
  /\ UNCHANGED <<k, irq, obj>>

\* The thread is put on the defunct list; the caller, vTaskDelete, reschedules.
DeleteBury(t) ==
  /\ At(t, "bury")
  /\ k' = Bury(k, arg[t])
  /\ Goto(t, "sched")
  /\ Forget(t)
  /\ UNCHANGED <<irq, obj, listed>>

-----------------------------------------------------------------------------
(* idle.c *)

\* (defect) the entry that is reclaimed stays on the list
IdleKeepsEntry ==
  /\ At(Idle, "run") /\ k.tl[Defunct] # <<>>
  /\ LET u == Head(k.tl[Defunct])
     IN  IF obj[u] = "cleanup"
         THEN Vanish(u) /\ listed' = listed \ {u} /\ UNCHANGED <<pc, arg>>
         ELSE Goto(Idle, "free") /\ arg' = [arg EXCEPT ![Idle] = u] /\ UNCHANGED <<obj, listed>>
  /\ UNCHANGED <<k, irq>>

\* rt_thread_idle_excute up to where it enables interrupts: a defunct thread is taken
\* off the list and its cleanup called.  That ends a system object, whose cleanup
\* detaches it, as _pthread_cleanup does.
IdleTake ==
  /\ At(Idle, "run") /\ k.tl[Defunct] # <<>>
  /\ LET u == Head(k.tl[Defunct])
     IN  /\ k' = [k EXCEPT !.tl[Defunct] = rt_list_remove(@, u)]
         /\ IF obj[u] = "cleanup"
            THEN Vanish(u) /\ listed' = listed \ {u} /\ UNCHANGED <<pc, arg>>
            ELSE Goto(Idle, "free") /\ arg' = [arg EXCEPT ![Idle] = u] /\ UNCHANGED <<obj, listed>>
  /\ UNCHANGED irq

\* (defect) the idle thread waits until somebody else has detached the object
IdleWaits ==
  /\ At(Idle, "free")
  /\ arg[Idle] \notin listed
  /\ Vanish(arg[Idle])
  /\ Goto(Idle, "run")
  /\ Forget(Idle)
  /\ UNCHANGED <<k, irq, listed>>

\* The stack is freed, and rt_object_delete unlinks and frees the object.
IdleFree ==
  /\ At(Idle, "free")
  /\ listed' = listed \ {arg[Idle]}
  /\ Vanish(arg[Idle])
  /\ Goto(Idle, "run")
  /\ Forget(Idle)
  /\ UNCHANGED <<k, irq>>

-----------------------------------------------------------------------------
Tick == rt_tick_increase /\ UNCHANGED <<pc, obj, listed, arg>>

\* The steps inside a call, and of the loop of the idle thread.
InCall(t) ==
  \/ Reschedule(t) \/ DeleteClose(t) \/ DetachObject(t) \/ DeleteBury(t)
  \/ t = Main /\ StartupInsert
  \/ t = Idle /\ (IdleTake \/ IdleFree)

Next ==
  \/ Tick
  \/ \E u \in Workers : (\E kind \in Kind : rt_thread_create(u, kind)) \/ rt_thread_startup(u)
  \/ \E t \in Thread :
       \/ SleepCall(t) \/ SuspendCall(t) \/ rt_thread_exit(t) \/ InCall(t)
       \/ \E u \in Thread : DeleteRemove(t, u)

Spec == Init /\ [][Next]_vars

\* Ticks keep coming, and the processor executes the code of the current thread.
FairSpec ==
  /\ Spec
  /\ WF_vars(Tick)
  /\ \A t \in Thread : SF_vars(InCall(t))

-----------------------------------------------------------------------------
Label == {"run", "sched", "insert", "detach_timer", "detach_object", "bury", "free"}

\* The kernel and the thread objects have their types.
TypeOK ==
  /\ k \in KernelType
  /\ irq \in {"open", "tick"}
  /\ pc \in [Thread -> Label]
  /\ obj \in [Thread -> Kind \cup {"none"}]
  /\ listed \in SUBSET Thread
  /\ arg \in [Thread -> Thread]

\* No pointer outlives its thread.  Once its memory has been given back, a thread is
\* not running, is on no ready, wait or defunct list, has no timer in the timer
\* list, and is not an object of the container.
NoDanglingThread ==
  \A u \in Thread :
    Gone(u) =>
      /\ k.cur # u
      /\ \A l \in List : ~Linked(u, l)
      /\ u \notin Range(k.timers)
      /\ u \notin listed

\* Someone is in charge of the remains of u: the defunct list, the idle thread, a
\* call of rt_thread_delete or rt_thread_detach, or u itself until it switches away.
InCharge(u) ==
  \/ Linked(u, Defunct)
  \/ \E t \in Thread \ {u} : arg[t] = u
  \/ k.cur = u

\* No thread object is leaked, and none is reclaimed twice: a closed thread whose
\* memory is not back yet is in the charge of someone, and once on the defunct list.
ClosedAccounted ==
  /\ \A u \in Thread : ~Gone(u) /\ k.stat[u] = "CLOSE" => InCharge(u)
  /\ IsInjective(k.tl[Defunct])
  /\ \A u \in Range(k.tl[Defunct]) : k.stat[u] = "CLOSE" /\ arg[Idle] # u

\* A thread that has been closed is never scheduled again: rt_thread_delete "will be
\* removed from thread queue" (thread.c:385).
ClosedNeverReady ==
  \A u \in Thread, p \in Prio : k.stat[u] = "CLOSE" => ~Linked(u, p)

\* While rt_thread_delete or rt_thread_detach is at work on thread u.
BeingDeleted(u) == \E t \in Thread : pc[t] \in {"detach_timer", "detach_object", "bury"} /\ arg[t] = u

\* A deleted thread is reclaimed, as rt_thread_delete says: "deleted from system object
\* management in the idle thread" (thread.c:386), if the idle thread gets to the end of
\* the defunct list again and again.
DeletedIsReclaimed ==
  []<>(k.cur = Idle /\ k.tl[Defunct] = <<>>) => \A u \in Workers : BeingDeleted(u) ~> Gone(u)
=============================================================================
