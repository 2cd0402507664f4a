----------------------------- MODULE WorkQueue ------------------------------
(***************************************************************************)
(* The work queue of workqueue.c: clients hand works to one worker thread, *)
(* which suspends itself while there are none.  A client may cancel a work *)
(* and, if it is being done, wait for its end.                             *)
(***************************************************************************)
EXTENDS Ipc

CONSTANTS
  Work, NoWork,    \* the works
  Wild,            \* what the worker takes from an empty list
  Worker,          \* work_thread
  Sem,             \* the wait list of the semaphore sem, whose value stays 0
  AnyClient        \* FALSE: clients call one after the other; a client may wait for
                   \* the end of a work while others call

\* What the constants have to satisfy.
ConstantsOK ==
  /\ Sem \in Queue
  /\ {NoWork, Wild} \cap Work = {}
  /\ Worker \in Thread \ {Idle}

VARIABLES
  works,      \* work_list
  current,    \* work_current
  arg,        \* the work each pending call is about
  ended       \* history: since each pending rt_workqueue_cancel_work_sync began, its
              \* work has not been handed in again

vars == <<k, irq, pc, works, current, arg, ended>>

Client == Thread \ {Idle, Worker}

\* rt_workqueue_create: the worker is about to look at the empty list.
Init ==
  /\ k = AllStarted
  /\ irq = "open"
  /\ pc = [t \in Thread |-> IF t = Worker THEN "look" ELSE "run"]
  /\ works = <<>>
  /\ current = NoWork
  /\ arg = [t \in Thread |-> NoWork]
  /\ ended = [t \in Thread |-> TRUE]

-----------------------------------------------------------------------------
Calls(t) ==
  /\ Calling(t)
  /\ t \in Client
  /\ AnyClient \/ \A u \in Client : pc[u] \notin {"resume", "sched"}

\* rt_workqueue_dowork and rt_workqueue_critical_work, which do the same: the work
\* goes to the end of the list; the worker is resumed with interrupts enabled.
rt_workqueue_dowork(t, x) ==
  /\ Calls(t)
  /\ x # current
  /\ works' = Append(rt_list_remove(works, x), x)
  /\ ended' = [u \in Thread |-> ended[u] /\ arg[u] # x]
  /\ IF current = NoWork THEN Goto(t, "resume") ELSE UNCHANGED pc
  /\ UNCHANGED <<k, irq, current, arg>>

ResumeWorker(t) ==
  /\ At(t, "resume")
  /\ k' = rt_thread_resume(k, Worker)
  /\ Goto(t, "sched")
  /\ UNCHANGED <<irq, works, current, arg, ended>>

rt_workqueue_cancel_work(t, x) ==
  /\ Calls(t)
  /\ x # current
  /\ works' = rt_list_remove(works, x)
  /\ UNCHANGED <<k, irq, pc, current, arg, ended>>

\* (defect) a work that is being done is not waited for
SyncNoWait(t, x) ==
  /\ Calls(t)
  /\ works' = rt_list_remove(works, x)
  /\ Goto(t, "synced")
  /\ arg' = [arg EXCEPT ![t] = x]
  /\ ended' = [ended EXCEPT ![t] = TRUE]
  /\ UNCHANGED <<k, irq, current>>

\* If the work is being done, the client sleeps on the semaphore.
rt_workqueue_cancel_work_sync(t, x) ==
  /\ Calls(t)
  /\ IF x = current
     THEN k' = Block(k, Sem, t, "FIFO", Forever) /\ Goto(t, "sync_sched") /\ UNCHANGED works
     ELSE works' = rt_list_remove(works, x) /\ Goto(t, "synced") /\ UNCHANGED k
  /\ arg' = [arg EXCEPT ![t] = x]
  /\ ended' = [ended EXCEPT ![t] = TRUE]
  /\ UNCHANGED <<irq, current>>

SyncReturn(t) ==
  /\ At(t, "synced")
  /\ Goto(t, "run")
  /\ arg' = [arg EXCEPT ![t] = NoWork]
  /\ ended' = [ended EXCEPT ![t] = TRUE]
  /\ UNCHANGED <<k, irq, works, current>>

rt_workqueue_cancel_all_work(t) ==
  /\ Calls(t)
  /\ works' = <<>>
  /\ Goto(t, "sched")
  /\ UNCHANGED <<k, irq, current, arg, ended>>

-----------------------------------------------------------------------------
\* The loop of _workqueue_thread_entry.  The list is looked at with interrupts
\* enabled ...
Look ==
  /\ At(Worker, "look")
  /\ Goto(Worker, IF works = <<>> THEN "suspend" ELSE "take")
  /\ UNCHANGED <<k, irq, works, current, arg, ended>>

Suspend ==
  /\ At(Worker, "suspend")
  /\ k' = rt_thread_suspend(k, Worker)
  /\ Goto(Worker, "wait")
  /\ UNCHANGED <<irq, works, current, arg, ended>>

\* ... and after the worker has been resumed it is not looked at again.
Take ==
  /\ At(Worker, "take")
  /\ current' = IF works = <<>> THEN Wild ELSE Head(works)
  /\ works' = IF works = <<>> THEN works ELSE Tail(works)
  /\ Goto(Worker, "work")
  /\ UNCHANGED <<k, irq, arg, ended>>

\* A work function may sleep, or hand in another work ...
WorkSleeps ==
  /\ At(Worker, "work") /\ current \in Work
  /\ k' = Sleep(k, Worker, 1)
  /\ Goto(Worker, "sleep")
  /\ UNCHANGED <<irq, works, current, arg, ended>>

WorkHandsIn(x) ==
  /\ At(Worker, "work") /\ current \in Work
  /\ x # current
  /\ works' = Append(rt_list_remove(works, x), x)
  /\ ended' = [u \in Thread |-> ended[u] /\ arg[u] # x]
  /\ UNCHANGED <<k, irq, pc, current, arg>>

\* ... and ends.
WorkEnds ==
  /\ At(Worker, "work") /\ current \in Work
  /\ current' = NoWork
  /\ Goto(Worker, "ack")
  /\ UNCHANGED <<k, irq, works, arg, ended>>

\* _workqueue_work_completion: with the scheduler locked the semaphore is released
\* until it can be taken again, so every client that waits is resumed.
Acknowledge ==
  /\ At(Worker, "ack")
  /\ LET s == k.tl[Sem]
         woken[n \in 0 .. Len(s)] == IF n = 0 THEN k ELSE rt_ipc_list_resume(woken[n - 1], Sem)
     IN  k' = rt_schedule(woken[Len(s)])
  /\ Goto(Worker, "look")
  /\ UNCHANGED <<irq, works, current, arg, ended>>

CallsSchedule(t) ==
  /\ \/ Reschedule(t, "sched", "run")
     \/ Reschedule(t, "sync_sched", "synced")
     \/ Reschedule(t, "wait", "take")
     \/ Reschedule(t, "sleep", "work")
  /\ UNCHANGED <<works, current, arg, ended>>

\* Clients sleep, so that those of lower priority get to call.
Sleeps(t) == t \in Client /\ rt_thread_sleep(t) /\ UNCHANGED <<works, current, arg, ended>>

WorkerStep == Look \/ Suspend \/ Take \/ WorkSleeps \/ WorkEnds \/ Acknowledge

Tick == rt_tick_increase /\ UNCHANGED <<pc, works, current, arg, ended>>

Next ==
  \/ Tick
  \/ WorkerStep
  \/ \E x \in Work : WorkHandsIn(x)
  \/ \E t \in Thread :
       \/ \E x \in Work :
            \/ rt_workqueue_dowork(t, x)
            \/ rt_workqueue_cancel_work(t, x)
            \/ rt_workqueue_cancel_work_sync(t, x)
       \/ rt_workqueue_cancel_all_work(t)
       \/ ResumeWorker(t) \/ SyncReturn(t) \/ CallsSchedule(t) \/ Sleeps(t)

Spec == Init /\ [][Next]_vars

-----------------------------------------------------------------------------
\* The state has the types of struct rt_workqueue and of the kernel.
TypeOK ==
  /\ k \in KernelType
  /\ pc \in [Thread -> {"run", "sched", "resume", "sync_sched", "synced", "look",
                        "suspend", "wait", "take", "work", "sleep", "ack",
                        "sleep_sched", "slept"}]
  /\ works \in Seq(Work)
  /\ current \in Work \cup {NoWork, Wild}
  /\ arg \in [Thread -> Work \cup {NoWork}]
  /\ ended \in [Thread -> BOOLEAN]

\* "we have work to do with" (workqueue.c:79): the worker never takes a work from an
\* empty list, though it does not look again after it has been resumed.
HasWork == current # Wild

\* No work is left lying: while the list has works the worker is not suspended for
\* want of work, unless a client is about to resume it.
NoLostWakeup ==
  works # <<>> /\ pc[Worker] \in {"suspend", "wait", "take"} /\ k.stat[Worker] = "SUSPEND" =>
    \E t \in Client : pc[t] = "resume"

\* When rt_workqueue_cancel_work_sync returns, the work is neither in the list nor
\* being done, unless it has been handed in again.
CancelHolds ==
  \A t \in Client :
    pc[t] = "synced" /\ k.stat[t] = "READY" /\ ended[t] =>
      arg[t] # current /\ arg[t] \notin Range(works)

\* The semaphore's list holds exactly the clients that wait for the end of a work.
WaitersExact ==
  /\ ListsAgree
  /\ IsInjective(works)
  /\ current \notin Range(works)
  /\ \A t \in Thread :
       Linked(t, Sem) <=> pc[t] \in {"sync_sched", "synced"} /\ k.stat[t] = "SUSPEND"
=============================================================================
