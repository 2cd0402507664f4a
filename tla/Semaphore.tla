----------------------------- MODULE Semaphore -----------------------------
(***************************************************************************)
(* The counting semaphore of ipc.c: take, release, reset, delete and       *)
(* re-creation, called by threads, and release called by an interrupt      *)
(* handler, under the tick interrupt that ends timed waits.                *)
(***************************************************************************)
EXTENDS Ipc, FiniteSets

CONSTANTS
  Sem,           \* the wait list of the semaphore
  Flag,          \* RT_IPC_FLAG_FIFO or RT_IPC_FLAG_PRIO
  InitValue,     \* the value the semaphore is created with
  MaxValue,      \* bound: no release at or above this value
  Times,         \* the waiting times: 0, ticks, or Forever
  Calls,         \* which operations the threads call
  TimedDelete    \* may the semaphore be deleted under a waiter with a time-out?

ASSUME SemaphoreAssumption ==
  /\ Queue = {Sem}
  /\ Flag \in {"FIFO", "PRIO"}
  /\ MaxValue \in 1 .. 65535
  /\ InitValue \in 0 .. MaxValue
  /\ Times \subseteq -1 .. MaxTick
  /\ TimedDelete \in BOOLEAN

VARIABLES
  value,     \* sem->value
  life,      \* "live", "deleting", "gone"
  supply     \* history: tokens put in and not yet returned by a take

vars == <<k, irq, pc, value, life, supply>>

\* The labels of a thread inside rt_sem_take.
Taking == {"take_sched", "taken"}

\* Threads that a release has resumed and whose take has not returned yet.
Granted == {t \in Thread : pc[t] \in Taking /\ k.stat[t] = "READY" /\ k.error[t] = "EOK"}

Waiters == k.tl[Sem]

Init ==
  /\ k = AllStarted
  /\ irq = "open"
  /\ pc = [t \in Thread |-> "run"]
  /\ value = InitValue
  /\ life = "live"
  /\ supply = InitValue

May(t, c) == Calling(t) /\ c \in Calls

-----------------------------------------------------------------------------
\* With a waiting time of 0 and no token it returns -RT_ETIMEOUT and changes nothing.
rt_sem_take(t, time) ==
  /\ May(t, "take")
  /\ life = "live"
  /\ IF value > 0
     THEN value' = value - 1 /\ supply' = supply - 1 /\ UNCHANGED <<k, pc>>
     ELSE /\ IF time = 0
             THEN UNCHANGED <<k, pc>>
             ELSE k' = Block(k, Sem, t, Flag, time) /\ Goto(t, "take_sched")
          /\ UNCHANGED <<value, supply>>
  /\ UNCHANGED <<irq, life>>

\* rt_sem_take returns thread->error: EOK means it has a token.
TakeReturn(t) ==
  /\ At(t, "taken")
  /\ supply' = IF k.error[t] = "EOK" THEN supply - 1 ELSE supply
  /\ Goto(t, "run")
  /\ UNCHANGED <<k, irq, value, life>>

\* (defect) the value is raised although a waiter has been resumed
PutTwice ==
  /\ life = "live"
  /\ value < MaxValue
  /\ value' = (value + 1) % 65536
  /\ supply' = supply + 1

\* The token goes to the first waiter or to sem->value, a 16-bit counter.
Put ==
  /\ life = "live"
  /\ value < MaxValue
  /\ value' = IF Waiters = <<>> THEN (value + 1) % 65536 ELSE value
  /\ supply' = supply + 1

rt_sem_release(t) ==
  /\ May(t, "release")
  /\ Put
  /\ IF Waiters = <<>> THEN UNCHANGED <<k, pc>>
                       ELSE k' = rt_ipc_list_resume(k, Sem) /\ Goto(t, "sched")
  /\ UNCHANGED <<irq, life>>

\* rt_sem_release called by an interrupt handler: nothing runs before its rt_schedule.
InterruptRelease ==
  /\ irq = "open"
  /\ Put
  /\ k' = IF Waiters = <<>> THEN k ELSE rt_schedule(rt_ipc_list_resume(k, Sem))
  /\ UNCHANGED <<irq, pc, life>>

Refill(v) == value' = v /\ supply' = v + Cardinality(Granted)

\* (defect) the waiters are left on the list
ResetKeepsWaiters(t, v) ==
  /\ May(t, "reset")
  /\ life = "live"
  /\ Refill(v)
  /\ Goto(t, "sched")
  /\ UNCHANGED <<k, irq, life>>

\* rt_sem_control(sem, RT_IPC_CMD_RESET, v): the waiters return -RT_ERROR.
rt_sem_control(t, v) ==
  /\ May(t, "reset")
  /\ life = "live"
  /\ k' = rt_ipc_list_resume_all(k, Sem)
  /\ Refill(v)
  /\ Goto(t, "sched")
  /\ UNCHANGED <<irq, life>>

-----------------------------------------------------------------------------
\* rt_sem_delete and rt_sem_detach.  The caller sees to it that no thread starts an
\* operation on the semaphore from here on.
rt_sem_delete(t) ==
  /\ May(t, "delete")
  /\ life = "live"
  /\ TimedDelete \/ Range(Waiters) \cap Range(k.timers) = {}
  /\ life' = "deleting"
  /\ Goto(t, "wake_test")
  /\ UNCHANGED <<k, irq, value, supply>>

\* (defect) only the first waiter is woken
WakeFirst(t) ==
  /\ At(t, "wake_test")
  /\ IF Waiters # <<>> /\ life = "deleting"
     THEN k' = ResumeWithError(k, Head(Waiters)) ELSE UNCHANGED k
  /\ life' = "gone"
  /\ Goto(t, "run")
  /\ UNCHANGED <<irq, value, supply>>


\* rt_ipc_list_resume_all tests the list with interrupts enabled; when it is empty
\* the object is deleted ...
WakeTest(t) ==
  /\ At(t, "wake_test")
  /\ IF Waiters # <<>> THEN Goto(t, "wake") /\ UNCHANGED life
                       ELSE Goto(t, "run") /\ life' = "gone"
  /\ UNCHANGED <<k, irq, value, supply>>

\* ... and takes its first entry with interrupts disabled.
WakeNext(t) ==
  /\ At(t, "wake")
  /\ Waiters # <<>>
  /\ k' = ResumeWithError(k, Head(Waiters))
  /\ Goto(t, "wake_test")
  /\ UNCHANGED <<irq, value, life, supply>>

\* rt_sem_init and rt_sem_create.
rt_sem_init(t) ==
  /\ May(t, "delete")
  /\ life = "gone"
  /\ life' = "live"
  /\ Refill(InitValue)
  /\ UNCHANGED <<k, irq, pc>>

-----------------------------------------------------------------------------
CallsSchedule(t) ==
  /\ Reschedule(t, "take_sched", "taken") \/ Reschedule(t, "sched", "run")
  /\ UNCHANGED <<value, life, supply>>

InCall(t) == CallsSchedule(t) \/ TakeReturn(t) \/ WakeTest(t) \/ WakeNext(t)

Service(t) ==
  \/ \E time \in Times : rt_sem_take(t, time)
  \/ rt_sem_release(t)
  \/ \E v \in 0 .. MaxValue : rt_sem_control(t, v)
  \/ rt_sem_delete(t)
  \/ rt_sem_init(t)

Tick == rt_tick_increase /\ UNCHANGED <<pc, value, life, supply>>

Next == Tick \/ InterruptRelease \/ \E t \in Thread : InCall(t) \/ Service(t)

Spec == Init /\ [][Next]_vars

\* Ticks keep coming, a running thread makes progress in its call, and the device
\* whose handler releases the semaphore interrupts again and again.
Fairness ==
  /\ WF_vars(Tick)
  /\ SF_vars(InterruptRelease)
  /\ \A t \in Thread : SF_vars(InCall(t))

FairSpec == Spec /\ Fairness

-----------------------------------------------------------------------------
\* The state has the types of struct rt_semaphore and of the kernel.
TypeOK ==
  /\ k \in KernelType
  /\ irq \in {"open", "tick"}
  /\ pc \in [Thread -> {"run", "take_sched", "taken", "sched", "wake_test", "wake"}]
  /\ value \in 0 .. MaxValue
  /\ life \in {"live", "deleting", "gone"}
  /\ supply \in Nat

\* Tokens are neither lost nor made: what has been released and not yet taken is in
\* sem->value or on its way to a thread that rt_sem_release has resumed, even when
\* the time-out of that thread, a reset or another release comes before it runs.
TokensConserved == life = "live" => supply = value + Cardinality(Granted)

\* No thread sleeps beside a token: rt_sem_take waits only at value 0 and
\* rt_sem_release raises the value only when nobody waits.
NoSleepBesideToken == value > 0 => Waiters = <<>>

\* The wait list holds exactly the threads suspended in rt_sem_take, those of higher
\* priority first when the flag is RT_IPC_FLAG_PRIO, and agrees with the ready lists
\* and timers: a time-out, a release and a reset each take a waiter off all of them.
\* All state keeps its type.
WaitersExact ==
  /\ TypeOK
  /\ ListsAgree
  /\ \A t \in Thread : Linked(t, Sem) <=> pc[t] \in Taking /\ k.stat[t] = "SUSPEND"
  /\ Flag = "PRIO" =>
       \A i, j \in 1 .. Len(Waiters) : i < j => k.prio[Waiters[i]] <= k.prio[Waiters[j]]

\* Once rt_sem_delete has returned, no thread is left waiting on the freed object.
DeleteWakesAll == life = "gone" => \A t \in Thread : k.stat[t] # "SUSPEND"


\* Under RT_IPC_FLAG_FIFO, while releases keep coming, every waiter is resumed.
WaiterServed == \A t \in Thread : Linked(t, Sem) ~> k.stat[t] = "READY"
=============================================================================
