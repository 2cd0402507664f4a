----------------------------- MODULE Completion -----------------------------
(***************************************************************************)
(* The completion of completion.c: one thread waits until another thread   *)
(* or an interrupt handler reports that something is done, as the serial   *)
(* driver does for its transmitter.                                        *)
(***************************************************************************)
EXTENDS Waits

CONSTANTS
  Comp,       \* suspended_list
  Waiter      \* the thread that waits; "only one thread can suspend on complete"

\* What the constants have to satisfy.
ConstantsOK == Comp \in Queue /\ Waiter \in Thread

VARIABLES
  completed,   \* flag == RT_COMPLETED
  owed         \* history: done has been called, and no wait has returned RT_EOK since

vars == <<k, irq, pc, wait, completed, owed>>

\* rt_completion_init.
Init ==
  /\ k = AllStarted
  /\ irq = "open"
  /\ pc = [t \in Thread |-> "run"]
  /\ wait = [t \in Thread |-> NoWait]
  /\ completed = FALSE
  /\ owed = FALSE

\* With a waiting time of 0 it returns -RT_ETIMEOUT and leaves the flag alone.
rt_completion_wait(t, time) ==
  /\ Calling(t)
  /\ t = Waiter
  /\ \/ completed /\ completed' = FALSE /\ owed' = FALSE /\ UNCHANGED <<k, pc, wait>>
     \/ ~completed /\ time = 0 /\ UNCHANGED <<k, pc, wait, completed, owed>>
     \/ ~completed /\ time # 0 /\ WaitOn(t, Comp, For(time), "wait_sched")
          /\ UNCHANGED <<completed, owed>>
  /\ UNCHANGED irq

\* It clears the flag, also when it returns the error of a time-out.
WaitReturn(t) ==
  /\ At(t, "waited")
  /\ completed' = FALSE
  /\ owed' = IF k.error[t] = "EOK" THEN FALSE ELSE owed
  /\ NoMoreWait(t)
  /\ Goto(t, "run")
  /\ UNCHANGED <<k, irq>>

\* The flag is tested with interrupts enabled ...
rt_completion_done(t) ==
  /\ Calling(t)
  /\ IF completed THEN owed' = TRUE /\ UNCHANGED pc ELSE Goto(t, "done") /\ UNCHANGED owed
  /\ UNCHANGED <<k, irq, wait, completed>>

\* ... and set with interrupts disabled.
DoneSet(t) ==
  /\ At(t, "done")
  /\ completed' = TRUE
  /\ owed' = TRUE
  /\ Wake(t, Comp)
  /\ UNCHANGED <<irq, wait>>

\* rt_completion_done called by an interrupt handler.
InterruptDone ==
  /\ irq = "open"
  /\ completed' = TRUE
  /\ owed' = TRUE
  /\ IF completed THEN UNCHANGED k ELSE WakeFromInterrupt(Comp)
  /\ UNCHANGED <<irq, pc, wait>>

CallsSchedule(t) ==
  /\ Reschedule(t, "wait_sched", "waited") \/ Reschedule(t, "sched", "run")
  /\ UNCHANGED <<wait, completed, owed>>

Sleeps(t) == rt_thread_sleep(t) /\ UNCHANGED <<wait, completed, owed>>

Next ==
  \/ Tick /\ UNCHANGED <<completed, owed>>
  \/ InterruptDone
  \/ \E t \in Thread :
       \/ \E time \in Times : rt_completion_wait(t, time)
       \/ rt_completion_done(t)
       \/ WaitReturn(t)
       \/ DoneSet(t)
       \/ CallsSchedule(t)
       \/ Sleeps(t)

Spec == Init /\ [][Next]_vars

-----------------------------------------------------------------------------
\* The state has the types of struct rt_completion and of the kernel.
TypeOK ==
  /\ k \in KernelType
  /\ pc \in [Thread -> {"run", "sched", "wait_sched", "waited", "done",
                        "sleep_sched", "slept"}]
  /\ wait \in [Thread -> WaitType]
  /\ completed \in BOOLEAN
  /\ owed \in BOOLEAN

InWait(t) == pc[t] \in {"wait_sched", "waited"}

\* A report is not lost: it is in the flag until a wait returns for it, and nobody
\* sleeps while it is there, however waiting, reporting threads and interrupts
\* interleave; only without time-outs, see WaitReturn.
NoLostWakeup ==
  /\ owed <=> completed
  /\ completed => k.tl[Comp] = <<>>

\* suspended_list holds exactly the thread suspended in rt_completion_wait.
WaitersExact ==
  /\ ListsAgree
  /\ \A t \in Thread : Linked(t, Comp) <=> InWait(t) /\ k.stat[t] = "SUSPEND"
=============================================================================
