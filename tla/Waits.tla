------------------------------- MODULE Waits -------------------------------
(***************************************************************************)
(* The waiting loop of mailboxes, message queues and memory pools.  A      *)
(* thread that is resumed looks again, because another thread may have     *)
(* come first, and waits again with what is left of its waiting time.      *)
(***************************************************************************)
EXTENDS Ipc

CONSTANTS
  Flag,     \* RT_IPC_FLAG_FIFO or RT_IPC_FLAG_PRIO
  Times     \* the waiting times: 0, a number of ticks, or Forever

\* What the constants have to satisfy.
WaitsOK ==
  /\ Flag \in {"FIFO", "PRIO"}
  /\ Times \subseteq -1 .. MaxTick

VARIABLE wait    \* the waiting time of the pending call of each thread

\* time is what is left of the waiting time and spent the ticks since the last wait
\* began; asked and total are history: the waiting time of the call and the ticks
\* since it was made.  The counts stop at MaxTick + 1, above every waiting time.
WaitType ==
  [ time  : -1 .. MaxTick, spent : 0 .. MaxTick + 1,
    asked : -1 .. MaxTick, total : 0 .. MaxTick + 1 ]

NoWait == [time |-> 0, spent |-> 0, asked |-> 0, total |-> 0]

For(time) == [NoWait EXCEPT !.time = time, !.asked = time]

\* (defect) the whole waiting time is used again
TimeKept(w) == [w EXCEPT !.spent = 0]

\* After a wait a finite waiting time is reduced by the ticks spent, to 0 at least.
TimeLeft(w) ==
  [w EXCEPT !.time  = IF @ > 0 THEN (IF @ > w.spent THEN @ - w.spent ELSE 0) ELSE @,
            !.spent = 0]

\* Thread t goes to sleep on q for w.time.
WaitOn(t, q, w, label) ==
  /\ k' = Block(k, q, t, Flag, w.time)
  /\ wait' = [wait EXCEPT ![t] = w]
  /\ Goto(t, label)

\* The call of thread t waits no more.
NoMoreWait(t) == wait' = [wait EXCEPT ![t] = NoWait]

\* The first waiter of q, if any, is resumed, and rt_schedule is called.
Wake(t, q) ==
  IF k.tl[q] # <<>>
  THEN k' = rt_ipc_list_resume(k, q) /\ Goto(t, "sched")
  ELSE UNCHANGED k /\ Goto(t, "run")

\* What an interrupt handler does instead: it switches when it returns.
WakeFromInterrupt(q) ==
  k' = IF k.tl[q] # <<>> THEN rt_schedule(rt_ipc_list_resume(k, q)) ELSE k

\* ++ rt_tick, as a call with a time-out sees it.
Count(w) ==
  LET up(n) == IF n > MaxTick THEN n ELSE n + 1
  IN  IF w.asked > 0 THEN [w EXCEPT !.spent = up(@), !.total = up(@)] ELSE w

Tick ==
  /\ rt_tick_increase
  /\ wait' = IF irq = "open" THEN [t \in Thread |-> Count(wait[t])] ELSE wait
  /\ UNCHANGED pc

\* The threads of S that have been resumed in order to look again.
Woken(S) == {t \in S : k.stat[t] = "READY" /\ k.error[t] = "EOK"}

\* However often a call is resumed and has to wait again, it sleeps until exactly the
\* time its caller asked for: the ticks since the call and the ticks left on its
\* timer make up the waiting time.
TimeoutKept ==
  irq = "open" => \A t \in Range(k.timers) : wait[t].total + k.rem[t] = wait[t].asked
=============================================================================
