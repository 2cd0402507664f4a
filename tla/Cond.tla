-------------------------------- MODULE Cond --------------------------------
(***************************************************************************)
(* The condition variable of pthread_cond.c.  It is a counting semaphore:  *)
(* a wait unlocks the mutex, takes the semaphore and locks the mutex       *)
(* again, three steps between which other threads run; a signal releases   *)
(* the semaphore once, a broadcast until nobody sleeps on it, and then     *)
(* once more.                                                              *)
(*                                                                         *)
(* Threads interleave freely here: whatever the priorities, a thread may   *)
(* be preempted between any two steps.  What a thread does from locking    *)
(* the mutex to unlocking it is one step, because all that touches the     *)
(* protected data locks that mutex, and that a mutex has one owner is      *)
(* shown in Mutex.                                                         *)
(***************************************************************************)
EXTENDS Lists

\* A condition variable: the value and the sleeping threads of its semaphore.
CondType(T, n) == [value : 0 .. n, queue : Seq(T)]

\* pthread_cond_init.
NewCond == [value |-> 0, queue |-> <<>>]

\* rt_sem_release, which pthread_cond_signal calls: the first sleeper is resumed, or
\* the value goes up.
Release(c) ==
  IF c.queue # <<>> THEN [c EXCEPT !.queue = Tail(@)] ELSE [c EXCEPT !.value = @ + 1]

Released(c) == IF c.queue # <<>> THEN {Head(c.queue)} ELSE {}

\* pthread_cond_broadcast: all sleepers are resumed.  With a value of 0 the semaphore
\* is released until it can be taken, and is released again.
Broadcast(c) == [value |-> IF c.value = 0 THEN 1 ELSE c.value, queue |-> <<>>]

Broadcasted(c) == Range(c.queue)

\* rt_sem_take that succeeds, that sleeps, and that times out.
Taken(c) == [c EXCEPT !.value = @ - 1]

Asleep(c, t) == [c EXCEPT !.queue = Append(@, t)]

TimedOut(c, t) == [c EXCEPT !.queue = rt_list_remove(@, t)]
=============================================================================
