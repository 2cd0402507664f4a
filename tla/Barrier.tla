------------------------------ MODULE Barrier -------------------------------
(***************************************************************************)
(* The barrier of pthread_barrier.c: a count under a mutex, and a          *)
(* condition variable.  The count is not set again when all have come, so  *)
(* a barrier serves once.  The wait on the condition variable is not       *)
(* repeated, and a broadcast leaves one token for those who are about to   *)
(* sleep: with a Count above 2 one of them may sleep for ever.             *)
(***************************************************************************)
EXTENDS Cond

CONSTANTS
  Parties,    \* the threads that come to the barrier
  Count       \* how many it waits for

VARIABLES
  count,      \* barrier->count
  gate,       \* barrier->cond
  step        \* where each thread is: "run", about to "take" the semaphore of the
              \* condition variable, in "sleep" on it, about to "relock", or "past"

vars == <<count, gate, step>>

\* pthread_barrier_init.
Init ==
  /\ count = Count
  /\ gate = NewCond
  /\ step = [t \in Parties |-> "run"]

\* The last thread wakes all others.
LastCome(t) ==
  /\ gate' = Broadcast(gate)
  /\ step' = [u \in Parties |-> IF u = t THEN "past" ELSE IF u \in Broadcasted(gate) THEN "relock" ELSE step[u]]

\* pthread_barrier_wait up to where the mutex is unlocked; once the count is 0 it
\* returns EINVAL.
pthread_barrier_wait(t) ==
  /\ step[t] = "run"
  /\ \/ count = 0 /\ step' = [step EXCEPT ![t] = "past"] /\ UNCHANGED <<count, gate>>
     \/ count = 1 /\ count' = 0 /\ LastCome(t)
     \/ count > 1 /\ count' = count - 1 /\ step' = [step EXCEPT ![t] = "take"] /\ UNCHANGED gate

\* The semaphore of the condition variable is taken, or slept on.
TakeSem(t) ==
  /\ step[t] = "take"
  /\ gate' = IF gate.value > 0 THEN Taken(gate) ELSE Asleep(gate, t)
  /\ step' = [step EXCEPT ![t] = IF gate.value > 0 THEN "relock" ELSE "sleep"]
  /\ UNCHANGED count

Relock(t) ==
  /\ step[t] = "relock"
  /\ step' = [step EXCEPT ![t] = "past"]
  /\ UNCHANGED <<count, gate>>

\* pthread_barrier_init of a barrier that is used again.
pthread_barrier_init ==
  /\ \A t \in Parties : step[t] = "past"
  /\ count' = Count
  /\ gate' = NewCond
  /\ step' = [t \in Parties |-> "run"]

Next ==
  \/ pthread_barrier_init
  \/ \E t \in Parties : pthread_barrier_wait(t) \/ TakeSem(t) \/ Relock(t)

Spec == Init /\ [][Next]_vars

-----------------------------------------------------------------------------
\* Nobody passes the barrier before all have come: a thread is past it, or on its way
\* out, only if the count is 0.
PassTogether == (\E t \in Parties : step[t] \in {"relock", "past"}) => count = 0

\* When all have come and none has anything left to do, nobody sleeps.
NoneStranded ==
  count = 0 /\ (\A t \in Parties : step[t] \in {"sleep", "past"}) =>
    \A t \in Parties : step[t] = "past"
=============================================================================
