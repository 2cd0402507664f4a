------------------------------- MODULE RwLock -------------------------------
(***************************************************************************)
(* The read-write lock of pthread_rwlock.c: a mutex, a condition variable  *)
(* for readers and one for writers, and three counts.  Waiting writers     *)
(* are preferred.                                                          *)
(***************************************************************************)
EXTENDS Cond, FiniteSets

CONSTANTS
  Threads,
  MaxValue,       \* bound: the value of a condition variable's semaphore
  TimedWriters    \* whether pthread_rwlock_timedwrlock is called

VARIABLES
  rw,       \* rw_refcount, rw_nwaitreaders and rw_nwaitwriters
  cond,     \* rw_condreaders and rw_condwriters
  at,       \* where each thread is: "run", about to "take" the semaphore of a
            \* condition variable, in "sleep" on it, or about to "relock" the mutex
  call,     \* the pending call of each thread
  has       \* history: what each thread holds by the results of its calls

vars == <<rw, cond, at, call, has>>

Role == {"reader", "writer"}

NoCall == [role |-> "reader", timed |-> FALSE, ok |-> TRUE]

\* pthread_rwlock_init.
Init ==
  /\ rw = [refcount |-> 0, nwaitreaders |-> 0, nwaitwriters |-> 0]
  /\ cond = [r \in Role |-> NewCond]
  /\ at = [t \in Threads |-> "run"]
  /\ call = [t \in Threads |-> NoCall]
  /\ has = [t \in Threads |-> "nothing"]

-----------------------------------------------------------------------------
\* The tests of the waiting loops.
MustWait(role) ==
  IF role = "reader" THEN rw.refcount < 0 \/ rw.nwaitwriters > 0 ELSE rw.refcount # 0

Acquired(s, role) == [s EXCEPT !.refcount = IF role = "reader" THEN @ + 1 ELSE -1]

Counted(s, role, n) ==
  IF role = "reader" THEN [s EXCEPT !.nwaitreaders = @ + n] ELSE [s EXCEPT !.nwaitwriters = @ + n]

\* The lock is acquired and the mutex unlocked.
Acquire(t, s, role) ==
  /\ rw' = Acquired(s, role)
  /\ has' = [has EXCEPT ![t] = role]
  /\ at' = [at EXCEPT ![t] = "run"]
  /\ call' = [call EXCEPT ![t] = NoCall]
  /\ UNCHANGED cond

\* pthread_cond_wait or pthread_cond_timedwait begins: the mutex is unlocked.
Wait(t, s, role, timed) ==
  /\ rw' = Counted(s, role, 1)
  /\ at' = [at EXCEPT ![t] = "take"]
  /\ call' = [call EXCEPT ![t] = [role |-> role, timed |-> timed, ok |-> TRUE]]
  /\ UNCHANGED <<cond, has>>

Calls(t) == at[t] = "run" /\ has[t] = "nothing"

\* pthread_rwlock_rdlock, wrlock, timedrdlock and timedwrlock.
Lock(t, role, timed) ==
  /\ Calls(t)
  /\ role = "writer" /\ timed => TimedWriters
  /\ IF MustWait(role) THEN Wait(t, rw, role, timed) ELSE Acquire(t, rw, role)

\* pthread_rwlock_tryrdlock and trywrlock, which otherwise return EBUSY.
TryLock(t, role) == Calls(t) /\ ~MustWait(role) /\ Acquire(t, rw, role)

TakeSem(t) ==
  LET c == cond[call[t].role]
  IN  /\ at[t] = "take"
      /\ IF c.value > 0
         THEN /\ cond' = [cond EXCEPT ![call[t].role] = Taken(@)]
              /\ at' = [at EXCEPT ![t] = "relock"]
         ELSE /\ cond' = [cond EXCEPT ![call[t].role] = Asleep(@, t)]
              /\ at' = [at EXCEPT ![t] = "sleep"]
      /\ UNCHANGED <<rw, call, has>>

TimeOut(t) ==
  /\ at[t] = "sleep"
  /\ call[t].timed
  /\ cond' = [cond EXCEPT ![call[t].role] = TimedOut(@, t)]
  /\ at' = [at EXCEPT ![t] = "relock"]
  /\ call' = [call EXCEPT ![t].ok = FALSE]
  /\ UNCHANGED <<rw, has>>

\* (defect) a thread that was resumed does not test again
RelockTrusts(t) ==
  LET c == call[t]
  IN  /\ at[t] = "relock"
      /\ IF c.ok
         THEN Acquire(t, Counted(rw, c.role, -1), c.role)
         ELSE /\ rw' = Counted(rw, c.role, -1)
              /\ at' = [at EXCEPT ![t] = "run"]
              /\ call' = [call EXCEPT ![t] = NoCall]
              /\ UNCHANGED <<cond, has>>

\* The wait ends with the mutex locked again; the loop returns an error, or tests
\* again.
Relock(t) ==
  LET c == call[t]
      s == Counted(rw, c.role, -1)
      again == IF c.role = "reader" THEN s.refcount < 0 \/ s.nwaitwriters > 0 ELSE s.refcount # 0
  IN  /\ at[t] = "relock"
      /\ \/ /\ ~c.ok
            /\ rw' = s
            /\ at' = [at EXCEPT ![t] = "run"]
            /\ call' = [call EXCEPT ![t] = NoCall]
            /\ UNCHANGED <<cond, has>>
         \/ c.ok /\ again /\ Wait(t, s, c.role, c.timed)
         \/ c.ok /\ ~again /\ Acquire(t, s, c.role)

Dropped(n) == IF n > 0 THEN n - 1 ELSE IF n = -1 THEN 0 ELSE n

\* (defect) readers are woken only if the lock is free
UnlockForgets(t) ==
  LET n == Dropped(rw.refcount)
      woken == IF n = 0 /\ rw.nwaitwriters > 0 THEN Released(cond["writer"]) ELSE {}
  IN  /\ at[t] = "run" /\ has[t] # "nothing"
      /\ rw' = [rw EXCEPT !.refcount = n]
      /\ cond' = IF n = 0 /\ rw.nwaitwriters > 0 THEN [cond EXCEPT !["writer"] = Release(@)] ELSE cond
      /\ \A r \in Role : cond'[r].value <= MaxValue
      /\ at' = [u \in Threads |-> IF u \in woken THEN "relock" ELSE at[u]]
      /\ has' = [has EXCEPT ![t] = "nothing"]
      /\ UNCHANGED call

\* pthread_rwlock_unlock: a waiting writer is signalled if the lock is free, without
\* one all readers are woken.
Unlock(t) ==
  LET n       == Dropped(rw.refcount)
      signal  == rw.nwaitwriters > 0 /\ n = 0
      readers == rw.nwaitwriters = 0 /\ rw.nwaitreaders > 0
      woken   == CASE signal  -> Released(cond["writer"])
                   [] readers -> Broadcasted(cond["reader"])
                   [] OTHER   -> {}
  IN  /\ at[t] = "run" /\ has[t] # "nothing"
      /\ rw' = [rw EXCEPT !.refcount = n]
      /\ cond' = CASE signal  -> [cond EXCEPT !["writer"] = Release(@)]
                   [] readers -> [cond EXCEPT !["reader"] = Broadcast(@)]
                   [] OTHER   -> cond
      /\ \A r \in Role : cond'[r].value <= MaxValue
      /\ at' = [u \in Threads |-> IF u \in woken THEN "relock" ELSE at[u]]
      /\ has' = [has EXCEPT ![t] = "nothing"]
      /\ UNCHANGED call

\* pthread_rwlock_destroy of a lock nobody uses: EBUSY unless both semaphores can be
\* taken; what is destroyed is initialised again by the next call.
Destroy ==
  /\ rw.refcount = 0 /\ rw.nwaitreaders = 0 /\ rw.nwaitwriters = 0
  /\ \A r \in Role : cond[r].value > 0
  /\ cond' = [r \in Role |-> NewCond]
  /\ UNCHANGED <<rw, at, call, has>>

Next ==
  \/ Destroy
  \/ \E t \in Threads :
       \/ \E role \in Role : TryLock(t, role) \/ \E timed \in BOOLEAN : Lock(t, role, timed)
       \/ TakeSem(t) \/ TimeOut(t) \/ Relock(t) \/ Unlock(t)

Spec == Init /\ [][Next]_vars

-----------------------------------------------------------------------------
\* The state has its types.
TypeOK ==
  /\ rw \in [refcount : Int, nwaitreaders : Nat, nwaitwriters : Nat]
  /\ cond \in [Role -> CondType(Threads, MaxValue)]
  /\ at \in [Threads -> {"run", "take", "sleep", "relock"}]
  /\ call \in [Threads -> [role : Role, timed : BOOLEAN, ok : BOOLEAN]]
  /\ has \in [Threads -> Role \cup {"nothing"}]

Holding(role) == {t \in Threads : has[t] = role}

\* rw_refcount says who holds the lock: -1 for one writer and nobody else, n for n
\* readers and no writer, whatever waits, wake-ups that came too early and time-outs
\* have happened.
Exclusive ==
  \/ rw.refcount = -1 /\ Cardinality(Holding("writer")) = 1 /\ Holding("reader") = {}
  \/ rw.refcount = Cardinality(Holding("reader")) /\ Holding("writer") = {}

\* Nobody is left asleep beside a free lock: when every thread is in its own code or
\* asleep and nobody holds the lock, nobody is asleep.
NoneStranded ==
  (\A t \in Threads : at[t] \in {"run", "sleep"} /\ has[t] = "nothing") =>
    \A t \in Threads : at[t] = "run"
=============================================================================
