---------------------------- MODULE RwLockProofs ----------------------------
(***************************************************************************)
(* The read-write lock excludes, for every finite set of threads.  Beside  *)
(* the meaning of rw_refcount the inductive invariant says that a thread   *)
(* that holds the lock is in its own code, so that no wait that ends       *)
(* belongs to a holder, and that the queues hold sleeping threads.         *)
(***************************************************************************)
EXTENDS RwLock, ListProofs, FiniteSetTheorems

\* Exclusive, of a count and a function that says what each thread holds.
Sole(n, h) ==
  \/ /\ n = -1
     /\ Cardinality({t \in Threads : h[t] = "writer"}) = 1
     /\ {t \in Threads : h[t] = "reader"} = {}
  \/ /\ n = Cardinality({t \in Threads : h[t] = "reader"})
     /\ {t \in Threads : h[t] = "writer"} = {}

Holds == [Threads -> Role \cup {"nothing"}]

\* A reader that finds no writer, and a writer that finds nobody, may be counted.
LEMMA SoleAcquire ==
  ASSUME IsFiniteSet(Threads), NEW h \in Holds, NEW n \in Int, Sole(n, h),
         NEW t \in Threads, h[t] = "nothing"
  PROVE  /\ ~ (n < 0) => Sole(n + 1, [h EXCEPT ![t] = "reader"])
         /\ n = 0 => Sole(-1, [h EXCEPT ![t] = "writer"])
<1> DEFINE R(g) == {u \in Threads : g[u] = "reader"}
           W(g) == {u \in Threads : g[u] = "writer"}
<1>1. IsFiniteSet(R(h)) /\ IsFiniteSet(W(h))
  BY FS_Subset
<1>2. ASSUME ~ (n < 0) PROVE Sole(n + 1, [h EXCEPT ![t] = "reader"])
  <2> DEFINE g == [h EXCEPT ![t] = "reader"]
  <2>1. n = Cardinality(R(h)) /\ W(h) = {}
    BY <1>2 DEF Sole
  <2>2. R(g) = R(h) \cup {t} /\ W(g) = W(h) /\ t \notin R(h)
    BY DEF Holds
  <2>3. Cardinality(R(g)) = n + 1
    BY <1>1, <2>1, <2>2, FS_AddElement, ZenonT(30)
  <2> QED
    BY <2>1, <2>2, <2>3 DEF Sole
<1>3. ASSUME n = 0 PROVE Sole(-1, [h EXCEPT ![t] = "writer"])
  <2> DEFINE g == [h EXCEPT ![t] = "writer"]
  <2>1. R(h) = {} /\ W(h) = {}
    BY <1>1, <1>3, FS_EmptySet DEF Sole
  <2>2. R(g) = {} /\ W(g) = {t}
    BY <2>1 DEF Holds
  <2>3. Cardinality(W(g)) = 1
    BY <2>2, FS_Singleton
  <2> QED
    BY <2>2, <2>3 DEF Sole
<1> QED
  BY <1>2, <1>3

\* A holder that unlocks is counted off.
LEMMA SoleRelease ==
  ASSUME IsFiniteSet(Threads), NEW h \in Holds, NEW n \in Int, Sole(n, h),
         NEW t \in Threads, h[t] # "nothing"
  PROVE  Sole(Dropped(n), [h EXCEPT ![t] = "nothing"])
<1> DEFINE R(g) == {u \in Threads : g[u] = "reader"}
           W(g) == {u \in Threads : g[u] = "writer"}
           g == [h EXCEPT ![t] = "nothing"]
<1>1. IsFiniteSet(R(h)) /\ IsFiniteSet(W(h))
  BY FS_Subset
<1>2. R(g) = R(h) \ {t} /\ W(g) = W(h) \ {t}
  BY DEF Holds
<1>3. h[t] \in {"reader", "writer"}
  BY DEF Holds, Role
<1>4. CASE h[t] = "writer"
  <2>1. n = -1 /\ Cardinality(W(h)) = 1 /\ R(h) = {}
    BY <1>4 DEF Sole
  <2>2. PICK x : W(h) = {x}
    BY <1>1, <2>1, FS_Singleton
  <2>3. W(g) = {} /\ R(g) = {}
    BY <1>2, <1>4, <2>1, <2>2
  <2>4. Dropped(n) = 0 /\ Cardinality(R(g)) = 0
    BY <2>1, <2>3, FS_EmptySet DEF Dropped
  <2> QED
    BY <2>3, <2>4 DEF Sole
<1>5. CASE h[t] = "reader"
  <2>1. n = Cardinality(R(h)) /\ W(h) = {} /\ t \in R(h)
    BY <1>5 DEF Sole
  <2>2. Cardinality(R(g)) = n - 1 /\ n \in Nat /\ n # 0
    <3>1. Cardinality(R(h) \ {t}) = Cardinality(R(h)) - 1
      BY <1>1, <2>1, FS_RemoveElement, ZenonT(30)
    <3>2. Cardinality(R(h)) \in Nat
      BY <1>1, FS_CardinalityType
    <3>3. Cardinality(R(h)) # 0
      BY <1>1, <2>1, FS_EmptySet
    <3> QED
      BY <1>2, <2>1, <3>1, <3>2, <3>3
  <2>3. Dropped(n) = n - 1
    BY <2>2 DEF Dropped
  <2> QED
    BY <1>2, <2>1, <2>2, <2>3 DEF Sole
<1> QED
  BY <1>3, <1>4, <1>5

-----------------------------------------------------------------------------
Counts == [refcount : Int, nwaitreaders : Int, nwaitwriters : Int]

PendingCall == [role : Role, timed : BOOLEAN, ok : BOOLEAN]

\* A queue holds sleeping threads, each once, that wait in its role.
Sleepers(c, a, p, r) ==
  /\ c[r] \in [value : Int, queue : Seq(Threads)]
  /\ IsInjective(c[r].queue)
  /\ \A t \in Range(c[r].queue) : a[t] = "sleep" /\ p[t].role = r

\* The inductive invariant.
LockInv ==
  /\ rw \in Counts
  /\ cond = [r \in Role |-> cond[r]]
  /\ \A r \in Role : Sleepers(cond, at, call, r)
  /\ at \in [Threads -> {"run", "take", "sleep", "relock"}]
  /\ call \in [Threads -> PendingCall]
  /\ has \in Holds
  /\ \A t \in Threads : has[t] # "nothing" => at[t] = "run"
  /\ Sole(rw.refcount, has)

\* The first thread of a queue is taken off.
LEMMA TailFacts ==
  ASSUME NEW T, NEW s \in Seq(T), IsInjective(s), s # <<>>
  PROVE  /\ Tail(s) \in Seq(T)
         /\ IsInjective(Tail(s))
         /\ Head(s) \in Range(s)
         /\ Range(Tail(s)) = Range(s) \ {Head(s)}
<1>1. /\ DOMAIN s = 1 .. Len(s) /\ Len(s) \in Nat \ {0}
      /\ Head(s) = s[1]
  BY LenProperties, EmptySeq
<1>2. /\ Tail(s) \in Seq(T) /\ Len(Tail(s)) = Len(s) - 1
      /\ \A i \in 1 .. Len(s) - 1 : Tail(s)[i] = s[i + 1]
  BY <1>1, HeadTailProperties
<1>3. DOMAIN Tail(s) = 1 .. Len(s) - 1
  BY <1>2, LenProperties
<1>4. \A i, j \in 1 .. Len(s) : s[i] = s[j] => i = j
  BY <1>1, Zenon DEF IsInjective
<1>5. IsInjective(Tail(s))
  <2> SUFFICES ASSUME NEW i \in 1 .. Len(s) - 1, NEW j \in 1 .. Len(s) - 1, Tail(s)[i] = Tail(s)[j]
               PROVE  i = j
    BY <1>3 DEF IsInjective
  <2>1. i + 1 \in 1 .. Len(s) /\ j + 1 \in 1 .. Len(s)
    BY <1>1
  <2>2. i + 1 = j + 1
    BY <1>2, <1>4, <2>1
  <2> QED
    BY <1>1, <2>2
<1>6. Range(Tail(s)) \subseteq Range(s) \ {Head(s)}
  <2> SUFFICES ASSUME NEW i \in 1 .. Len(s) - 1 PROVE Tail(s)[i] \in Range(s) \ {Head(s)}
    BY <1>3 DEF Range
  <2>1. i + 1 \in 1 .. Len(s) /\ 1 \in 1 .. Len(s) /\ i + 1 # 1
    BY <1>1
  <2>2. s[i + 1] # s[1]
    BY <1>4, <2>1
  <2>3. s[i + 1] \in Range(s)
    BY <1>1, <2>1 DEF Range
  <2> QED
    BY <1>1, <1>2, <2>2, <2>3
<1>7. Range(s) \ {Head(s)} \subseteq Range(Tail(s))
  <2> SUFFICES ASSUME NEW i \in 1 .. Len(s), s[i] # s[1] PROVE s[i] \in Range(Tail(s))
    BY <1>1 DEF Range
  <2>1. i - 1 \in 1 .. Len(s) - 1 /\ (i - 1) + 1 = i
    BY <1>1
  <2>2. Tail(s)[i - 1] = s[i]
    BY <1>2, <2>1
  <2> QED
    BY <1>3, <2>1, <2>2, ZenonT(30) DEF Range
<1>8. Head(s) \in Range(s)
  BY <1>1 DEF Range
<1> QED
  BY <1>2, <1>5, <1>6, <1>7, <1>8

\* A thread that is not asleep is in no queue.
LEMMA NotQueued ==
  ASSUME LockInv, NEW t \in Threads, at[t] # "sleep"
  PROVE  \A r \in Role : t \notin Range(cond[r].queue)
  BY DEF LockInv, Sleepers

\* The end of a call that gets the lock.
LEMMA AcquireKeeps ==
  ASSUME IsFiniteSet(Threads), LockInv, NEW t \in Threads, NEW role \in Role, NEW s \in Counts,
         at[t] # "sleep", has[t] = "nothing", s.refcount = rw.refcount,
         role = "reader" => ~ (s.refcount < 0), role = "writer" => s.refcount = 0,
         Acquire(t, s, role)
  PROVE  LockInv'
<1>1. /\ rw' \in Counts
      /\ rw'.refcount = IF role = "reader" THEN rw.refcount + 1 ELSE -1
  BY DEF Acquire, Acquired, Counts
<1>2. Sole(rw'.refcount, has')
  <2>1. rw.refcount \in Int /\ has \in Holds /\ Sole(rw.refcount, has)
    BY DEF LockInv, Counts
  <2>2. CASE role = "reader"
    <3>1. has' = [has EXCEPT ![t] = "reader"] /\ ~ (rw.refcount < 0)
      BY <2>2 DEF Acquire
    <3> QED
      BY <1>1, <2>1, <2>2, <3>1, SoleAcquire, ZenonT(30)
  <2>3. CASE role = "writer"
    <3>1. has' = [has EXCEPT ![t] = "writer"] /\ rw.refcount = 0
      BY <2>3 DEF Acquire
    <3> QED
      BY <1>1, <2>1, <2>3, <3>1, SoleAcquire, ZenonT(30)
  <2> QED
    BY <2>2, <2>3 DEF Role
<1>3. \A r \in Role : Sleepers(cond', at', call', r)
  <2>1. \A r \in Role : t \notin Range(cond[r].queue)
    BY NotQueued
  <2> QED
    BY <2>1, NotQueued DEF Acquire, LockInv, Sleepers
<1>4. /\ at' \in [Threads -> {"run", "take", "sleep", "relock"}]
      /\ call' \in [Threads -> PendingCall]
      /\ has' \in Holds
      /\ cond' = [r \in Role |-> cond'[r]]
      /\ \A u \in Threads : has'[u] # "nothing" => at'[u] = "run"
  BY DEF Acquire, LockInv, NoCall, PendingCall, Holds, Role
<1> QED
  BY <1>1, <1>2, <1>3, <1>4 DEF LockInv

\* The beginning of a wait.
LEMMA WaitKeeps ==
  ASSUME LockInv, NEW t \in Threads, NEW role \in Role, NEW timed \in BOOLEAN, NEW s \in Counts,
         at[t] # "sleep", has[t] = "nothing", s.refcount = rw.refcount,
         Wait(t, s, role, timed)
  PROVE  LockInv'
<1>1. rw' \in Counts /\ rw'.refcount = rw.refcount
  BY DEF Wait, Counted, Counts
<1>2. \A r \in Role : Sleepers(cond', at', call', r)
  <2>1. \A r \in Role : t \notin Range(cond[r].queue)
    BY NotQueued
  <2> QED
    BY <2>1 DEF Wait, LockInv, Sleepers
<1>3. /\ at' \in [Threads -> {"run", "take", "sleep", "relock"}]
      /\ call' \in [Threads -> PendingCall]
      /\ cond' = [r \in Role |-> cond'[r]]
      /\ \A u \in Threads : has'[u] # "nothing" => at'[u] = "run"
  BY DEF Wait, LockInv, PendingCall, Holds, Role
<1> QED
  BY <1>1, <1>2, <1>3, ZenonT(30) DEF LockInv, Wait

\* One queue changes, into one of sleeping threads; the other queue's sleepers stay.
LEMMA QueueChanges ==
  ASSUME LockInv, NEW role \in Role, NEW c,
         cond' = [cond EXCEPT ![role] = c],
         c \in [value : Int, queue : Seq(Threads)], IsInjective(c.queue),
         \A u \in Range(c.queue) : at'[u] = "sleep" /\ call'[u].role = role,
         \A r \in Role \ {role} : \A u \in Range(cond[r].queue) :
           at'[u] = "sleep" /\ call'[u].role = r
  PROVE  /\ cond' = [r \in Role |-> cond'[r]]
         /\ \A r \in Role : Sleepers(cond', at', call', r)
<1>1. cond = [r \in Role |-> cond[r]] /\ \A r \in Role : Sleepers(cond, at, call, r)
  BY DEF LockInv
<1>2. \A r \in Role : cond'[r] = IF r = role THEN c ELSE cond[r]
  BY <1>1
<1>3. cond' = [r \in Role |-> cond'[r]]
  BY <1>1
<1> QED
  BY <1>1, <1>2, <1>3 DEF Sleepers

\* pthread_cond_wait takes the semaphore or goes to sleep on it.
LEMMA TakeSemKeeps ==
  ASSUME LockInv, NEW t \in Threads, TakeSem(t)
  PROVE  LockInv'
<1> DEFINE role == call[t].role
           c == cond[role]
<1>1. role \in Role /\ at[t] = "take" /\ has[t] = "nothing"
  BY DEF LockInv, PendingCall, TakeSem
<1>2. /\ c \in [value : Int, queue : Seq(Threads)] /\ IsInjective(c.queue)
      /\ \A r \in Role : t \notin Range(cond[r].queue)
      /\ \A r \in Role : \A u \in Range(cond[r].queue) : u \in Threads /\ at[u] = "sleep" /\ call[u].role = r
  <2>1. \A r \in Role : Sleepers(cond, at, call, r)
    BY DEF LockInv
  <2>2. \A r \in Role : Range(cond[r].queue) \subseteq Threads
    BY <2>1, RangeOfSeq DEF Sleepers
  <2> QED
    BY <1>1, <2>1, <2>2 DEF Sleepers
<1>3. at \in [Threads -> {"run", "take", "sleep", "relock"}]
  BY DEF LockInv
<1>4. rw' = rw /\ call' = call /\ has' = has
  BY DEF TakeSem
<1>5. CASE c.value > 0
  <2>1. cond' = [cond EXCEPT ![role] = Taken(c)] /\ at' = [at EXCEPT ![t] = "relock"]
    BY <1>5 DEF TakeSem
  <2>2. Taken(c) \in [value : Int, queue : Seq(Threads)] /\ Taken(c).queue = c.queue
    BY <1>2 DEF Taken
  <2>3. \A r \in Role : \A u \in Range(cond[r].queue) : at'[u] = "sleep" /\ call'[u].role = r
    BY <1>2, <1>3, <1>4, <2>1
  <2> HIDE DEF role, c
  <2>4. /\ cond' = [r \in Role |-> cond'[r]]
        /\ \A r \in Role : Sleepers(cond', at', call', r)
    <3>1. IsInjective(Taken(c).queue)
      BY <1>2, <2>2
    <3>2. \A u \in Range(Taken(c).queue) : at'[u] = "sleep" /\ call'[u].role = role
      BY <1>1, <2>2, <2>3 DEF c
    <3>3. \A r \in Role \ {role} : \A u \in Range(cond[r].queue) : at'[u] = "sleep" /\ call'[u].role = r
      BY <2>3
    <3> QED
      BY <1>1, <2>1, <2>2, <3>1, <3>2, <3>3, QueueChanges, ZenonT(30)
  <2>5. /\ at' \in [Threads -> {"run", "take", "sleep", "relock"}]
        /\ \A u \in Threads : has'[u] # "nothing" => at'[u] = "run"
    BY <1>1, <1>3, <1>4, <2>1 DEF LockInv
  <2> QED
    BY <1>4, <2>4, <2>5 DEF LockInv
<1>6. CASE ~ (c.value > 0)
  <2>1. cond' = [cond EXCEPT ![role] = Asleep(c, t)] /\ at' = [at EXCEPT ![t] = "sleep"]
    BY <1>6 DEF TakeSem
  <2>2. /\ Asleep(c, t) \in [value : Int, queue : Seq(Threads)]
        /\ Asleep(c, t).queue = Append(c.queue, t)
    <3>1. Append(c.queue, t) \in Seq(Threads)
      BY <1>2, AppendFacts
    <3> QED
      BY <1>2, <3>1, ZenonT(30) DEF Asleep
  <2>3. /\ IsInjective(Append(c.queue, t))
        /\ Range(Append(c.queue, t)) = Range(c.queue) \cup {t}
    BY <1>1, <1>2, AppendFacts
  <2>4. \A r \in Role : \A u \in Range(cond[r].queue) \cup {t} : at'[u] = "sleep"
    BY <1>2, <1>3, <2>1
  <2> HIDE DEF role, c
  <2>5. /\ cond' = [r \in Role |-> cond'[r]]
        /\ \A r \in Role : Sleepers(cond', at', call', r)
    <3>1. IsInjective(Asleep(c, t).queue)
      BY <2>2, <2>3
    <3>2. \A u \in Range(Asleep(c, t).queue) : at'[u] = "sleep" /\ call'[u].role = role
      BY <1>1, <1>2, <1>4, <2>2, <2>3, <2>4, SMTT(60) DEF c, role
    <3>3. \A r \in Role \ {role} : \A u \in Range(cond[r].queue) : at'[u] = "sleep" /\ call'[u].role = r
      BY <1>2, <1>4, <2>4
    <3> QED
      BY <1>1, <2>1, <2>2, <3>1, <3>2, <3>3, QueueChanges, ZenonT(30)
  <2>6. /\ at' \in [Threads -> {"run", "take", "sleep", "relock"}]
        /\ \A u \in Threads : has'[u] # "nothing" => at'[u] = "run"
    BY <1>1, <1>3, <1>4, <2>1 DEF LockInv
  <2> QED
    BY <1>4, <2>5, <2>6 DEF LockInv
<1> QED
  BY <1>5, <1>6

\* A timed wait is over: rt_thread_timeout takes the thread off the queue.
LEMMA TimeOutKeeps ==
  ASSUME LockInv, NEW t \in Threads, TimeOut(t)
  PROVE  LockInv'
<1> DEFINE role == call[t].role
           c == cond[role]
<1>1. role \in Role /\ at[t] = "sleep" /\ has[t] = "nothing"
  BY DEF LockInv, PendingCall, TimeOut
<1>2. /\ c \in [value : Int, queue : Seq(Threads)] /\ IsInjective(c.queue)
      /\ \A r \in Role \ {role} : t \notin Range(cond[r].queue)
      /\ \A r \in Role : \A u \in Range(cond[r].queue) : u \in Threads /\ at[u] = "sleep" /\ call[u].role = r
  <2>1. \A r \in Role : Sleepers(cond, at, call, r)
    BY DEF LockInv
  <2>2. \A r \in Role : Range(cond[r].queue) \subseteq Threads
    BY <2>1, RangeOfSeq DEF Sleepers
  <2> QED
    BY <1>1, <2>1, <2>2 DEF Sleepers
<1>3. at \in [Threads -> {"run", "take", "sleep", "relock"}] /\ call \in [Threads -> PendingCall]
  BY DEF LockInv
<1>4. /\ rw' = rw /\ has' = has
      /\ cond' = [cond EXCEPT ![role] = TimedOut(c, t)]
      /\ at' = [at EXCEPT ![t] = "relock"]
      /\ call' = [call EXCEPT ![t].ok = FALSE]
  BY DEF TimeOut
<1>5. /\ TimedOut(c, t) \in [value : Int, queue : Seq(Threads)]
      /\ IsInjective(TimedOut(c, t).queue)
      /\ Range(TimedOut(c, t).queue) = Range(c.queue) \ {t}
  <2>1. /\ rt_list_remove(c.queue, t) \in Seq(Threads)
        /\ IsInjective(rt_list_remove(c.queue, t))
        /\ Range(rt_list_remove(c.queue, t)) = Range(c.queue) \ {t}
    BY <1>2, RemoveFacts, SMTT(60)
  <2> QED
    BY <1>2, <2>1 DEF TimedOut
<1>6. /\ call' \in [Threads -> PendingCall]
      /\ \A u \in Threads : call'[u].role = call[u].role
  BY <1>3, <1>4, ZenonT(30) DEF PendingCall
<1>7. \A r \in Role : \A u \in Range(cond[r].queue) : u # t => at'[u] = "sleep" /\ call'[u].role = r
  BY <1>2, <1>3, <1>4, <1>6
<1>8. /\ at' \in [Threads -> {"run", "take", "sleep", "relock"}]
      /\ \A u \in Threads : has'[u] # "nothing" => at'[u] = "run"
  BY <1>1, <1>3, <1>4 DEF LockInv
<1> HIDE DEF c, role
<1>9. /\ cond' = [r \in Role |-> cond'[r]]
      /\ \A r \in Role : Sleepers(cond', at', call', r)
  <2>1. \A u \in Range(TimedOut(c, t).queue) : at'[u] = "sleep" /\ call'[u].role = role
    BY <1>1, <1>5, <1>7 DEF c
  <2>2. \A r \in Role \ {role} : \A u \in Range(cond[r].queue) : at'[u] = "sleep" /\ call'[u].role = r
    BY <1>2, <1>7
  <2> QED
    BY <1>1, <1>4, <1>5, <2>1, <2>2, QueueChanges, ZenonT(30)
<1> QED
  BY <1>4, <1>6, <1>8, <1>9, ZenonT(30) DEF LockInv

\* pthread_rwlock_rdlock, wrlock, timedrdlock, timedwrlock and the calls that only try.
LEMMA LockKeeps ==
  ASSUME IsFiniteSet(Threads), LockInv, NEW t \in Threads, NEW role \in Role,
         TryLock(t, role) \/ \E timed \in BOOLEAN : Lock(t, role, timed)
  PROVE  LockInv'
<1>1. rw \in Counts /\ at[t] # "sleep" /\ has[t] = "nothing"
  BY DEF LockInv, TryLock, Lock, Calls
<1>2. CASE ~ MustWait(role) /\ Acquire(t, rw, role)
  <2>1. (role = "reader" => ~ (rw.refcount < 0)) /\ (role = "writer" => rw.refcount = 0)
    BY <1>2 DEF MustWait
  <2> QED
    BY <1>1, <1>2, <2>1, AcquireKeeps
<1>3. CASE \E timed \in BOOLEAN : Wait(t, rw, role, timed)
  BY <1>1, <1>3, WaitKeeps
<1> QED
  BY <1>2, <1>3 DEF TryLock, Lock

\* The wait is over: an error, another wait, or the lock.
LEMMA RelockKeeps ==
  ASSUME IsFiniteSet(Threads), LockInv, NEW t \in Threads, Relock(t)
  PROVE  LockInv'
<1> DEFINE c == call[t]
           s == Counted(rw, c.role, -1)
           again == IF c.role = "reader" THEN s.refcount < 0 \/ s.nwaitwriters > 0 ELSE s.refcount # 0
<1>1. /\ at[t] = "relock" /\ has[t] = "nothing" /\ rw \in Counts
      /\ c.role \in Role /\ c.timed \in BOOLEAN
  BY DEF LockInv, Relock, PendingCall
<1>2. s \in Counts /\ s.refcount = rw.refcount
  BY <1>1 DEF Counted, Counts
<1>3. \/ /\ rw' = s
         /\ at' = [at EXCEPT ![t] = "run"]
         /\ call' = [call EXCEPT ![t] = NoCall]
         /\ UNCHANGED <<cond, has>>
      \/ Wait(t, s, c.role, c.timed)
      \/ ~ again /\ Acquire(t, s, c.role)
  BY DEF Relock
<1>4. CASE /\ rw' = s
           /\ at' = [at EXCEPT ![t] = "run"]
           /\ call' = [call EXCEPT ![t] = NoCall]
           /\ UNCHANGED <<cond, has>>
  <2>1. \A r \in Role : t \notin Range(cond[r].queue)
    BY <1>1, NotQueued
  <2> HIDE DEF s
  <2>2. \A r \in Role : Sleepers(cond', at', call', r)
    BY <1>4, <2>1 DEF LockInv, Sleepers
  <2>3. /\ at' \in [Threads -> {"run", "take", "sleep", "relock"}]
        /\ call' \in [Threads -> PendingCall]
        /\ \A u \in Threads : has'[u] # "nothing" => at'[u] = "run"
    BY <1>4 DEF LockInv, NoCall, PendingCall, Role
  <2> QED
    BY <1>2, <1>4, <2>2, <2>3, ZenonT(30) DEF LockInv
<1>5. CASE Wait(t, s, c.role, c.timed)
  <2> HIDE DEF s
  <2> QED
    BY <1>1, <1>2, <1>5, WaitKeeps
<1>6. CASE ~ again /\ Acquire(t, s, c.role)
  <2>1. (c.role = "reader" => ~ (s.refcount < 0)) /\ (c.role = "writer" => s.refcount = 0)
    BY <1>6
  <2> HIDE DEF s
  <2> QED
    BY <1>1, <1>2, <1>6, <2>1, AcquireKeeps
<1> QED
  BY <1>3, <1>4, <1>5, <1>6

\* Threads are taken off one queue and go on.
LEMMA WakeKeeps ==
  ASSUME LockInv, NEW role \in Role, NEW c, NEW woken,
         cond' = [cond EXCEPT ![role] = c],
         at' \in [Threads -> {"run", "take", "sleep", "relock"}], call' = call,
         \A u \in Threads : at'[u] = IF u \in woken THEN "relock" ELSE at[u],
         c \in [value : Int, queue : Seq(Threads)], IsInjective(c.queue),
         woken \subseteq Range(cond[role].queue),
         Range(c.queue) = Range(cond[role].queue) \ woken
  PROVE  /\ cond' = [r \in Role |-> cond'[r]]
         /\ \A r \in Role : Sleepers(cond', at', call', r)
         /\ \A u \in woken : u \in Threads /\ at[u] = "sleep"
<1>1. \A r \in Role : \A u \in Range(cond[r].queue) :
        u \in Threads /\ at[u] = "sleep" /\ call[u].role = r
  <2>1. \A r \in Role : Sleepers(cond, at, call, r)
    BY DEF LockInv
  <2>2. \A r \in Role : Range(cond[r].queue) \subseteq Threads
    BY <2>1, RangeOfSeq DEF Sleepers
  <2> QED
    BY <2>1, <2>2 DEF Sleepers
<1>2. \A u \in Range(c.queue) : at'[u] = "sleep" /\ call'[u].role = role
  BY <1>1
<1>3. \A r \in Role \ {role} : \A u \in Range(cond[r].queue) :
        at'[u] = "sleep" /\ call'[u].role = r
  BY <1>1
<1> QED
  BY <1>1, <1>2, <1>3, QueueChanges, ZenonT(30)

\* pthread_rwlock_unlock.
LEMMA UnlockKeeps ==
  ASSUME IsFiniteSet(Threads), LockInv, NEW t \in Threads, Unlock(t)
  PROVE  LockInv'
<1> DEFINE n == Dropped(rw.refcount)
           signal == rw.nwaitwriters > 0 /\ n = 0
           readers == rw.nwaitwriters = 0 /\ rw.nwaitreaders > 0
           woken == CASE signal  -> Released(cond["writer"])
                      [] readers -> Broadcasted(cond["reader"])
                      [] OTHER   -> {}
<1>1. /\ at[t] = "run" /\ has[t] # "nothing"
      /\ rw' = [rw EXCEPT !.refcount = n]
      /\ cond' = CASE signal  -> [cond EXCEPT !["writer"] = Release(@)]
                   [] readers -> [cond EXCEPT !["reader"] = Broadcast(@)]
                   [] OTHER   -> cond
      /\ at' = [u \in Threads |-> IF u \in woken THEN "relock" ELSE at[u]]
      /\ has' = [has EXCEPT ![t] = "nothing"]
      /\ call' = call
  BY DEF Unlock
<1>2. /\ rw \in Counts /\ has \in Holds /\ Sole(rw.refcount, has)
      /\ \A r \in Role : /\ cond[r] \in [value : Int, queue : Seq(Threads)]
                         /\ IsInjective(cond[r].queue)
  BY DEF LockInv, Sleepers
<1>3. rw' \in Counts /\ rw'.refcount = n
  BY <1>1, <1>2 DEF Counts, Dropped
<1>4. Sole(n, has')
  BY <1>1, <1>2, SoleRelease, ZenonT(30) DEF Counts
<1>5. /\ at' \in [Threads -> {"run", "take", "sleep", "relock"}] /\ call' = call
      /\ \A u \in Threads : at'[u] = IF u \in woken THEN "relock" ELSE at[u]
  <2>1. at \in [Threads -> {"run", "take", "sleep", "relock"}]
    BY DEF LockInv
  <2> HIDE DEF woken, n, signal, readers
  <2> QED
    BY <1>1, <2>1
<1>6. /\ cond' = [r \in Role |-> cond'[r]]
      /\ \A r \in Role : Sleepers(cond', at', call', r)
      /\ \A u \in woken : u \in Threads /\ at[u] = "sleep"
  <2>1. CASE signal
    <3> DEFINE c == cond["writer"]
    <3>1. woken = Released(c) /\ cond' = [cond EXCEPT !["writer"] = Release(c)] /\ "writer" \in Role
      BY <1>1, <2>1 DEF Role
    <3>2. c \in [value : Int, queue : Seq(Threads)] /\ IsInjective(c.queue)
      BY <1>2, <3>1
    <3>3. CASE c.queue = <<>>
      <4>1. /\ Release(c) \in [value : Int, queue : Seq(Threads)]
            /\ Release(c).queue = c.queue /\ Released(c) = {}
        BY <3>2, <3>3 DEF Release, Released
      <4> DEFINE d == Release(c)
      <4>2. /\ "writer" \in Role /\ cond' = [cond EXCEPT !["writer"] = d]
            /\ d \in [value : Int, queue : Seq(Threads)] /\ IsInjective(d.queue)
            /\ woken \subseteq Range(cond["writer"].queue)
            /\ Range(d.queue) = Range(cond["writer"].queue) \ woken
        BY <3>1, <3>2, <4>1
      <4> HIDE DEF woken, c, d
      <4> QED
        BY <1>5, <4>2, WakeKeeps, ZenonT(30)
    <3>4. CASE c.queue # <<>>
      <4>1. /\ Tail(c.queue) \in Seq(Threads) /\ IsInjective(Tail(c.queue))
            /\ Head(c.queue) \in Range(c.queue)
            /\ Range(Tail(c.queue)) = Range(c.queue) \ {Head(c.queue)}
        BY <3>2, <3>4, TailFacts
      <4>2. /\ Release(c) \in [value : Int, queue : Seq(Threads)]
            /\ Release(c).queue = Tail(c.queue) /\ Released(c) = {Head(c.queue)}
        BY <3>2, <3>4, <4>1 DEF Release, Released
      <4> DEFINE d == Release(c)
      <4>3. /\ "writer" \in Role /\ cond' = [cond EXCEPT !["writer"] = d]
            /\ d \in [value : Int, queue : Seq(Threads)] /\ IsInjective(d.queue)
            /\ woken \subseteq Range(cond["writer"].queue)
            /\ Range(d.queue) = Range(cond["writer"].queue) \ woken
        BY <3>1, <4>1, <4>2
      <4> HIDE DEF woken, c, d
      <4> QED
        BY <1>5, <4>3, WakeKeeps, ZenonT(30)
    <3> QED
      BY <3>3, <3>4
  <2>2. CASE ~ signal /\ readers
    <3> DEFINE c == cond["reader"]
    <3>1. woken = Range(c.queue) /\ cond' = [cond EXCEPT !["reader"] = Broadcast(c)] /\ "reader" \in Role
      BY <1>1, <2>2 DEF Role, Broadcasted
    <3>2. c \in [value : Int, queue : Seq(Threads)]
      BY <1>2, <3>1
    <3>3. /\ Broadcast(c) \in [value : Int, queue : Seq(Threads)]
          /\ Broadcast(c).queue = <<>>
      BY <3>2 DEF Broadcast
    <3>4. IsInjective(<<>>) /\ Range(<<>>) = {}
      BY DEF IsInjective, Range
    <3> DEFINE d == Broadcast(c)
    <3>5. /\ "reader" \in Role /\ cond' = [cond EXCEPT !["reader"] = d]
          /\ d \in [value : Int, queue : Seq(Threads)] /\ IsInjective(d.queue)
          /\ woken \subseteq Range(cond["reader"].queue)
          /\ Range(d.queue) = Range(cond["reader"].queue) \ woken
      BY <3>1, <3>3, <3>4
    <3> HIDE DEF woken, c, d
    <3> QED
      BY <1>5, <3>5, WakeKeeps, ZenonT(30)
  <2>3. CASE ~ signal /\ ~ readers
    <3>1. woken = {} /\ cond' = cond
      BY <1>1, <2>3
    <3>2. at' = at
      BY <1>1, <3>1 DEF LockInv
    <3> QED
      BY <1>1, <3>1, <3>2, ZenonT(30) DEF LockInv
  <2> QED
    BY <2>1, <2>2, <2>3
<1> HIDE DEF woken, n, signal, readers
<1>7. has' \in Holds /\ \A u \in Threads : has'[u] # "nothing" => at'[u] = "run"
  <2>1. has' \in Holds
    BY <1>1, <1>2 DEF Holds
  <2>2. \A u \in Threads : has'[u] # "nothing" => has[u] # "nothing"
    BY <1>1, <1>2 DEF Holds
  <2>3. \A u \in Threads : has[u] # "nothing" => at[u] = "run"
    BY DEF LockInv
  <2> QED
    BY <1>5, <1>6, <2>1, <2>2, <2>3
<1> QED
  BY <1>1, <1>3, <1>4, <1>5, <1>6, <1>7, ZenonT(30) DEF LockInv

\* pthread_rwlock_destroy, and the initialisation that follows it.
LEMMA DestroyKeeps ==
  ASSUME LockInv, Destroy
  PROVE  LockInv'
<1>1. /\ cond' = [r \in Role |-> NewCond]
      /\ UNCHANGED <<rw, at, call, has>>
  BY DEF Destroy
<1>2. /\ NewCond \in [value : Int, queue : Seq(Threads)]
      /\ NewCond.queue = <<>> /\ IsInjective(<<>>) /\ Range(<<>>) = {}
  BY DEF NewCond, IsInjective, Range
<1>3. \A r \in Role : Sleepers(cond', at', call', r)
  BY <1>1, <1>2 DEF Sleepers
<1> QED
  BY <1>1, <1>3 DEF LockInv

-----------------------------------------------------------------------------
\* The read-write lock of pthread_rwlock.c is held by one writer or by readers, and
\* rw_refcount says by whom, for every finite set of threads, with time-outs of readers
\* and writers, spurious wake-ups and preemption between the steps of every wait.
THEOREM LockExcludes ==
  ASSUME IsFiniteSet(Threads)
  PROVE  Spec => []Exclusive
<1>1. Init => LockInv
  <2> SUFFICES ASSUME Init PROVE LockInv
    OBVIOUS
  <2>1. /\ NewCond \in [value : Int, queue : Seq(Threads)]
        /\ NewCond.queue = <<>> /\ IsInjective(<<>>) /\ Range(<<>>) = {}
    BY DEF NewCond, IsInjective, Range
  <2>2. \A r \in Role : Sleepers(cond, at, call, r)
    BY <2>1 DEF Init, Sleepers
  <2>3. Sole(0, has)
    <3>1. {t \in Threads : has[t] = "reader"} = {} /\ {t \in Threads : has[t] = "writer"} = {}
      BY DEF Init
    <3> QED
      BY <3>1, FS_EmptySet DEF Sole
  <2>4. /\ rw \in Counts /\ rw.refcount = 0 /\ cond = [r \in Role |-> cond[r]]
        /\ at \in [Threads -> {"run", "take", "sleep", "relock"}]
        /\ call \in [Threads -> PendingCall]
        /\ has \in Holds
        /\ \A t \in Threads : has[t] # "nothing" => at[t] = "run"
    BY DEF Init, Counts, NoCall, PendingCall, Holds, Role
  <2> QED
    BY <2>2, <2>3, <2>4 DEF LockInv
<1>2. LockInv /\ [Next]_vars => LockInv'
  <2> SUFFICES ASSUME LockInv, [Next]_vars PROVE LockInv'
    OBVIOUS
  <2>1. CASE Destroy
    BY <2>1, DestroyKeeps
  <2>2. ASSUME NEW t \in Threads, NEW role \in Role,
               TryLock(t, role) \/ \E timed \in BOOLEAN : Lock(t, role, timed)
        PROVE  LockInv'
    BY <2>2, LockKeeps
  <2>3. ASSUME NEW t \in Threads, TakeSem(t) PROVE LockInv'
    BY <2>3, TakeSemKeeps
  <2>4. ASSUME NEW t \in Threads, TimeOut(t) PROVE LockInv'
    BY <2>4, TimeOutKeeps
  <2>5. ASSUME NEW t \in Threads, Relock(t) PROVE LockInv'
    BY <2>5, RelockKeeps
  <2>6. ASSUME NEW t \in Threads, Unlock(t) PROVE LockInv'
    BY <2>6, UnlockKeeps
  <2>7. CASE UNCHANGED vars
    BY <2>7 DEF LockInv, vars, Sleepers
  <2> QED
    BY <2>1, <2>2, <2>3, <2>4, <2>5, <2>6, <2>7, Zenon DEF Next
<1>3. LockInv => Exclusive
  BY DEF LockInv, Sole, Exclusive, Holding
<1> QED
  BY <1>1, <1>2, <1>3, PTL DEF Spec
=============================================================================
