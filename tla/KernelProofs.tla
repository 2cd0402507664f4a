---------------------------- MODULE KernelProofs ----------------------------
(***************************************************************************)
(* What each kernel function preserves, and what it leaves alone: one      *)
(* lemma per function, cited by the proofs about the components that call  *)
(* the kernel.                                                             *)
(***************************************************************************)
EXTENDS Kernel, ListProofs

\* The part of the invariant that concerns the kernel state alone: no list holds a
\* thread twice, the bitmap tells which ready lists are not empty, and the timer
\* list is sorted by expiry.
WellFormed(s) ==
  /\ s \in KernelType
  /\ \A l \in List : IsInjective(s.tl[l])
  /\ s.group = {p \in Prio : s.tl[p] # <<>>}
  /\ IsInjective(s.timers)
  /\ SortedBy(s.timers, s.rem)

In(s, t, l) == t \in Range(s.tl[l])

LEMMA UnlinkFacts ==
  ASSUME NEW tl \in [List -> Seq(Thread)], NEW t, \A l \in List : IsInjective(tl[l])
  PROVE  /\ Unlink(tl, t) \in [List -> Seq(Thread)]
         /\ \A l \in List : /\ IsInjective(Unlink(tl, t)[l])
                            /\ Range(Unlink(tl, t)[l]) = Range(tl[l]) \ {t}
BY RemoveFacts DEF Unlink

\* Unlinking a thread that is in no list changes nothing.
LEMMA UnlinkNothing ==
  ASSUME NEW tl \in [List -> Seq(Thread)], NEW t, \A l \in List : t \notin Range(tl[l])
  PROVE  Unlink(tl, t) = tl
<1>1. \A l \in List : rt_list_remove(tl[l], t) = tl[l]
  <2> TAKE l \in List
  <2>1. tl[l] \in Seq(Thread)
    OBVIOUS
  <2>2. DOMAIN tl[l] = 1 .. Len(tl[l])
    BY <2>1, LenProperties
  <2>3. ~ \E i \in 1 .. Len(tl[l]) : tl[l][i] = t
    BY <2>2 DEF Range
  <2> QED
    BY <2>3 DEF rt_list_remove
<1> QED
  BY <1>1 DEF Unlink

LEMMA LinkFacts ==
  ASSUME NEW tl \in [List -> Seq(Thread)], NEW l \in List, NEW t \in Thread,
         \A m \in List : IsInjective(tl[m]), t \notin Range(tl[l])
  PROVE  /\ Link(tl, l, t) \in [List -> Seq(Thread)]
         /\ Link(tl, l, t)[l] # <<>>
         /\ \A m \in List : m # l => Link(tl, l, t)[m] = tl[m]
         /\ \A m \in List :
              /\ IsInjective(Link(tl, l, t)[m])
              /\ Range(Link(tl, l, t)[m]) = Range(tl[m]) \cup (IF m = l THEN {t} ELSE {})
<1>1. /\ Append(tl[l], t) \in Seq(Thread)
      /\ Append(tl[l], t) # <<>>
      /\ Range(Append(tl[l], t)) = Range(tl[l]) \cup {t}
      /\ IsInjective(Append(tl[l], t))
  BY AppendFacts
<1>2. Link(tl, l, t) = [tl EXCEPT ![l] = Append(tl[l], t)]
  BY DEF Link
<1> QED
  BY <1>1, <1>2

LEMMA ListFacts == Prio \subseteq List
BY DEF List

\* rt_schedule_insert_thread on a thread that is in no list.
LEMMA InsertThread ==
  ASSUME NEW s, WellFormed(s), NEW t \in Thread, \A l \in List : ~ In(s, t, l)
  PROVE  LET r == rt_schedule_insert_thread(s, t)
         IN  /\ WellFormed(r)
             /\ r.stat = [s.stat EXCEPT ![t] = "READY"]
             /\ r.prio = s.prio /\ r.timers = s.timers /\ r.rem = s.rem
             /\ r.cur = s.cur /\ r.lock = s.lock
             /\ \A u \in Thread, l \in List :
                  In(r, u, l) <=> In(s, u, l) \/ (u = t /\ l = s.prio[t])
<1> DEFINE p == s.prio[t]
           tl == Link(s.tl, p, t)
           r == rt_schedule_insert_thread(s, t)
<1>1. s \in KernelType /\ p \in Prio /\ p \in List /\ s.tl \in [List -> Seq(Thread)]
  BY ListFacts DEF WellFormed, KernelType
<1>2. /\ tl \in [List -> Seq(Thread)]
      /\ tl[p] # <<>>
      /\ \A m \in List : m # p => tl[m] = s.tl[m]
      /\ \A m \in List : /\ IsInjective(tl[m])
                         /\ Range(tl[m]) = Range(s.tl[m]) \cup (IF m = p THEN {t} ELSE {})
  <2>1. (\A m \in List : IsInjective(s.tl[m])) /\ t \notin Range(s.tl[p])
    BY <1>1 DEF WellFormed, In
  <2>2. s.tl \in [List -> Seq(Thread)] /\ p \in List
    BY <1>1
  <2> HIDE DEF p, r
  <2>3. tl \in [List -> Seq(Thread)] /\ tl[p] # <<>>
    BY <2>1, <2>2, LinkFacts
  <2>4. \A m \in List : m # p => tl[m] = s.tl[m]
    BY <2>2 DEF Link
  <2>5. \A m \in List : IsInjective(tl[m])
    BY <2>1, <2>2, LinkFacts
  <2>6. Range(tl[p]) = Range(s.tl[p]) \cup {t}
    BY <2>2, AppendFacts DEF Link
  <2> HIDE DEF tl
  <2> QED
    BY <2>3, <2>4, <2>5, <2>6
<1> HIDE DEF tl
<1>3. r = [s EXCEPT !.stat[t] = "READY", !.tl = tl, !.group = @ \cup {p}]
  BY DEF rt_schedule_insert_thread, tl
<1> HIDE DEF r
<1>4. /\ r.tl = tl /\ r.group = s.group \cup {p}
      /\ r.stat = [s.stat EXCEPT ![t] = "READY"]
      /\ r.prio = s.prio /\ r.timers = s.timers /\ r.rem = s.rem
      /\ r.cur = s.cur /\ r.lock = s.lock
  BY <1>1, <1>3 DEF KernelType
<1>5. r \in KernelType
  BY <1>1, <1>2, <1>3, Zenon DEF KernelType, Stat
<1>6. WellFormed(r)
  BY <1>1, <1>2, <1>4, <1>5, ListFacts DEF WellFormed
<1>7. \A u \in Thread, l \in List : In(r, u, l) <=> In(s, u, l) \/ (u = t /\ l = p)
  BY <1>2, <1>4 DEF In
<1> QED
  BY <1>4, <1>6, <1>7 DEF r

\* rt_schedule_remove_thread: at most one ready list holds the thread, the one of
\* its current priority.
LEMMA RemoveThread ==
  ASSUME NEW s, WellFormed(s), NEW t \in Thread,
         \A p \in Prio : In(s, t, p) => p = s.prio[t]
  PROVE  LET r == rt_schedule_remove_thread(s, t)
         IN  /\ WellFormed(r)
             /\ r.stat = s.stat
             /\ r.prio = s.prio /\ r.timers = s.timers /\ r.rem = s.rem
             /\ r.cur = s.cur /\ r.lock = s.lock
             /\ \A u \in Thread, l \in List : In(r, u, l) <=> In(s, u, l) /\ u # t
<1> DEFINE p == s.prio[t]
           tl == Unlink(s.tl, t)
           r == rt_schedule_remove_thread(s, t)
<1>1. s \in KernelType /\ p \in Prio /\ p \in List /\ s.tl \in [List -> Seq(Thread)]
  BY ListFacts DEF WellFormed, KernelType
<1>2. /\ tl \in [List -> Seq(Thread)]
      /\ \A l \in List : IsInjective(tl[l]) /\ Range(tl[l]) = Range(s.tl[l]) \ {t}
  BY <1>1, UnlinkFacts, Zenon DEF WellFormed
<1> HIDE DEF tl
<1>3. r = [s EXCEPT !.tl = tl, !.group = IF tl[p] = <<>> THEN @ \ {p} ELSE @]
  BY DEF rt_schedule_remove_thread, tl
<1> HIDE DEF r
<1>4. /\ r.tl = tl
      /\ r.group = IF tl[p] = <<>> THEN s.group \ {p} ELSE s.group
      /\ r.stat = s.stat
      /\ r.prio = s.prio /\ r.timers = s.timers /\ r.rem = s.rem
      /\ r.cur = s.cur /\ r.lock = s.lock
  BY <1>1, <1>3 DEF KernelType
<1>5. r \in KernelType
  BY <1>1, <1>2, <1>3, Zenon DEF KernelType
<1>6. \A q \in Prio : q # p => (tl[q] = <<>> <=> s.tl[q] = <<>>)
  <2> TAKE q \in Prio
  <2> HAVE q # p
  <2>1. q \in List /\ tl[q] \in Seq(Thread) /\ s.tl[q] \in Seq(Thread) /\ Range(tl[q]) = Range(s.tl[q])
    BY <1>1, <1>2, ListFacts, Zenon DEF In
  <2> QED
    BY <2>1, EmptyFacts
<1>7. tl[p] # <<>> => s.tl[p] # <<>>
  <2>1. tl[p] \in Seq(Thread) /\ s.tl[p] \in Seq(Thread) /\ Range(tl[p]) \subseteq Range(s.tl[p])
    BY <1>1, <1>2
  <2>2. (tl[p] = <<>> <=> Range(tl[p]) = {}) /\ (s.tl[p] = <<>> <=> Range(s.tl[p]) = {})
    <3> HIDE DEF p
    <3> QED
      BY <2>1, EmptyFacts
  <2> QED
    BY <2>1, <2>2
<1>8. WellFormed(r)
  BY <1>1, <1>2, <1>4, <1>5, <1>6, <1>7 DEF WellFormed
<1>9. \A u \in Thread, l \in List : In(r, u, l) <=> In(s, u, l) /\ u # t
  BY <1>2, <1>4 DEF In
<1> QED
  BY <1>4, <1>8, <1>9 DEF r

-----------------------------------------------------------------------------
\* The order of a list does not depend on the keys of what is not in it.
LEMMA SortedElsewhere ==
  ASSUME NEW T, NEW ts \in Seq(T), NEW f, NEW g, SortedBy(ts, f),
         \A u \in Range(ts) : g[u] = f[u]
  PROVE  SortedBy(ts, g)
<1>1. \A i \in 1 .. Len(ts) : ts[i] \in Range(ts)
  BY LenProperties DEF Range
<1> QED
  BY <1>1 DEF SortedBy

\* rt_timer_stop takes the timer off the list.
LEMMA StopTimer ==
  ASSUME NEW s, WellFormed(s), NEW t \in Thread
  PROVE  LET r == rt_timer_stop(s, t)
         IN  /\ WellFormed(r)
             /\ r.tl = s.tl /\ r.group = s.group /\ r.stat = s.stat
             /\ r.prio = s.prio /\ r.cur = s.cur /\ r.lock = s.lock
             /\ Range(r.timers) = Range(s.timers) \ {t}
             /\ \A u \in Thread \ {t} : r.rem[u] = s.rem[u]
<1> DEFINE r == rt_timer_stop(s, t)
           ts == rt_list_remove(s.timers, t)
<1>1. s \in KernelType /\ s.timers \in Seq(Thread) /\ s.rem \in [Thread -> -1 .. MaxTick]
  BY DEF WellFormed, KernelType
<1>2. /\ ts \in Seq(Thread) /\ IsInjective(ts)
      /\ Range(ts) = Range(s.timers) \ {t}
      /\ SortedBy(ts, s.rem)
  BY <1>1, RemoveFacts DEF WellFormed
<1> HIDE DEF ts
<1>3. r = [s EXCEPT !.timers = ts, !.rem[t] = 0]
  BY DEF rt_timer_stop, ts
<1> HIDE DEF r
<1>4. /\ r.tl = s.tl /\ r.group = s.group /\ r.stat = s.stat
      /\ r.prio = s.prio /\ r.cur = s.cur /\ r.lock = s.lock
      /\ r.timers = ts /\ r.rem = [s.rem EXCEPT ![t] = 0]
  BY <1>1, <1>3 DEF KernelType
<1>5. r \in KernelType
  <2>1. 0 \in -1 .. MaxTick
    BY KernelAssumption
  <2> QED
    BY <1>1, <1>2, <1>3, <2>1, Zenon DEF KernelType
<1>6. SortedBy(ts, r.rem)
  <2>1. \A u \in Range(ts) : r.rem[u] = s.rem[u]
    BY <1>1, <1>2, <1>4
  <2> QED
    BY <1>2, <2>1, SortedElsewhere
<1>7. WellFormed(r)
  BY <1>2, <1>4, <1>5, <1>6 DEF WellFormed
<1> QED
  BY <1>1, <1>2, <1>4, <1>7 DEF r

\* rt_timer_start puts the timer on the list, with n ticks to go.
LEMMA StartTimer ==
  ASSUME NEW s, WellFormed(s), NEW t \in Thread, NEW n \in 0 .. MaxTick
  PROVE  LET r == rt_timer_start(s, t, n)
         IN  /\ WellFormed(r)
             /\ r.tl = s.tl /\ r.group = s.group /\ r.stat = s.stat
             /\ r.prio = s.prio /\ r.cur = s.cur /\ r.lock = s.lock
             /\ Range(r.timers) = Range(s.timers) \cup {t}
             /\ r.rem = [s.rem EXCEPT ![t] = n]
<1> DEFINE r == rt_timer_start(s, t, n)
           others == rt_list_remove(s.timers, t)
           ts == rt_list_insert_before(others, FirstAbove(others, s.rem, n), t)
<1>1. s \in KernelType /\ s.timers \in Seq(Thread) /\ s.rem \in [Thread -> -1 .. MaxTick]
  BY DEF WellFormed, KernelType
<1>2. /\ others \in Seq(Thread) /\ IsInjective(others)
      /\ Range(others) = Range(s.timers) \ {t}
      /\ SortedBy(others, s.rem)
  BY <1>1, RemoveFacts DEF WellFormed
<1> HIDE DEF others
<1>3. s.rem \in [Thread -> Int] /\ n \in Int /\ n \in -1 .. MaxTick
  BY <1>1, KernelAssumption
<1>4. /\ ts \in Seq(Thread)
      /\ Range(ts) = Range(others) \cup {t}
      /\ IsInjective(ts)
      /\ SortedBy(ts, [s.rem EXCEPT ![t] = n])
  BY <1>2, <1>3, InsertSortedFacts, Zenon
<1>5. r = [s EXCEPT !.rem[t] = n, !.timers = ts]
  BY DEF rt_timer_start, others
<1> HIDE DEF r, ts
<1>6. /\ r.tl = s.tl /\ r.group = s.group /\ r.stat = s.stat
      /\ r.prio = s.prio /\ r.cur = s.cur /\ r.lock = s.lock
      /\ r.timers = ts /\ r.rem = [s.rem EXCEPT ![t] = n]
  BY <1>1, <1>5 DEF KernelType
<1>7. r \in KernelType
  BY <1>1, <1>3, <1>4, <1>5, Zenon DEF KernelType
<1>8. WellFormed(r)
  BY <1>4, <1>6, <1>7 DEF WellFormed
<1> QED
  BY <1>2, <1>4, <1>6, <1>8 DEF r

\* With some ready list not empty, rt_schedule has a thread to switch to, and
\* switches to it unless the scheduler is locked.
LEMMA Schedule ==
  ASSUME NEW s, WellFormed(s), NEW t \in Thread, NEW p \in Prio, In(s, t, p)
  PROVE  LET r == rt_schedule(s)
         IN  /\ WellFormed(r)
             /\ r.tl = s.tl /\ r.group = s.group /\ r.stat = s.stat
             /\ r.prio = s.prio /\ r.timers = s.timers /\ r.rem = s.rem /\ r.lock = s.lock
             /\ s.lock = 0 => r.cur = Highest(s)
             /\ s.lock # 0 => r.cur = s.cur
             /\ \E q \in Prio : In(s, Highest(s), q)
<1> DEFINE m == Min(s.group)
           r == rt_schedule(s)
<1>1. s \in KernelType /\ s.tl \in [List -> Seq(Thread)] /\ s.group \subseteq Prio
  BY DEF WellFormed, KernelType
<1>2. m \in s.group
  <2>1. s.tl[p] # <<>>
    BY <1>1, ListFacts, EmptyFacts DEF In
  <2>2. s.group # {} /\ s.group \in SUBSET Nat
    BY <1>1, <2>1, KernelAssumption DEF WellFormed, Prio
  <2> QED
    BY <2>2, MinOfNaturals
<1>3. m \in Prio /\ m \in List /\ s.tl[m] \in Seq(Thread) /\ s.tl[m] # <<>>
  BY <1>1, <1>2, ListFacts, Zenon DEF WellFormed
<1>4. Highest(s) \in Thread /\ In(s, Highest(s), m)
  <2> HIDE DEF m
  <2>1. Head(s.tl[m]) \in Range(s.tl[m]) /\ Head(s.tl[m]) \in Thread
    BY <1>3, EmptyFacts
  <2> QED
    BY <2>1 DEF Highest, In, m
<1>5. r = IF s.lock = 0 THEN [s EXCEPT !.cur = Highest(s)] ELSE s
  BY DEF rt_schedule
<1> HIDE DEF r, m
<1>6. /\ r.tl = s.tl /\ r.group = s.group /\ r.stat = s.stat
      /\ r.prio = s.prio /\ r.timers = s.timers /\ r.rem = s.rem /\ r.lock = s.lock
      /\ s.lock = 0 => r.cur = Highest(s)
      /\ s.lock # 0 => r.cur = s.cur
  BY <1>1, <1>5 DEF KernelType
<1>7. r \in KernelType
  BY <1>1, <1>4, <1>5, Zenon DEF KernelType
<1>8. WellFormed(r)
  BY <1>6, <1>7 DEF WellFormed
<1> QED
  BY <1>3, <1>4, <1>6, <1>8 DEF r

-----------------------------------------------------------------------------
(* The kernel functions on the states of a system whose threads wait only  *)
(* for their timers: a thread is linked in a list exactly while it is      *)
(* ready, and only suspended threads have a running timer.                 *)

Sound(s) ==
  /\ WellFormed(s)
  /\ \A t \in Thread, l \in List : In(s, t, l) <=> s.stat[t] = "READY" /\ l = s.prio[t]
  /\ \A t \in Range(s.timers) : s.stat[t] = "SUSPEND"
  /\ s.stat[Idle] = "READY"

LEMMA SoundTypes ==
  ASSUME NEW s, Sound(s)
  PROVE  /\ s \in KernelType
         /\ s.tl \in [List -> Seq(Thread)]
         /\ s.group \in SUBSET Prio
         /\ s.stat \in [Thread -> Stat]
         /\ s.prio \in [Thread -> Prio]
         /\ s.error \in [Thread -> Error]
         /\ s.slice \in [Thread -> 1 .. Slice]
         /\ s.timers \in Seq(Thread)
         /\ s.rem \in [Thread -> -1 .. MaxTick]
         /\ s.cur \in Thread
         /\ s.lock \in Nat
BY DEF Sound, WellFormed, KernelType

\* A timer in the list is the timer of a thread.
LEMMA TimersAreThreads ==
  ASSUME NEW s, Sound(s)
  PROVE  Range(s.timers) \subseteq Thread
<1>1. s.timers \in Seq(Thread)
  BY SoundTypes
<1> QED
  BY <1>1, LenProperties, ElementOfSeq DEF Range

\* rt_schedule.
LEMMA ScheduleSound ==
  ASSUME NEW s, Sound(s)
  PROVE  LET r == rt_schedule(s)
         IN  /\ Sound(r)
             /\ r.tl = s.tl /\ r.group = s.group /\ r.stat = s.stat
             /\ r.prio = s.prio /\ r.timers = s.timers /\ r.rem = s.rem /\ r.lock = s.lock
             /\ s.lock = 0 => r.cur = Highest(s)
             /\ s.lock # 0 => r.cur = s.cur
             /\ Highest(s) \in Thread /\ s.stat[Highest(s)] = "READY"
<1> DEFINE r == rt_schedule(s)
<1>1. WellFormed(s) /\ s.prio[Idle] \in Prio /\ Idle \in Thread
  BY SoundTypes, KernelAssumption DEF Sound
<1>2. In(s, Idle, s.prio[Idle])
  BY <1>1, ListFacts DEF Sound
<1>3. /\ WellFormed(r)
      /\ r.tl = s.tl /\ r.group = s.group /\ r.stat = s.stat
      /\ r.prio = s.prio /\ r.timers = s.timers /\ r.rem = s.rem /\ r.lock = s.lock
      /\ s.lock = 0 => r.cur = Highest(s)
      /\ s.lock # 0 => r.cur = s.cur
      /\ \E q \in Prio : In(s, Highest(s), q)
  BY <1>1, <1>2, Schedule
<1> HIDE DEF r
<1>4. Sound(r)
  BY <1>3 DEF Sound, In
<1>5. PICK q \in Prio : In(s, Highest(s), q)
  BY <1>3
<1>6. Highest(s) \in Thread
  <2>1. q \in List /\ s.tl[q] \in Seq(Thread)
    BY SoundTypes, ListFacts
  <2> QED
    BY <1>5, <2>1, LenProperties, ElementOfSeq DEF In, Range
<1>7. s.stat[Highest(s)] = "READY"
  BY <1>5, <1>6, ListFacts DEF Sound
<1> QED
  BY <1>3, <1>4, <1>6, <1>7 DEF r

\* The body of rt_thread_suspend, on any thread but the idle thread and whatever
\* the state of that thread has become since the check.
LEMMA SuspendSound ==
  ASSUME NEW s, Sound(s), NEW t \in Thread \ {Idle}
  PROVE  LET r == SuspendBody(s, t)
         IN  /\ Sound(r)
             /\ r.stat = [s.stat EXCEPT ![t] = "SUSPEND"]
             /\ r.prio = s.prio /\ r.cur = s.cur /\ r.lock = s.lock
             /\ Range(r.timers) = Range(s.timers) \ {t}
             /\ \A u \in Thread \ {t} : r.rem[u] = s.rem[u]
<1> DEFINE a == [s EXCEPT !.stat[t] = "SUSPEND"]
           b == rt_schedule_remove_thread(a, t)
           r == rt_timer_stop(b, t)
<1>1. WellFormed(s) /\ s \in KernelType
  BY DEF Sound, WellFormed
<1>2. /\ a.stat = [s.stat EXCEPT ![t] = "SUSPEND"]
      /\ a.tl = s.tl /\ a.group = s.group /\ a.prio = s.prio
      /\ a.timers = s.timers /\ a.rem = s.rem /\ a.cur = s.cur /\ a.lock = s.lock
  BY <1>1 DEF KernelType
<1>3. a \in KernelType
  BY <1>1, Zenon DEF KernelType, Stat
<1> HIDE DEF a
<1>4. WellFormed(a)
  BY <1>1, <1>2, <1>3 DEF WellFormed
<1>5. \A p \in Prio : In(a, t, p) => p = a.prio[t]
  BY <1>2, ListFacts DEF Sound, In
<1>6. /\ WellFormed(b) /\ b.stat = a.stat /\ b.prio = a.prio
      /\ b.timers = a.timers /\ b.rem = a.rem /\ b.cur = a.cur /\ b.lock = a.lock
      /\ \A u \in Thread, l \in List : In(b, u, l) <=> In(a, u, l) /\ u # t
  BY <1>4, <1>5, RemoveThread
<1> HIDE DEF b
<1>7. /\ WellFormed(r)
      /\ r.tl = b.tl /\ r.stat = b.stat /\ r.prio = b.prio /\ r.cur = b.cur /\ r.lock = b.lock
      /\ Range(r.timers) = Range(b.timers) \ {t}
      /\ \A u \in Thread \ {t} : r.rem[u] = b.rem[u]
  BY <1>6, StopTimer
<1> HIDE DEF r
<1>8. \A u \in Thread, l \in List : In(r, u, l) <=> In(s, u, l) /\ u # t
  BY <1>2, <1>6, <1>7 DEF In
<1>9. s.stat \in [Thread -> Stat] /\ Range(s.timers) \subseteq Thread /\ Idle \in Thread
  BY SoundTypes, TimersAreThreads, KernelAssumption
<1>10. Sound(r)
  BY <1>2, <1>6, <1>7, <1>8, <1>9 DEF Sound
<1> QED
  BY <1>2, <1>6, <1>7, <1>10 DEF SuspendBody, a, b, r

\* rt_schedule_insert_thread on a suspended thread whose timer is stopped.
LEMMA InsertSound ==
  ASSUME NEW s, Sound(s), NEW t \in Thread, s.stat[t] = "SUSPEND", t \notin Range(s.timers)
  PROVE  LET r == rt_schedule_insert_thread(s, t)
         IN  /\ Sound(r)
             /\ r.stat = [s.stat EXCEPT ![t] = "READY"]
             /\ r.prio = s.prio /\ r.timers = s.timers /\ r.rem = s.rem
             /\ r.cur = s.cur /\ r.lock = s.lock
<1> DEFINE r == rt_schedule_insert_thread(s, t)
<1>1. WellFormed(s) /\ \A l \in List : ~ In(s, t, l)
  BY DEF Sound
<1>2. /\ WellFormed(r)
      /\ r.stat = [s.stat EXCEPT ![t] = "READY"]
      /\ r.prio = s.prio /\ r.timers = s.timers /\ r.rem = s.rem
      /\ r.cur = s.cur /\ r.lock = s.lock
      /\ \A u \in Thread, l \in List :
           In(r, u, l) <=> In(s, u, l) \/ (u = t /\ l = s.prio[t])
  BY <1>1, InsertThread
<1> HIDE DEF r
<1>3. s.stat \in [Thread -> Stat] /\ Range(s.timers) \subseteq Thread /\ Idle \in Thread
  BY SoundTypes, TimersAreThreads, KernelAssumption
<1>4. Sound(r)
  BY <1>2, <1>3 DEF Sound
<1> QED
  BY <1>2, <1>4 DEF r

\* What the other fields hold does not matter.
LEMMA SameSound ==
  ASSUME NEW s, Sound(s), NEW r \in KernelType,
         r.tl = s.tl, r.group = s.group, r.stat = s.stat, r.prio = s.prio,
         r.timers = s.timers, r.rem = s.rem
  PROVE  Sound(r)
BY DEF Sound, WellFormed, In

\* The first critical section of rt_thread_resume, on a suspended thread whose
\* timer is stopped, does nothing.
LEMMA TakeOffSound ==
  ASSUME NEW s, Sound(s), NEW t \in Thread, s.stat[t] = "SUSPEND", t \notin Range(s.timers)
  PROVE  LET r == ResumeUnlink(s, t)
         IN  /\ Sound(r)
             /\ r.tl = s.tl /\ r.group = s.group /\ r.stat = s.stat /\ r.prio = s.prio
             /\ Range(r.timers) = Range(s.timers)
             /\ r.cur = s.cur /\ r.lock = s.lock
             /\ \A u \in Thread \ {t} : r.rem[u] = s.rem[u]
<1> DEFINE r == rt_timer_stop(s, t)
<1>1. Unlink(s.tl, t) = s.tl
  <2>1. s.tl \in [List -> Seq(Thread)] /\ \A l \in List : t \notin Range(s.tl[l])
    BY SoundTypes DEF Sound, In
  <2> QED
    BY <2>1, UnlinkNothing
<1>2. [s EXCEPT !.tl = Unlink(s.tl, t)] = s
  BY <1>1, SoundTypes DEF KernelType
<1>3. ResumeUnlink(s, t) = r
  BY <1>2 DEF ResumeUnlink
<1>4. /\ WellFormed(r)
      /\ r.tl = s.tl /\ r.group = s.group /\ r.stat = s.stat
      /\ r.prio = s.prio /\ r.cur = s.cur /\ r.lock = s.lock
      /\ Range(r.timers) = Range(s.timers) \ {t}
      /\ \A u \in Thread \ {t} : r.rem[u] = s.rem[u]
  BY StopTimer DEF Sound
<1> HIDE DEF r
<1>5. Sound(r) /\ Range(r.timers) = Range(s.timers)
  BY <1>4 DEF Sound, In
<1> QED
  BY <1>3, <1>4, <1>5

\* rt_thread_yield's move of a ready thread to the end of its list.
LEMMA MoveSound ==
  ASSUME NEW s, Sound(s), NEW t \in Thread, s.stat[t] = "READY"
  PROVE  LET r == MoveToTail(s, t)
         IN  /\ Sound(r)
             /\ r.stat = s.stat /\ r.prio = s.prio /\ r.timers = s.timers /\ r.rem = s.rem
             /\ r.cur = s.cur /\ r.lock = s.lock
<1> DEFINE p == s.prio[t]
           u == Unlink(s.tl, t)
           v == Link(u, p, t)
           r == [s EXCEPT !.tl = v]
<1>1. p \in Prio /\ p \in List
  BY SoundTypes, ListFacts
<1>2. /\ u \in [List -> Seq(Thread)]
      /\ \A l \in List : IsInjective(u[l]) /\ Range(u[l]) = Range(s.tl[l]) \ {t}
  BY SoundTypes, UnlinkFacts, Zenon DEF Sound, WellFormed
<1> HIDE DEF u, p
<1>3. /\ v \in [List -> Seq(Thread)]
      /\ \A l \in List : IsInjective(v[l])
  BY <1>1, <1>2, LinkFacts
<1>4. \A l \in List : l # p => v[l] = u[l]
  BY <1>1, <1>2 DEF Link
<1>5. v[p] # <<>> /\ Range(v[p]) = Range(u[p]) \cup {t}
  BY <1>1, <1>2, AppendFacts DEF Link
<1> HIDE DEF v
<1>6. \A l \in List : Range(v[l]) = Range(s.tl[l])
  <2> TAKE l \in List
  <2>1. CASE l = p
    <3>1. t \in Range(s.tl[p])
      BY <1>1 DEF Sound, In, p
    <3> QED
      BY <1>1, <1>2, <1>5, <2>1, <3>1, Zenon
  <2>2. CASE l # p
    <3>1. t \notin Range(s.tl[l])
      BY <2>2 DEF Sound, In, p
    <3> QED
      BY <1>2, <1>4, <2>2, <3>1, Zenon
  <2> QED
    BY <2>1, <2>2
<1>7. \A l \in List : v[l] = <<>> <=> s.tl[l] = <<>>
  <2> TAKE l \in List
  <2>1. v[l] \in Seq(Thread) /\ s.tl[l] \in Seq(Thread)
    BY <1>3, SoundTypes
  <2> QED
    BY <1>6, <2>1, EmptyFacts
<1>8. /\ r \in KernelType
      /\ r.tl = v /\ r.group = s.group /\ r.stat = s.stat /\ r.prio = s.prio
      /\ r.timers = s.timers /\ r.rem = s.rem /\ r.cur = s.cur /\ r.lock = s.lock
  <2>1. s \in KernelType
    BY SoundTypes
  <2> QED
    BY <1>3, <2>1, Zenon DEF KernelType
<1> HIDE DEF r
<1>9. WellFormed(r)
  BY <1>3, <1>7, <1>8, ListFacts DEF Sound, WellFormed
<1>10. Sound(r)
  BY <1>6, <1>8, <1>9 DEF Sound, In
<1> QED
  BY <1>8, <1>10 DEF MoveToTail, r, v, u, p

\* rt_thread_control, RT_THREAD_CTRL_CHANGE_PRIORITY.
LEMMA ChangePrioritySound ==
  ASSUME NEW s, Sound(s), NEW t \in Thread, NEW p \in Prio
  PROVE  LET r == ChangePriority(s, t, p)
         IN  /\ Sound(r)
             /\ r.stat = s.stat /\ r.timers = s.timers /\ r.rem = s.rem
             /\ r.cur = s.cur /\ r.lock = s.lock
<1>1. CASE s.stat[t] = "READY"
  <2> DEFINE a == rt_schedule_remove_thread(s, t)
             b == [a EXCEPT !.prio[t] = p]
             r == rt_schedule_insert_thread(b, t)
  <2>1. WellFormed(s) /\ \A q \in Prio : In(s, t, q) => q = s.prio[t]
    BY ListFacts DEF Sound
  <2>2. /\ WellFormed(a)
        /\ a.stat = s.stat
        /\ a.prio = s.prio /\ a.timers = s.timers /\ a.rem = s.rem
        /\ a.cur = s.cur /\ a.lock = s.lock
        /\ \A u \in Thread, l \in List : In(a, u, l) <=> In(s, u, l) /\ u # t
    BY <2>1, RemoveThread
  <2> HIDE DEF a
  <2>3. a \in KernelType
    BY <2>2 DEF WellFormed
  <2>4. /\ b.tl = a.tl /\ b.group = a.group /\ b.stat = a.stat
        /\ b.timers = a.timers /\ b.rem = a.rem /\ b.cur = a.cur /\ b.lock = a.lock
        /\ b.prio = [a.prio EXCEPT ![t] = p]
        /\ b \in KernelType
    BY <2>3, Zenon DEF KernelType
  <2> HIDE DEF b
  <2>5. WellFormed(b)
    BY <2>2, <2>4 DEF WellFormed
  <2>6. \A u \in Thread, l \in List : In(b, u, l) <=> In(s, u, l) /\ u # t
    BY <2>2, <2>4 DEF In
  <2>7. /\ WellFormed(r)
        /\ r.stat = [b.stat EXCEPT ![t] = "READY"]
        /\ r.prio = b.prio /\ r.timers = b.timers /\ r.rem = b.rem
        /\ r.cur = b.cur /\ r.lock = b.lock
        /\ \A u \in Thread, l \in List :
             In(r, u, l) <=> In(b, u, l) \/ (u = t /\ l = b.prio[t])
    BY <2>5, <2>6, InsertThread
  <2> HIDE DEF r
  <2>8. r.stat = s.stat
    BY <1>1, <2>2, <2>4, <2>7, SoundTypes, SMTT(60)
  <2>9. s.prio \in [Thread -> Prio] /\ r.prio = [s.prio EXCEPT ![t] = p]
    BY <2>2, <2>4, <2>7, SoundTypes
  <2>10. \A u \in Thread, l \in List : In(r, u, l) <=> r.stat[u] = "READY" /\ l = r.prio[u]
    <3> TAKE u \in Thread, l \in List
    <3>1. CASE u = t
      BY <1>1, <2>4, <2>6, <2>7, <2>8, <2>9, <3>1, ZenonT(60)
    <3>2. CASE u # t
      <4>1. In(r, u, l) <=> In(s, u, l)
        BY <2>6, <2>7, <3>2
      <4>2. r.prio[u] = s.prio[u]
        BY <2>9, <3>2
      <4> QED
        BY <2>8, <4>1, <4>2 DEF Sound
    <3> QED
      BY <3>1, <3>2
  <2>11. Sound(r)
    BY <2>2, <2>4, <2>7, <2>8, <2>10, SMTT(60) DEF Sound
  <2> QED
    BY <1>1, <2>2, <2>4, <2>7, <2>8, <2>11 DEF ChangePriority, r, b, a
<1>2. CASE s.stat[t] # "READY"
  <2> DEFINE r == [s EXCEPT !.prio[t] = p]
  <2>1. s \in KernelType
    BY SoundTypes
  <2>2. /\ r.tl = s.tl /\ r.group = s.group /\ r.stat = s.stat
        /\ r.timers = s.timers /\ r.rem = s.rem /\ r.cur = s.cur /\ r.lock = s.lock
        /\ r.prio = [s.prio EXCEPT ![t] = p]
        /\ r \in KernelType
    BY <2>1, Zenon DEF KernelType
  <2> HIDE DEF r
  <2>3. WellFormed(r)
    BY <2>2 DEF Sound, WellFormed
  <2>4. \A u \in Thread, l \in List : In(r, u, l) <=> r.stat[u] = "READY" /\ l = r.prio[u]
    BY <1>2, <2>2, SoundTypes, SMTT(60) DEF Sound, In
  <2>5. Sound(r)
    BY <2>2, <2>3, <2>4 DEF Sound
  <2> QED
    BY <1>2, <2>2, <2>5 DEF ChangePriority, r
<1> QED
  BY <1>1, <1>2

\* The expiry of a thread timer: rt_timer_check takes it off the list and calls
\* rt_thread_timeout.
LEMMA TimeoutSound ==
  ASSUME NEW s, Sound(s), NEW t \in Range(s.timers)
  PROVE  LET r == rt_thread_timeout(rt_timer_stop(s, t), t)
         IN  /\ Sound(r)
             /\ r.stat = [s.stat EXCEPT ![t] = "READY"]
             /\ r.prio = s.prio /\ r.lock = s.lock
             /\ Range(r.timers) = Range(s.timers) \ {t}
             /\ \A u \in Thread \ {t} : r.rem[u] = s.rem[u]
             /\ s.lock = 0 => r.cur = Highest(r)
<1> DEFINE a == rt_timer_stop(s, t)
           b == [a EXCEPT !.error[t] = "ETIMEOUT", !.tl = Unlink(@, t)]
           c == rt_schedule_insert_thread(b, t)
           r == rt_schedule(c)
<1>0. t \in Thread /\ s.stat[t] = "SUSPEND"
  BY TimersAreThreads DEF Sound
<1>1. /\ WellFormed(a)
      /\ a.tl = s.tl /\ a.group = s.group /\ a.stat = s.stat
      /\ a.prio = s.prio /\ a.cur = s.cur /\ a.lock = s.lock
      /\ Range(a.timers) = Range(s.timers) \ {t}
      /\ \A u \in Thread \ {t} : a.rem[u] = s.rem[u]
  BY <1>0, StopTimer DEF Sound
<1> HIDE DEF a
<1>2. Sound(a)
  BY <1>1 DEF Sound, In
<1>3. Unlink(a.tl, t) = a.tl
  <2>1. a.tl \in [List -> Seq(Thread)] /\ \A l \in List : t \notin Range(a.tl[l])
    BY <1>0, <1>1, <1>2, SoundTypes DEF Sound, In
  <2> QED
    BY <2>1, UnlinkNothing
<1>4. /\ b.tl = a.tl /\ b.group = a.group /\ b.stat = a.stat /\ b.prio = a.prio
      /\ b.timers = a.timers /\ b.rem = a.rem /\ b.cur = a.cur /\ b.lock = a.lock
      /\ b \in KernelType
  <2>1. a \in KernelType
    BY <1>2, SoundTypes
  <2>2. b = [a EXCEPT !.error[t] = "ETIMEOUT", !.tl = a.tl]
    BY <1>3
  <2> HIDE DEF b
  <2> QED
    BY <2>1, <2>2, Zenon DEF KernelType, Error
<1> HIDE DEF b
<1>5. Sound(b)
  BY <1>2, <1>4, SameSound
<1>6. /\ Sound(c)
      /\ c.stat = [b.stat EXCEPT ![t] = "READY"]
      /\ c.prio = b.prio /\ c.timers = b.timers /\ c.rem = b.rem
      /\ c.cur = b.cur /\ c.lock = b.lock
  BY <1>0, <1>1, <1>4, <1>5, InsertSound
<1> HIDE DEF c
<1>7. /\ Sound(r)
      /\ r.tl = c.tl /\ r.group = c.group /\ r.stat = c.stat
      /\ r.prio = c.prio /\ r.timers = c.timers /\ r.rem = c.rem /\ r.lock = c.lock
      /\ c.lock = 0 => r.cur = Highest(c)
  BY <1>6, ScheduleSound
<1> HIDE DEF r
<1>8. Highest(r) = Highest(c)
  BY <1>7 DEF Highest
<1> QED
  BY <1>1, <1>4, <1>6, <1>7, <1>8, SMTT(60) DEF rt_thread_timeout, r, c, b, a

\* ++ rt_tick, when no running timer is overdue.
LEMMA ElapseSound ==
  ASSUME NEW s, Sound(s), \A t \in Range(s.timers) : s.rem[t] >= 0
  PROVE  LET r == Elapse(s)
         IN  /\ Sound(r)
             /\ r.tl = s.tl /\ r.group = s.group /\ r.stat = s.stat /\ r.prio = s.prio
             /\ r.timers = s.timers /\ r.cur = s.cur /\ r.lock = s.lock
<1> DEFINE f == [t \in Thread |-> IF t \in Range(s.timers) THEN s.rem[t] - 1 ELSE s.rem[t]]
           r == [s EXCEPT !.rem = f]
<1>1. /\ s \in KernelType /\ s.rem \in [Thread -> -1 .. MaxTick] /\ s.timers \in Seq(Thread)
      /\ Range(s.timers) \subseteq Thread
  BY SoundTypes, TimersAreThreads
<1>2. f \in [Thread -> -1 .. MaxTick]
  BY <1>1, KernelAssumption
<1>3. SortedBy(s.timers, f)
  <2> SUFFICES ASSUME NEW i \in 1 .. Len(s.timers), NEW j \in 1 .. Len(s.timers), i < j
               PROVE  f[s.timers[i]] <= f[s.timers[j]]
    BY DEF SortedBy
  <2> DEFINE x == s.timers[i]
             y == s.timers[j]
  <2>1. x \in Range(s.timers) /\ y \in Range(s.timers)
    BY <1>1, LenProperties DEF Range
  <2>2. s.rem[x] <= s.rem[y]
    BY DEF Sound, WellFormed, SortedBy
  <2>3. \A t \in Range(s.timers) : s.rem[t] \in Int /\ f[t] = s.rem[t] - 1
    BY <1>1
  <2> HIDE DEF f, x, y
  <2>4. f[x] <= f[y]
    BY <2>1, <2>2, <2>3
  <2> QED
    BY <2>4 DEF x, y
<1> HIDE DEF f
<1>4. /\ r.tl = s.tl /\ r.group = s.group /\ r.stat = s.stat /\ r.prio = s.prio
      /\ r.timers = s.timers /\ r.cur = s.cur /\ r.lock = s.lock /\ r.rem = f
      /\ r \in KernelType
  BY <1>1, <1>2, Zenon DEF KernelType
<1> HIDE DEF r
<1>5. Sound(r)
  BY <1>3, <1>4 DEF Sound, WellFormed, In
<1> QED
  BY <1>4, <1>5 DEF Elapse, r, f

\* The accounting of the time slice; a thread that used its slice yields, and then
\* the scheduler chooses.
LEMMA TimeSliceSound ==
  ASSUME NEW s, Sound(s)
  PROVE  LET r == TimeSlice(s)
         IN  /\ Sound(r)
             /\ r.stat = s.stat /\ r.prio = s.prio /\ r.timers = s.timers /\ r.rem = s.rem
             /\ r.lock = s.lock
             /\ \/ r.tl = s.tl /\ r.group = s.group /\ r.cur = s.cur
                \/ s.lock = 0 => r.cur = Highest(r)
<1> DEFINE t == s.cur
<1>1. s \in KernelType /\ t \in Thread /\ s.slice[t] \in 1 .. Slice /\ Slice \in Nat \ {0}
  BY SoundTypes, KernelAssumption
<1>2. ASSUME NEW n \in 1 .. Slice
      PROVE  LET r == [s EXCEPT !.slice[t] = n]
             IN  /\ Sound(r)
                 /\ r.tl = s.tl /\ r.group = s.group /\ r.stat = s.stat /\ r.prio = s.prio
                 /\ r.timers = s.timers /\ r.rem = s.rem /\ r.cur = s.cur /\ r.lock = s.lock
  <2> DEFINE r == [s EXCEPT !.slice[t] = n]
  <2>1. /\ r.tl = s.tl /\ r.group = s.group /\ r.stat = s.stat /\ r.prio = s.prio
        /\ r.timers = s.timers /\ r.rem = s.rem /\ r.cur = s.cur /\ r.lock = s.lock
        /\ r \in KernelType
    BY <1>1, Zenon DEF KernelType
  <2> HIDE DEF r
  <2>2. Sound(r)
    BY <2>1, SameSound
  <2> QED
    BY <2>1, <2>2 DEF r
<1>3. CASE s.slice[t] > 1
  <2>1. s.slice[t] - 1 \in 1 .. Slice
    BY <1>1, <1>3
  <2>2. TimeSlice(s) = [s EXCEPT !.slice[t] = s.slice[t] - 1]
    BY <1>3 DEF TimeSlice
  <2> QED
    BY <1>2, <2>1, <2>2
<1>4. CASE ~ (s.slice[t] > 1)
  <2> DEFINE a == [s EXCEPT !.slice[t] = Slice]
             b == MoveToTail(a, t)
             r == rt_schedule(b)
  <2>1. Slice \in 1 .. Slice
    BY <1>1
  <2>2. /\ Sound(a)
        /\ a.tl = s.tl /\ a.group = s.group /\ a.stat = s.stat /\ a.prio = s.prio
        /\ a.timers = s.timers /\ a.rem = s.rem /\ a.cur = s.cur /\ a.lock = s.lock
    BY <1>2, <2>1
  <2>3. TimeSlice(s) = IF Yields(a) THEN r ELSE a
    BY <1>4 DEF TimeSlice
  <2> HIDE DEF a
  <2>4. CASE Yields(a)
    <3>1. a.stat[t] = "READY"
      BY <2>2, <2>4 DEF Yields
    <3>2. /\ Sound(b)
          /\ b.stat = a.stat /\ b.prio = a.prio /\ b.timers = a.timers /\ b.rem = a.rem
          /\ b.cur = a.cur /\ b.lock = a.lock
      BY <1>1, <2>2, <3>1, MoveSound
    <3> HIDE DEF b
    <3>3. /\ Sound(r)
          /\ r.tl = b.tl /\ r.group = b.group /\ r.stat = b.stat
          /\ r.prio = b.prio /\ r.timers = b.timers /\ r.rem = b.rem /\ r.lock = b.lock
          /\ b.lock = 0 => r.cur = Highest(b)
      BY <3>2, ScheduleSound
    <3> HIDE DEF r
    <3>4. Highest(r) = Highest(b)
      BY <3>3 DEF Highest
    <3> QED
      BY <2>2, <2>3, <2>4, <3>2, <3>3, <3>4
  <2>5. CASE ~ Yields(a)
    BY <2>2, <2>3, <2>5
  <2> QED
    BY <2>4, <2>5
<1> QED
  BY <1>3, <1>4
=============================================================================
