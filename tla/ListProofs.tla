----------------------------- MODULE ListProofs -----------------------------
(***************************************************************************)
(* What the list operations of the kernel do to the members of a list: the *)
(* facts every proof about a state with lists rests on.                    *)
(***************************************************************************)
EXTENDS Lists, SequenceTheorems, WellFoundedInduction, TLAPS


\* A set of naturals has a least element, the one Min chooses.
LEMMA MinOfNaturals ==
  ASSUME NEW S \in SUBSET Nat, S # {}
  PROVE  Min(S) \in S /\ \A i \in S : Min(S) <= i
<1>1. PICK m \in S : \A i \in S : ~ (<<i, m>> \in OpToRel(<, Nat))
  BY NatLessThanWellFounded, WFMin, Zenon
<1>2. \A i, j \in Nat : i < j => <<i, j>> \in OpToRel(<, Nat)
  BY Zenon DEF OpToRel
<1>3. \A i \in S : m <= i
  <2> TAKE i \in S
  <2>1. ~ (i < m)
    BY <1>1, <1>2, Zenon
  <2> QED
    BY <2>1
<1> QED
  BY <1>3, Zenon DEF Min

\* Removing the element at position i shifts the ones behind it.
LEMMA CutFacts ==
  ASSUME NEW T, NEW s \in Seq(T), NEW i \in 1 .. Len(s)
  PROVE  /\ Cut(s, i) \in Seq(T)
         /\ Len(Cut(s, i)) = Len(s) - 1
         /\ \A j \in 1 .. Len(s) - 1 :
              Cut(s, i)[j] = IF j < i THEN s[j] ELSE s[j + 1]
<1> DEFINE u == SubSeq(s, 1, i - 1)
           v == SubSeq(s, i + 1, Len(s))
<1>1. u \in Seq(T) /\ Len(u) = i - 1 /\ \A j \in 1 .. i - 1 : u[j] = s[j]
  BY SubSeqProperties, ElementOfSeq, LenProperties
<1>2. v \in Seq(T) /\ Len(v) = Len(s) - i /\ \A j \in 1 .. Len(s) - i : v[j] = s[i + j]
  BY SubSeqProperties, ElementOfSeq, LenProperties
<1> HIDE DEF u, v
<1>3. /\ u \o v \in Seq(T)
      /\ Len(u \o v) = Len(u) + Len(v)
      /\ \A j \in 1 .. Len(u) + Len(v) :
           (u \o v)[j] = IF j <= Len(u) THEN u[j] ELSE v[j - Len(u)]
  BY <1>1, <1>2, ConcatProperties, Zenon
<1>4. ASSUME NEW j \in 1 .. Len(s) - 1
      PROVE  (u \o v)[j] = IF j < i THEN s[j] ELSE s[j + 1]
  <2>1. CASE j < i
    BY <1>1, <1>2, <1>3, <2>1
  <2>2. CASE ~ (j < i)
    <3>1. (u \o v)[j] = v[j - (i - 1)] /\ j - (i - 1) \in 1 .. Len(s) - i
      BY <1>1, <1>2, <1>3, <2>2
    <3> QED
      BY <1>2, <2>2, <3>1
  <2> QED
    BY <2>1, <2>2, Zenon
<1>5. Cut(s, i) = u \o v
  BY DEF Cut, u, v
<1> QED
  BY <1>1, <1>2, <1>3, <1>4, <1>5

\* Inserting an element at position i shifts the ones from there on.
LEMMA InsertFacts ==
  ASSUME NEW T, NEW s \in Seq(T), NEW i \in 1 .. Len(s) + 1, NEW t \in T
  PROVE  /\ rt_list_insert_before(s, i, t) \in Seq(T)
         /\ Len(rt_list_insert_before(s, i, t)) = Len(s) + 1
         /\ \A j \in 1 .. Len(s) + 1 :
              rt_list_insert_before(s, i, t)[j] = IF j < i THEN s[j]
                                     ELSE IF j = i THEN t ELSE s[j - 1]
<1> DEFINE u == SubSeq(s, 1, i - 1)
           v == SubSeq(s, i, Len(s))
           w == u \o <<t>>
<1>1. u \in Seq(T) /\ Len(u) = i - 1 /\ \A j \in 1 .. i - 1 : u[j] = s[j]
  BY SubSeqProperties, ElementOfSeq, LenProperties
<1>2. /\ v \in Seq(T)
      /\ Len(v) = Len(s) - i + 1
      /\ \A j \in 1 .. Len(s) - i + 1 : v[j] = s[i + j - 1]
  BY SubSeqProperties, ElementOfSeq, LenProperties
<1> HIDE DEF u, v
<1>3. w \in Seq(T) /\ Len(w) = i /\ \A j \in 1 .. i : w[j] = IF j < i THEN u[j] ELSE t
  BY <1>1, ConcatProperties
<1> HIDE DEF w
<1>4. /\ w \o v \in Seq(T)
      /\ Len(w \o v) = Len(s) + 1
      /\ \A j \in 1 .. Len(s) + 1 : (w \o v)[j] = IF j <= i THEN w[j] ELSE v[j - i]
  BY <1>2, <1>3, ConcatProperties
<1>5. ASSUME NEW j \in 1 .. Len(s) + 1
      PROVE  (w \o v)[j] = IF j < i THEN s[j] ELSE IF j = i THEN t ELSE s[j - 1]
  <2>1. CASE j <= i
    BY <1>1, <1>3, <1>4, <2>1, SMTT(20)
  <2>2. CASE ~ (j <= i)
    <3>1. (w \o v)[j] = v[j - i] /\ j - i \in 1 .. Len(s) - i + 1
      BY <1>2, <1>4, <2>2
    <3> QED
      BY <1>2, <2>2, <3>1, SMTT(30)
  <2> QED
    BY <2>1, <2>2, Zenon
<1>6. rt_list_insert_before(s, i, t) = w \o v
  BY DEF rt_list_insert_before, u, v, w
<1> QED
  BY <1>4, <1>5, <1>6

-----------------------------------------------------------------------------
\* A list whose elements are ordered by key, as rt_timer_start keeps rt_timer_list.
SortedBy(s, key) == \A i, j \in 1 .. Len(s) : i < j => key[s[i]] <= key[s[j]]

\* rt_list_remove removes one occurrence, or nothing.
LEMMA RemoveIsCut ==
  ASSUME NEW T, NEW s \in Seq(T), NEW t
  PROVE  \/ t \notin Range(s) /\ rt_list_remove(s, t) = s
         \/ \E i \in 1 .. Len(s) : s[i] = t /\ rt_list_remove(s, t) = Cut(s, i)
<1> DEFINE I == {i \in 1 .. Len(s) : s[i] = t}
<1>0. DOMAIN s = 1 .. Len(s) /\ Len(s) \in Nat
  BY LenProperties
<1>1. CASE I = {}
  BY <1>0, <1>1, Zenon DEF Range, rt_list_remove
<1>2. CASE I # {}
  <2>1. Min(I) \in I
    <3>1. I \in SUBSET Nat
      BY <1>0
    <3> QED
      BY <1>2, <3>1, MinOfNaturals
  <2>2. rt_list_remove(s, t) = Cut(s, Min(I))
    BY <1>2, Zenon DEF rt_list_remove
  <2> QED
    BY <2>1, <2>2, Zenon
<1> QED
  BY <1>1, <1>2

\* rt_list_remove: the list without the thread, in the same order.
LEMMA RemoveFacts ==
  ASSUME NEW T, NEW s \in Seq(T), NEW t, IsInjective(s)
  PROVE  /\ rt_list_remove(s, t) \in Seq(T)
         /\ IsInjective(rt_list_remove(s, t))
         /\ Range(rt_list_remove(s, t)) = Range(s) \ {t}
         /\ \A key : SortedBy(s, key) => SortedBy(rt_list_remove(s, t), key)
<1> DEFINE r == rt_list_remove(s, t)
<1>0. DOMAIN s = 1 .. Len(s) /\ Len(s) \in Nat
  BY LenProperties
<1>1. CASE t \notin Range(s) /\ r = s
  BY <1>1
<1>2. ASSUME NEW i \in 1 .. Len(s), s[i] = t, r = Cut(s, i)
      PROVE  /\ r \in Seq(T)
             /\ IsInjective(r)
             /\ Range(r) = Range(s) \ {t}
             /\ \A key : SortedBy(s, key) => SortedBy(r, key)
  <2> HIDE DEF r
  <2>1. /\ r \in Seq(T)
        /\ Len(r) = Len(s) - 1
        /\ DOMAIN r = 1 .. Len(s) - 1
        /\ \A j \in 1 .. Len(s) - 1 : r[j] = IF j < i THEN s[j] ELSE s[j + 1]
    BY <1>2, CutFacts, LenProperties, Zenon
  <2>2. IsInjective(r)
    <3> SUFFICES ASSUME NEW a \in 1 .. Len(s) - 1, NEW b \in 1 .. Len(s) - 1, r[a] = r[b]
                 PROVE  a = b
      BY <2>1 DEF IsInjective
    <3>1. \A c, d \in 1 .. Len(s) : s[c] = s[d] => c = d
      BY <1>0 DEF IsInjective
    <3> QED
      BY <1>0, <2>1, <3>1
  <2>3. Range(r) \subseteq Range(s) \ {t}
    <3> SUFFICES ASSUME NEW a \in 1 .. Len(s) - 1
                 PROVE  r[a] \in Range(s) \ {t}
      BY <2>1 DEF Range
    <3> DEFINE c == IF a < i THEN a ELSE a + 1
    <3>1. c \in 1 .. Len(s) /\ c # i /\ r[a] = s[c]
      BY <1>0, <2>1
    <3> QED
      BY <1>0, <1>2, <3>1 DEF Range, IsInjective
  <2>4. Range(s) \ {t} \subseteq Range(r)
    <3> SUFFICES ASSUME NEW c \in 1 .. Len(s), c # i
                 PROVE  s[c] \in Range(r)
      BY <1>0, <1>2 DEF Range
    <3> DEFINE a == IF c < i THEN c ELSE c - 1
    <3>1. a \in 1 .. Len(s) - 1 /\ r[a] = s[c]
      BY <1>0, <2>1
    <3> QED
      BY <2>1, <3>1, ZenonT(30) DEF Range
  <2>5. ASSUME NEW key, SortedBy(s, key)
        PROVE  SortedBy(r, key)
    <3> SUFFICES ASSUME NEW a \in 1 .. Len(r), NEW b \in 1 .. Len(r), a < b
                 PROVE  key[r[a]] <= key[r[b]]
      BY DEF SortedBy
    <3> DEFINE c == IF a < i THEN a ELSE a + 1
               d == IF b < i THEN b ELSE b + 1
    <3>1. c \in 1 .. Len(s) /\ d \in 1 .. Len(s) /\ c < d /\ r[a] = s[c] /\ r[b] = s[d]
      BY <1>0, <2>1
    <3> HIDE DEF c, d
    <3> QED
      BY <2>5, <3>1 DEF SortedBy
  <2> QED
    BY <2>1, <2>2, <2>3, <2>4, <2>5
<1> QED
  BY <1>1, <1>2, RemoveIsCut

\* rt_list_insert_before the list head: the list with the thread at the end.
LEMMA AppendFacts ==
  ASSUME NEW T, NEW s \in Seq(T), NEW t \in T
  PROVE  /\ Append(s, t) \in Seq(T)
         /\ Append(s, t) # <<>>
         /\ Range(Append(s, t)) = Range(s) \cup {t}
         /\ IsInjective(s) /\ t \notin Range(s) => IsInjective(Append(s, t))
<1> DEFINE r == Append(s, t)
<1>1. /\ r \in Seq(T)
      /\ Len(r) = Len(s) + 1
      /\ DOMAIN r = 1 .. Len(s) + 1
      /\ \A i \in 1 .. Len(s) : r[i] = s[i]
      /\ r[Len(s) + 1] = t
      /\ DOMAIN s = 1 .. Len(s) /\ Len(s) \in Nat
  BY AppendProperties, LenProperties
<1> HIDE DEF r
<1>2. Range(r) = Range(s) \cup {t}
  BY <1>1 DEF Range
<1>3. r # <<>>
  BY <1>1
<1>4. ASSUME IsInjective(s), t \notin Range(s)
      PROVE  IsInjective(r)
  BY <1>1, <1>4 DEF IsInjective, Range
<1> QED
  BY <1>1, <1>2, <1>3, <1>4 DEF r

\* A sequence is empty exactly when it has no members.
LEMMA EmptyFacts ==
  ASSUME NEW T, NEW s \in Seq(T)
  PROVE  /\ s = <<>> <=> Range(s) = {}
         /\ s # <<>> => Head(s) \in Range(s) /\ Head(s) \in T /\ Head(s) = s[1]
<1>1. DOMAIN s = 1 .. Len(s) /\ Len(s) \in Nat
  BY LenProperties
<1>2. CASE s = <<>>
  BY <1>1, <1>2 DEF Range
<1>3. CASE s # <<>>
  <2>1. 1 \in DOMAIN s
    BY <1>1, <1>3, EmptySeq
  <2>2. Head(s) = s[1] /\ s[1] \in T
    BY <1>1, <1>3, <2>1, ElementOfSeq
  <2> QED
    BY <1>3, <2>1, <2>2 DEF Range
<1> QED
  BY <1>2, <1>3

\* rt_timer_start's search for the place of a new key keeps the list sorted.
LEMMA InsertSortedFacts ==
  ASSUME NEW T, NEW s \in Seq(T), NEW t \in T, t \notin Range(s), IsInjective(s),
         NEW key \in [T -> Int], NEW n \in Int, SortedBy(s, key)
  PROVE  LET r == rt_list_insert_before(s, FirstAbove(s, key, n), t)
         IN  /\ r \in Seq(T)
             /\ Range(r) = Range(s) \cup {t}
             /\ IsInjective(r)
             /\ SortedBy(r, [key EXCEPT ![t] = n])
<1> DEFINE A == {i \in 1 .. Len(s) : key[s[i]] > n} \cup {Len(s) + 1}
           p == FirstAbove(s, key, n)
           r == rt_list_insert_before(s, p, t)
           f == [key EXCEPT ![t] = n]
<1>0. /\ DOMAIN s = 1 .. Len(s) /\ Len(s) \in Nat
      /\ \A i \in 1 .. Len(s) : s[i] \in T /\ s[i] # t
  BY LenProperties, ElementOfSeq DEF Range
<1>1. /\ p \in 1 .. Len(s) + 1
      /\ \A i \in 1 .. Len(s) : i < p => key[s[i]] <= n
      /\ p <= Len(s) => key[s[p]] > n
  <2>1. A \in SUBSET Nat /\ A # {}
    BY <1>0
  <2>2. Min(A) \in A /\ \A i \in A : Min(A) <= i
    BY <2>1, MinOfNaturals, Zenon
  <2>3. p = Min(A)
    BY DEF FirstAbove
  <2> HIDE DEF p
  <2>4. p \in 1 .. Len(s) + 1
    BY <1>0, <2>2, <2>3
  <2>5. \A i \in 1 .. Len(s) : i < p => i \notin A
    BY <1>0, <2>2, <2>3, <2>4
  <2> QED
    BY <1>0, <2>2, <2>3, <2>4, <2>5, SMTT(60)
<1> HIDE DEF p
<1>2. /\ r \in Seq(T)
      /\ Len(r) = Len(s) + 1
      /\ DOMAIN r = 1 .. Len(s) + 1
      /\ \A j \in 1 .. Len(s) + 1 :
           r[j] = IF j < p THEN s[j] ELSE IF j = p THEN t ELSE s[j - 1]
  BY <1>1, InsertFacts, LenProperties
<1> HIDE DEF r
<1>3. /\ \A j \in 1 .. Len(s) + 1 :
           /\ j < p => j \in 1 .. Len(s) /\ r[j] = s[j]
           /\ j > p => j - 1 \in 1 .. Len(s) /\ r[j] = s[j - 1]
      /\ p \in DOMAIN r /\ r[p] = t
  <2>1. ASSUME NEW j \in 1 .. Len(s) + 1, j < p
        PROVE  j \in 1 .. Len(s) /\ r[j] = s[j]
    BY <1>0, <1>1, <1>2, <2>1
  <2>2. ASSUME NEW j \in 1 .. Len(s) + 1, j > p
        PROVE  j - 1 \in 1 .. Len(s) /\ r[j] = s[j - 1]
    BY <1>0, <1>1, <1>2, <2>2
  <2>3. p \in DOMAIN r /\ r[p] = t
    BY <1>1, <1>2
  <2> QED
    BY <2>1, <2>2, <2>3
<1>4. Range(r) \subseteq Range(s) \cup {t}
  <2> SUFFICES ASSUME NEW j \in 1 .. Len(s) + 1 PROVE r[j] \in Range(s) \cup {t}
    BY <1>2 DEF Range
  <2>1. CASE j < p
    <3>1. r[j] = s[j] /\ j \in DOMAIN s
      BY <1>0, <1>3, <2>1
    <3> QED
      BY <3>1 DEF Range
  <2>2. CASE j = p
    BY <1>3, <2>2
  <2>3. CASE j > p
    <3>1. r[j] = s[j - 1] /\ j - 1 \in DOMAIN s
      BY <1>0, <1>3, <2>3
    <3> QED
      BY <3>1 DEF Range
  <2> QED
    BY <1>1, <2>1, <2>2, <2>3
<1>5. Range(s) \cup {t} \subseteq Range(r)
  <2>1. t \in Range(r)
    BY <1>3 DEF Range
  <2>2. ASSUME NEW i \in 1 .. Len(s) PROVE s[i] \in Range(r)
    <3> DEFINE j == IF i < p THEN i ELSE i + 1
    <3>1. j \in DOMAIN r /\ r[j] = s[i]
      BY <1>0, <1>1, <1>2, SMTT(60)
    <3> QED
      BY <3>1 DEF Range
  <2> QED
    BY <1>0, <2>1, <2>2 DEF Range
<1>6. IsInjective(r)
  <2> SUFFICES ASSUME NEW a \in 1 .. Len(s) + 1, NEW b \in 1 .. Len(s) + 1, r[a] = r[b]
               PROVE  a = b
    BY <1>2 DEF IsInjective
  <2>1. \A c, d \in 1 .. Len(s) : s[c] = s[d] => c = d
    BY <1>0, Zenon DEF IsInjective
  <2>2. \A c \in 1 .. Len(s) + 1 : r[c] = t <=> c = p
    BY <1>0, <1>1, <1>3, SMTT(60)
  <2>3. CASE a = p \/ b = p
    BY <1>3, <2>2, <2>3
  <2>4. CASE a < p /\ b < p
    BY <1>3, <2>1, <2>4
  <2>5. CASE a < p /\ b > p
    <3>1. a = b - 1
      BY <1>3, <2>1, <2>5
    <3> QED
      BY <1>1, <2>5, <3>1
  <2>6. CASE a > p /\ b < p
    <3>1. a - 1 = b
      BY <1>3, <2>1, <2>6
    <3> QED
      BY <1>1, <2>6, <3>1
  <2>7. CASE a > p /\ b > p
    <3>1. a - 1 = b - 1
      BY <1>3, <2>1, <2>7
    <3> QED
      BY <3>1
  <2> QED
    BY <1>1, <2>3, <2>4, <2>5, <2>6, <2>7
<1>7. SortedBy(r, f)
  <2> SUFFICES ASSUME NEW a \in 1 .. Len(s) + 1, NEW b \in 1 .. Len(s) + 1, a < b
               PROVE  f[r[a]] <= f[r[b]]
    BY <1>2 DEF SortedBy
  <2>1. \A c, d \in 1 .. Len(s) : c <= d => key[s[c]] <= key[s[d]]
    BY <1>0 DEF SortedBy
  <2>2. \A c \in 1 .. Len(s) : f[s[c]] = key[s[c]] /\ key[s[c]] \in Int
    BY <1>0
  <2>3. f[t] = n
    OBVIOUS
  <2> HIDE DEF f
  <2>4. CASE b < p
    <3>1. /\ a \in 1 .. Len(s) /\ r[a] = s[a]
          /\ b \in 1 .. Len(s) /\ r[b] = s[b]
      BY <1>1, <1>3, <2>4
    <3>2. a <= b
      OBVIOUS
    <3> QED
      BY <2>1, <2>2, <3>1, <3>2, Zenon
  <2>5. CASE b = p
    <3>1. a \in 1 .. Len(s) /\ a < p /\ r[a] = s[a]
      BY <1>1, <1>3, <2>5
    <3>2. key[s[a]] <= n
      BY <1>1, <3>1, Zenon
    <3>3. f[r[a]] = key[s[a]]
      <4>1. f[s[a]] = key[s[a]]
        BY <2>2, <3>1
      <4> QED
        BY <3>1, <4>1
    <3>4. r[b] = t
      BY <1>3, <2>5
    <3>5. f[r[b]] = n
      BY <2>3, <3>4
    <3> QED
      BY <3>2, <3>3, <3>5
  <2>6. CASE b > p
    <3>1. p <= Len(s) /\ b - 1 \in 1 .. Len(s) /\ r[b] = s[b - 1] /\ p <= b - 1
      BY <1>0, <1>1, <1>2, <2>6
    <3>2. n <= f[r[b]]
      BY <1>0, <1>1, <2>1, <2>2, <3>1
    <3>3. CASE a < p
      <4>1. f[r[a]] <= n /\ f[r[a]] \in Int /\ f[r[b]] \in Int
        BY <1>1, <1>3, <2>2, <3>1, <3>3, Zenon
      <4> QED
        BY <3>2, <4>1
    <3>5. CASE a = p
      <4>1. f[r[a]] = n
        BY <1>3, <2>3, <3>5
      <4> QED
        BY <3>2, <4>1
    <3>4. CASE a > p
      <4>1. a - 1 \in 1 .. Len(s) /\ r[a] = s[a - 1] /\ a - 1 <= b - 1
        BY <1>0, <1>1, <1>2, <3>1, <3>4
      <4> QED
        BY <2>1, <2>2, <3>1, <4>1, Zenon
    <3> QED
      BY <1>1, <3>3, <3>4, <3>5
  <2> QED
    BY <1>1, <2>4, <2>5, <2>6
<1> QED
  BY <1>2, <1>4, <1>5, <1>6, <1>7 DEF r, p
=============================================================================
