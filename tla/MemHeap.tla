------------------------------ MODULE MemHeap -------------------------------
(***************************************************************************)
(* The heap of memheap.c.  Blocks follow one another in the pool, each     *)
(* behind its header, and a used tail block of size 0 ends the pool.  A    *)
(* free block is also on a free list.  The semaphore of the heap makes     *)
(* what a call does between taking and releasing it one step; a call takes *)
(* it up to three times, and tests available_size without it.              *)
(***************************************************************************)
EXTENDS Integers, FiniteSets, FiniteSetsExt, SequencesExt

CONSTANTS
  Threads,
  PoolSize,      \* pool_size
  HeaderSize,    \* RT_MEMHEAP_SIZE
  MiniAlloc,     \* RT_MEMHEAP_MINIALLOC
  AlignSize,     \* RT_ALIGN_SIZE
  Requests       \* the sizes asked for, in bytes

\* What the constants have to satisfy.
ConstantsOK ==
  /\ \A n \in {PoolSize, HeaderSize, MiniAlloc} : n % AlignSize = 0
  /\ PoolSize > 2 * HeaderSize + MiniAlloc
  /\ Requests \subseteq Nat \ {0}

VARIABLES
  item,         \* the headers: a function from their addresses
  free,         \* the free list behind free_header
  available,    \* available_size
  maxUsed,      \* max_used_size
  at,           \* where each thread is in its call
  own           \* what each thread has got: a block, or Null, and the size it asked for

vars == <<item, free, available, maxUsed, at, own>>

Tail0 == PoolSize - HeaderSize

Null == -1

Nothing == [block |-> Null, size |-> 0]

\* What a call that is not over has still to do: allocate a block of a size, or free
\* the block whose contents have been copied.
Idle == [step |-> "idle", size |-> 0, ask |-> 0, old |-> Nothing]

\* rt_memheap_init.
Init ==
  /\ item = (0     :> [used |-> FALSE, next |-> Tail0, prev |-> Tail0]) @@
            (Tail0 :> [used |-> TRUE,  next |-> 0,     prev |-> 0])
  /\ free = <<0>>
  /\ available = PoolSize - 2 * HeaderSize
  /\ maxUsed = 2 * HeaderSize
  /\ at = [t \in Threads |-> Idle]
  /\ own = [t \in Threads |-> Nothing]

-----------------------------------------------------------------------------
\* The heap as a value, so that an operation is an operator from heap to heap.
Heap == [item |-> item, free |-> free, available |-> available, maxUsed |-> maxUsed]

Becomes(h) ==
  item' = h.item /\ free' = h.free /\ available' = h.available /\ maxUsed' = h.maxUsed

\* MEMITEM_SIZE.
SizeOf(h, b) == h.item[b].next - b - HeaderSize

\* RT_ALIGN, and at least RT_MEMHEAP_MINIALLOC.
Rounded(n) == Max({MiniAlloc, ((n + AlignSize - 1) \div AlignSize) * AlignSize})

\* available_size goes down by n, and max_used_size up if need be.
Less(h, n) ==
  LET left == h.available - n
  IN  [h EXCEPT !.available = left, !.maxUsed = Max({@, PoolSize - left})]

Unlisted(h, b) == [h EXCEPT !.free = Remove(@, b)]

Listed(h, b) == [h EXCEPT !.free = <<b>> \o @]

\* A free header is linked in at address new, between block b and the block after it.
Inserted(h, b, new) ==
  LET next == h.item[b].next
  IN  [h EXCEPT !.item = [(new :> [used |-> FALSE, next |-> next, prev |-> b]) @@ @
                            EXCEPT ![b].next = new, ![next].prev = new]]

\* The header at address b is unlinked: its block belongs to the one before it.
Unlinked(h, b) ==
  LET next == h.item[b].next
      prev == h.item[b].prev
      all  == [h.item EXCEPT ![prev].next = next, ![next].prev = prev]
  IN  [h EXCEPT !.item = [a \in DOMAIN all \ {b} |-> all[a]]]

\* The first block of the free list that is large enough, or Null.
FirstFit(h, size) ==
  LET fits == {i \in DOMAIN h.free : SizeOf(h, h.free[i]) >= size}
  IN  IF fits = {} THEN Null ELSE h.free[Min(fits)]

\* Whether what is left of free block b is a block of its own.
Splits(h, b, size) == SizeOf(h, b) >= size + HeaderSize + MiniAlloc

\* rt_memheap_alloc takes block b.
Taken(h, b, size) ==
  LET new  == b + size + HeaderSize
      rest == IF Splits(h, b, size)
              THEN Less(Listed(Unlisted(Inserted(h, b, new), b), new), size + HeaderSize)
              ELSE Unlisted(Less(h, SizeOf(h, b)), b)
  IN  [rest EXCEPT !.item[b].used = TRUE]

\* (defect) the header that goes when a block is merged to the left is not counted
FreedForgets(h, b) ==
  LET prev  == h.item[b].prev
      left  == ~h.item[prev].used
      first == IF left THEN prev ELSE b
      one   == [h EXCEPT !.item[b].used = FALSE, !.available = @ + SizeOf(h, b)]
      two   == IF left THEN Unlinked(one, b) ELSE one
      next  == two.item[first].next
      three == IF two.item[next].used THEN two
               ELSE Unlisted(Unlinked([two EXCEPT !.available = @ + HeaderSize], next), next)
  IN  IF left THEN three ELSE Listed(three, first)

\* rt_memheap_free: the block is merged with its free neighbours.
Freed(h, b) ==
  LET prev  == h.item[b].prev
      left  == ~h.item[prev].used
      first == IF left THEN prev ELSE b
      one   == [h EXCEPT !.item[b].used = FALSE, !.available = @ + SizeOf(h, b)]
      two   == IF left THEN Unlinked([one EXCEPT !.available = @ + HeaderSize], b) ELSE one
      next  == two.item[first].next
      three == IF two.item[next].used THEN two
               ELSE Unlisted(Unlinked([two EXCEPT !.available = @ + HeaderSize], next), next)
  IN  IF left THEN three ELSE Listed(three, first)

\* rt_memheap_realloc can make block b larger where it is.
Expands(h, b, size) ==
  LET next == h.item[b].next
  IN  ~h.item[next].used /\ SizeOf(h, next) + SizeOf(h, b) > size + MiniAlloc

Expanded(h, b, size) ==
  LET next == h.item[b].next
      new  == b + HeaderSize + size
  IN  Listed(Inserted(Unlinked(Unlisted(Less(h, size - SizeOf(h, b)), next), next), b, new), new)

\* rt_memheap_realloc makes block b smaller, and merges the rest to the right.
Shrunk(h, b, size) ==
  LET new   == b + HeaderSize + size
      next  == h.item[b].next
      split == Inserted(h, b, new)
      whole == IF h.item[next].used THEN split
               ELSE Unlisted(Unlinked([split EXCEPT !.available = @ - SizeOf(split, next)], next), next)
  IN  [Listed(whole, new) EXCEPT !.available = @ + SizeOf(whole, new)]

-----------------------------------------------------------------------------
Has(t, b, n) == own' = [own EXCEPT ![t] = [block |-> b, size |-> n]]

Goes(t, step) == at' = [at EXCEPT ![t] = step]

Calls(t) == at[t].step = "idle"

\* rt_memheap_alloc up to where it takes the semaphore: the test of available_size.
\* old is what rt_memheap_realloc will free.
AllocTests(t, n, old) ==
  /\ IF Rounded(n) < available
     THEN Goes(t, [step |-> "alloc", size |-> Rounded(n), ask |-> n, old |-> old])
     ELSE Goes(t, Idle)
  /\ UNCHANGED <<item, free, available, maxUsed, own>>

rt_memheap_alloc(t, n) == Calls(t) /\ own[t] = Nothing /\ AllocTests(t, n, Nothing)

\* The search and the split.  A call of rt_memheap_realloc copies the contents and goes
\* on to free the old block; if there is no block it keeps it.
AllocTakes(t) ==
  LET c == at[t]
      b == FirstFit(Heap, c.size)
  IN  /\ c.step = "alloc"
      /\ IF b = Null
         THEN Goes(t, Idle) /\ UNCHANGED <<item, free, available, maxUsed, own>>
         ELSE /\ Becomes(Taken(Heap, b, c.size))
              /\ Has(t, b, c.ask)
              /\ Goes(t, IF c.old = Nothing THEN Idle ELSE [c EXCEPT !.step = "free"])

rt_memheap_free(t) ==
  /\ Calls(t)
  /\ own[t] # Nothing
  /\ Becomes(Freed(Heap, own[t].block))
  /\ own' = [own EXCEPT ![t] = Nothing]
  /\ UNCHANGED at

\* rt_memheap_realloc of a block for n bytes, n not 0.
rt_memheap_realloc(t, n) ==
  LET b    == own[t].block
      size == Rounded(n)
      old  == SizeOf(Heap, b)
  IN  /\ Calls(t)
      /\ own[t] # Nothing
      /\ \/ /\ size > old /\ Expands(Heap, b, size)
            /\ Becomes(Expanded(Heap, b, size)) /\ Has(t, b, n) /\ UNCHANGED at
         \/ /\ size > old /\ ~Expands(Heap, b, size)
            /\ Goes(t, [Idle EXCEPT !.step = "test", !.ask = n])
            /\ UNCHANGED <<item, free, available, maxUsed, own>>
         \/ /\ size <= old /\ size + HeaderSize + MiniAlloc >= old
            /\ Has(t, b, n) /\ UNCHANGED <<item, free, available, maxUsed, at>>
         \/ /\ size + HeaderSize + MiniAlloc < old
            /\ Becomes(Shrunk(Heap, b, size)) /\ Has(t, b, n) /\ UNCHANGED at

\* rt_memheap_realloc has released the semaphore and calls rt_memheap_alloc.
ReallocAllocs(t) == at[t].step = "test" /\ AllocTests(t, at[t].ask, own[t])

ReallocFrees(t) ==
  /\ at[t].step = "free"
  /\ Becomes(Freed(Heap, at[t].old.block))
  /\ Goes(t, Idle)
  /\ UNCHANGED own

Next ==
  \E t \in Threads :
    \/ \E n \in Requests : rt_memheap_alloc(t, n) \/ rt_memheap_realloc(t, n)
    \/ rt_memheap_free(t)
    \/ AllocTakes(t) \/ ReallocAllocs(t) \/ ReallocFrees(t)

Spec == Init /\ [][Next]_vars

-----------------------------------------------------------------------------
\* The blocks fill the pool without gap or overlap and are linked both ways in the
\* order of their addresses, no two neighbours are free, and the free list has each
\* free block once.
HeapTiled ==
  /\ \A b \in DOMAIN item :
       LET above == {a \in DOMAIN item : a > b}
       IN  /\ item[b].next = IF above = {} THEN 0 ELSE Min(above)
           /\ item[item[b].next].prev = b
           /\ b # Tail0 => SizeOf(Heap, b) >= MiniAlloc
           /\ item[b].used \/ item[item[b].next].used
  /\ {0, Tail0} \subseteq DOMAIN item /\ item[Tail0].used
  /\ ToSet(free) = {b \in DOMAIN item : ~item[b].used}
  /\ Len(free) = Cardinality(ToSet(free))

\* available_size is the room in the free blocks, and max_used_size is never below
\* what is in use.
AvailableExact ==
  /\ available = MapThenSumSet(LAMBDA b : SizeOf(Heap, b), ToSet(free))
  /\ maxUsed >= PoolSize - available

\* What threads have got and the old blocks of reallocations: pairs of thread and block.
Held ==
  {<<t, own[t].block>> : t \in {u \in Threads : own[u] # Nothing}} \cup
  {<<t, at[t].old.block>> : t \in {u \in Threads : at[u].old # Nothing}}

\* A used block belongs to exactly one thread, also while rt_memheap_realloc moves it,
\* and is as large as that thread asked; no block is lost.
BlocksOwned ==
  /\ {b \in DOMAIN item : item[b].used} = {h[2] : h \in Held} \cup {Tail0}
  /\ \A g, h \in Held : g[2] = h[2] => g = h
  /\ \A t \in Threads : own[t] # Nothing => SizeOf(Heap, own[t].block) >= own[t].size
=============================================================================
