----------------------------- MODULE RingBuffer -----------------------------
(***************************************************************************)
(* A ring buffer under every sequence of calls, against the queue of bytes *)
(* it stands for.  The functions of ringbuffer.c do not lock: their        *)
(* callers do, as pipe.c does, so that a call is one step.                 *)
(***************************************************************************)
EXTENDS Ring

CONSTANT Blocks    \* the blocks that are put

ConstantsOK ==
  /\ Size \in Nat \ {0}
  /\ Byte # {}
  /\ Blocks \subseteq Seq(Byte)

VARIABLE rb

Init == rb \in {NewRing(pool) : pool \in [Index -> Byte]}

Next ==
  \/ \E block \in Blocks :
       \/ rb' = rt_ringbuffer_put(rb, block)
       \/ \E beyond \in Byte : rb' = rt_ringbuffer_put_force(rb, block, beyond)
  \/ \E n \in 0 .. Size : rb' = rt_ringbuffer_get(rb, n)
  \/ \E ch \in Byte : rb' = rt_ringbuffer_putchar(rb, ch) \/ rb' = rt_ringbuffer_putchar_force(rb, ch)
  \/ rb' = rt_ringbuffer_getchar(rb)

Spec == Init /\ [][Next]_rb

-----------------------------------------------------------------------------
\* The indices are in the pool and, counted through the mirrors, the write index is
\* ahead of the read index by at most the size of the buffer.
MirroredRing(r) ==
  /\ r \in RingType
  /\ IF r.read_mirror = r.write_mirror
     THEN r.read_index <= r.write_index
     ELSE r.write_index <= r.read_index

\* Every call of ringbuffer.c keeps the indices and the mirrors of the buffer in step.
Mirrored == MirroredRing(rb)

\* Where the i-th byte from index a is.
Position(a, i) == IF a + i <= Size THEN a + i - 1 ELSE a + i - 1 - Size

\* The bytes in the buffer, oldest first.
Contents(r) == [i \in 1 .. rt_ringbuffer_data_len(r) |-> r.pool[Position(r.read_index, i)]]

\* The buffer is a queue of bytes, wherever its indices are: a put appends the first
\* bytes of the block, as many as there is room for, or all of them when it is forced
\* and they fit; a get delivers and removes the oldest ones; a forced character takes
\* the place of the oldest byte of a full buffer.
RingIsQueue ==
  LET q     == Contents(rb)
      space == Size - Len(q)
  IN  /\ \A block \in Blocks :
           /\ Contents(rt_ringbuffer_put(rb, block)) = q \o SubSeq(block, 1, Smaller(Len(block), space))
           /\ Len(block) <= space =>
                \A beyond \in Byte : Contents(rt_ringbuffer_put_force(rb, block, beyond)) = q \o block
      /\ \A n \in 0 .. Size :
           /\ Taken(rb, n) = SubSeq(q, 1, Smaller(n, Len(q)))
           /\ Contents(rt_ringbuffer_get(rb, n)) = SubSeq(q, Smaller(n, Len(q)) + 1, Len(q))
      /\ \A ch \in Byte :
           /\ Contents(rt_ringbuffer_putchar(rb, ch)) = IF space = 0 THEN q ELSE Append(q, ch)
           /\ Contents(rt_ringbuffer_putchar_force(rb, ch)) =
                Append(IF space = 0 THEN Tail(q) ELSE q, ch)
      /\ Contents(rt_ringbuffer_getchar(rb)) = IF q = <<>> THEN q ELSE Tail(q)

\* What rt_ringbuffer_put_force says of itself: it makes room by discarding old data.
\* So a block no longer than the buffer is in the buffer afterwards.
ForceKeepsBlock ==
  \A block \in Blocks, beyond \in Byte :
    Len(block) <= Size =>
      rt_ringbuffer_data_len(rt_ringbuffer_put_force(rb, block, beyond)) >= Len(block)
=============================================================================
