-------------------------------- MODULE Ring --------------------------------
(***************************************************************************)
(* The ring buffer of ringbuffer.c.  Each index has a mirror bit, which    *)
(* flips when the index passes the end of the pool: equal indices mean an  *)
(* empty buffer in the same mirror and a full one in different mirrors.    *)
(***************************************************************************)
EXTENDS Integers, Sequences

CONSTANTS
  Byte,    \* the values of a byte
  Size     \* buffer_size, which rt_ringbuffer_init makes a multiple of RT_ALIGN_SIZE

Index == 0 .. Size - 1

RingType ==
  [ pool : [Index -> Byte], read_index : Index, read_mirror : {0, 1},
    write_index : Index, write_mirror : {0, 1} ]

\* rt_ringbuffer_init, on memory with any contents.
NewRing(pool) ==
  [ pool |-> pool, read_index |-> 0, read_mirror |-> 0, write_index |-> 0, write_mirror |-> 0 ]

rt_ringbuffer_status(rb) ==
  IF rb.read_index # rb.write_index THEN "HALFFULL"
  ELSE IF rb.read_mirror = rb.write_mirror THEN "EMPTY" ELSE "FULL"

rt_ringbuffer_data_len(rb) ==
  CASE rt_ringbuffer_status(rb) = "EMPTY" -> 0
    [] rt_ringbuffer_status(rb) = "FULL"  -> Size
    [] OTHER -> IF rb.write_index > rb.read_index
                THEN rb.write_index - rb.read_index
                ELSE Size - (rb.read_index - rb.write_index)

rt_ringbuffer_space_len(rb) == Size - rt_ringbuffer_data_len(rb)

Smaller(m, n) == IF m < n THEN m ELSE n

-----------------------------------------------------------------------------
\* (defect) the end itself is not seen as the end
WroteLate(rb, n) ==
  IF Size - rb.write_index >= n
  THEN [rb EXCEPT !.write_index = (@ + n) % Size]
  ELSE [rb EXCEPT !.write_index = n - (Size - @), !.write_mirror = 1 - @]

\* The write index after n bytes: into the other mirror when the end is reached.
Wrote(rb, n) ==
  IF Size - rb.write_index > n
  THEN [rb EXCEPT !.write_index = @ + n]
  ELSE [rb EXCEPT !.write_index = n - (Size - @), !.write_mirror = 1 - @]

\* The read index after n bytes.
Took(rb, n) ==
  IF Size - rb.read_index > n
  THEN [rb EXCEPT !.read_index = @ + n]
  ELSE [rb EXCEPT !.read_index = n - (Size - @), !.read_mirror = 1 - @]

\* The bytes block[1] to block[n] are copied to the write index and on, the rest of
\* them to the beginning of the pool.
Copied(rb, block, n) ==
  [i \in Index |->
     IF i >= rb.write_index /\ i < rb.write_index + n THEN block[i - rb.write_index + 1]
     ELSE IF i < n - (Size - rb.write_index) THEN block[Size - rb.write_index + i + 1]
     ELSE rb.pool[i]]

Written(rb, block, n) == [Wrote(rb, n) EXCEPT !.pool = Copied(rb, block, n)]

\* How many bytes rt_ringbuffer_put takes of a block, and rt_ringbuffer_get of the buffer.
Accepted(rb, n) == Smaller(n, rt_ringbuffer_space_len(rb))

Available(rb, n) == Smaller(n, rt_ringbuffer_data_len(rb))

rt_ringbuffer_put(rb, block) ==
  LET n == Accepted(rb, Len(block)) IN IF n = 0 THEN rb ELSE Written(rb, block, n)

\* A block that does not fit is taken to be as long as the buffer: what follows it in
\* the memory of the caller, beyond, is copied too.
rt_ringbuffer_put_force(rb, block, beyond) ==
  LET space  == rt_ringbuffer_space_len(rb)
      n      == IF Len(block) > space THEN Size ELSE Len(block)
      longer == [i \in 1 .. n |-> IF i <= Len(block) THEN block[i] ELSE beyond]
      new    == Written(rb, longer, n)
  IN  IF n <= space THEN new
      ELSE [new EXCEPT !.read_index  = new.write_index,
                       !.read_mirror = IF Size - rb.write_index > n THEN @ ELSE 1 - @]

rt_ringbuffer_get(rb, n) ==
  LET m == Available(rb, n) IN IF m = 0 THEN rb ELSE Took(rb, m)

\* The bytes that rt_ringbuffer_get copies out: from the read index to the end of the
\* pool, and on from its beginning.
Taken(rb, n) ==
  [i \in 1 .. Available(rb, n) |->
     rb.pool[IF i <= Size - rb.read_index THEN rb.read_index + i - 1
                                          ELSE i - (Size - rb.read_index) - 1]]

rt_ringbuffer_putchar(rb, ch) ==
  IF rt_ringbuffer_space_len(rb) = 0 THEN rb
  ELSE IF rb.write_index = Size - 1
       THEN [rb EXCEPT !.pool[rb.write_index] = ch, !.write_index = 0, !.write_mirror = 1 - @]
       ELSE [rb EXCEPT !.pool[rb.write_index] = ch, !.write_index = @ + 1]

rt_ringbuffer_putchar_force(rb, ch) ==
  LET last == rb.write_index = Size - 1
      full == rt_ringbuffer_status(rb) = "FULL"
      next == IF last THEN 0 ELSE rb.write_index + 1
  IN  [rb EXCEPT !.pool[rb.write_index] = ch,
                 !.write_index  = next,
                 !.write_mirror = IF last THEN 1 - @ ELSE @,
                 !.read_index   = IF full THEN next ELSE @,
                 !.read_mirror  = IF last /\ full THEN 1 - @ ELSE @]

rt_ringbuffer_getchar(rb) ==
  IF rt_ringbuffer_data_len(rb) = 0 THEN rb
  ELSE IF rb.read_index = Size - 1
       THEN [rb EXCEPT !.read_index = 0, !.read_mirror = 1 - @]
       ELSE [rb EXCEPT !.read_index = @ + 1]
=============================================================================
