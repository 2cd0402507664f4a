-------------------------- MODULE RingBufferProofs --------------------------
(***************************************************************************)
(* The ring buffer is a queue of bytes for every size, every set of byte   *)
(* values and every set of blocks.  The inductive invariant is Mirrored;   *)
(* what a call does to the contents follows from it.  Everything is        *)
(* reduced to two facts: what writing n bytes does, and what taking n      *)
(* bytes does, when there is room or there are bytes for them.             *)
(***************************************************************************)
EXTENDS RingBuffer, SequenceTheorems, TLAPS

\* How far apart the indices are, in the same mirror and in different ones.
LEMMA LengthFacts ==
  ASSUME Size \in Nat \ {0}, NEW r, MirroredRing(r)
  PROVE  /\ rt_ringbuffer_data_len(r) =
              IF r.read_mirror = r.write_mirror
              THEN r.write_index - r.read_index
              ELSE Size - r.read_index + r.write_index
         /\ rt_ringbuffer_data_len(r) \in 0 .. Size
  BY DEF MirroredRing, RingType, Index, rt_ringbuffer_data_len, rt_ringbuffer_status

\* The contents are a sequence of bytes, found from the read index on.
LEMMA ContentsFacts ==
  ASSUME Size \in Nat \ {0}, NEW r, MirroredRing(r)
  PROVE  /\ Contents(r) \in Seq(Byte)
         /\ Len(Contents(r)) = rt_ringbuffer_data_len(r)
         /\ \A i \in 1 .. rt_ringbuffer_data_len(r) :
              /\ Position(r.read_index, i) \in Index
              /\ Contents(r)[i] = r.pool[Position(r.read_index, i)]
<1> DEFINE n == rt_ringbuffer_data_len(r)
<1>1. n \in 0 .. Size
  BY LengthFacts
<1>2. r.read_index \in Index /\ r.pool \in [Index -> Byte]
  BY DEF MirroredRing, RingType
<1> HIDE DEF n
<1>3. \A i \in 1 .. n : Position(r.read_index, i) \in Index
  BY <1>1, <1>2 DEF Position, Index
<1>4. \A i \in 1 .. n : r.pool[Position(r.read_index, i)] \in Byte
  BY <1>2, <1>3
<1>5. Contents(r) = [i \in 1 .. n |-> r.pool[Position(r.read_index, i)]]
  BY DEF Contents, n
<1>6. Contents(r) \in [1 .. n -> Byte]
  BY <1>4, <1>5
<1>7. Contents(r) \in Seq(Byte) /\ Len(Contents(r)) = n
  BY <1>1, <1>6
<1> QED
  BY <1>3, <1>5, <1>7, ZenonT(30) DEF n

\* Two sequences of bytes are equal when they agree in length and in every byte.
LEMMA SameBytes ==
  ASSUME NEW s \in Seq(Byte), NEW u \in Seq(Byte),
         Len(s) = Len(u), \A i \in 1 .. Len(s) : s[i] = u[i]
  PROVE  s = u
  BY SeqEqual

\* Copying n bytes to the write index leaves the bytes in the buffer alone, and the
\* block follows them.
LEMMA CopiedFacts ==
  ASSUME Size \in Nat \ {0}, NEW r, MirroredRing(r),
         NEW n \in 0 .. rt_ringbuffer_space_len(r), NEW block, \A i \in 1 .. n : block[i] \in Byte
  PROVE  LET len == rt_ringbuffer_data_len(r)
             new == Copied(r, block, n)
         IN  /\ new \in [Index -> Byte]
             /\ \A i \in 1 .. len : new[Position(r.read_index, i)] = r.pool[Position(r.read_index, i)]
             /\ \A i \in 1 .. n : new[Position(r.read_index, len + i)] = block[i]
<1> DEFINE len == rt_ringbuffer_data_len(r)
           new == Copied(r, block, n)
           a == r.read_index
           w == r.write_index
<1>1. /\ len = IF r.read_mirror = r.write_mirror THEN w - a ELSE Size - a + w
      /\ len \in 0 .. Size
  BY LengthFacts
<1>2. /\ a \in Index /\ w \in Index /\ r.pool \in [Index -> Byte]
      /\ r.read_mirror = r.write_mirror => a <= w
      /\ r.read_mirror # r.write_mirror => w <= a
  BY DEF MirroredRing, RingType
<1>3. n \in Nat /\ len + n <= Size
  BY <1>1 DEF rt_ringbuffer_space_len
<1>4. /\ new = [i \in Index |->
                  IF i >= w /\ i < w + n THEN block[i - w + 1]
                  ELSE IF i < n - (Size - w) THEN block[Size - w + i + 1] ELSE r.pool[i]]
  BY DEF Copied
<1> HIDE DEF len, new, a, w
<1>5. new \in [Index -> Byte]
  <2> SUFFICES ASSUME NEW i \in Index PROVE new[i] \in Byte
    BY <1>4
  <2>1. CASE i >= w /\ i < w + n
    <3>1. new[i] = block[i - w + 1] /\ i - w + 1 \in 1 .. n
      BY <1>2, <1>3, <1>4, <2>1 DEF Index
    <3> QED
      BY <3>1
  <2>2. CASE ~ (i >= w /\ i < w + n) /\ i < n - (Size - w)
    <3>1. new[i] = block[Size - w + i + 1] /\ Size - w + i + 1 \in 1 .. n
      BY <1>2, <1>3, <1>4, <2>2 DEF Index
    <3> QED
      BY <3>1
  <2>3. CASE ~ (i >= w /\ i < w + n) /\ ~ (i < n - (Size - w))
    BY <1>2, <1>4, <2>3
  <2> QED
    BY <2>1, <2>2, <2>3
<1>6. ASSUME NEW i \in 1 .. len
      PROVE  new[Position(a, i)] = r.pool[Position(a, i)]
  <2>1. Position(a, i) \in Index
    BY <1>1, <1>2 DEF Position, Index
  <2>2. /\ ~ (Position(a, i) >= w /\ Position(a, i) < w + n)
        /\ ~ (Position(a, i) < n - (Size - w))
    BY <1>1, <1>2, <1>3 DEF Position, Index
  <2> QED
    BY <1>4, <2>1, <2>2
<1>7. ASSUME NEW i \in 1 .. n
      PROVE  new[Position(a, len + i)] = block[i]
  <2>1. Position(a, len + i) = IF w + i <= Size THEN w + i - 1 ELSE w + i - 1 - Size
    BY <1>1, <1>2, <1>3 DEF Position, Index
  <2>2. CASE w + i <= Size
    <3>1. /\ w + i - 1 \in Index
          /\ w + i - 1 >= w /\ w + i - 1 < w + n
          /\ (w + i - 1) - w + 1 = i
      BY <1>2, <1>3, <2>2 DEF Index
    <3>2. new[w + i - 1] = block[(w + i - 1) - w + 1]
      BY <1>4, <3>1
    <3> QED
      BY <2>1, <2>2, <3>1, <3>2
  <2>3. CASE ~ (w + i <= Size)
    <3>1. /\ w + i - 1 - Size \in Index
          /\ ~ (w + i - 1 - Size >= w)
          /\ w + i - 1 - Size < n - (Size - w)
          /\ Size - w + (w + i - 1 - Size) + 1 = i
      BY <1>1, <1>2, <1>3, <2>3 DEF Index
    <3>2. new[w + i - 1 - Size] = block[Size - w + (w + i - 1 - Size) + 1]
      BY <1>4, <3>1
    <3> QED
      BY <2>1, <2>3, <3>1, <3>2
  <2> QED
    BY <2>2, <2>3
<1> QED
  BY <1>5, <1>6, <1>7 DEF len, new, a

\* Moving the write index by n, with a new pool, adds n to the length.
LEMMA WroteFacts ==
  ASSUME Size \in Nat \ {0}, NEW r, MirroredRing(r),
         NEW n \in 0 .. rt_ringbuffer_space_len(r), NEW pool \in [Index -> Byte]
  PROVE  LET new == [Wrote(r, n) EXCEPT !.pool = pool]
         IN  /\ MirroredRing(new)
             /\ rt_ringbuffer_data_len(new) = rt_ringbuffer_data_len(r) + n
             /\ new.read_index = r.read_index
             /\ new.pool = pool
<1> DEFINE new == [Wrote(r, n) EXCEPT !.pool = pool]
<1>1. /\ rt_ringbuffer_data_len(r) =
           IF r.read_mirror = r.write_mirror
           THEN r.write_index - r.read_index
           ELSE Size - r.read_index + r.write_index
      /\ rt_ringbuffer_data_len(r) \in 0 .. Size
  BY LengthFacts
<1>2. n \in Nat /\ n <= Size - rt_ringbuffer_data_len(r)
  BY <1>1 DEF rt_ringbuffer_space_len
<1>3. r \in RingType
  BY DEF MirroredRing
<1>4. CASE Size - r.write_index > n
  <2>0. Wrote(r, n) =
          [pool |-> r.pool, read_index |-> r.read_index, read_mirror |-> r.read_mirror,
           write_index |-> r.write_index + n, write_mirror |-> r.write_mirror]
    BY <1>3, <1>4 DEF Wrote, RingType
  <2>1. new = [pool |-> pool, read_index |-> r.read_index, read_mirror |-> r.read_mirror,
               write_index |-> r.write_index + n, write_mirror |-> r.write_mirror]
    BY <2>0
  <2> HIDE DEF new
  <2>2. MirroredRing(new)
    BY <1>1, <1>2, <1>3, <1>4, <2>1, SMTT(60) DEF MirroredRing, RingType, Index
  <2>3. rt_ringbuffer_data_len(new) = rt_ringbuffer_data_len(r) + n
    <3>1. rt_ringbuffer_data_len(new) =
            IF new.read_mirror = new.write_mirror
            THEN new.write_index - new.read_index
            ELSE Size - new.read_index + new.write_index
      BY <2>2, LengthFacts, Zenon
    <3>2. /\ r.read_index \in Int /\ r.write_index \in Int /\ Size \in Int
          /\ r.read_mirror \in {0, 1} /\ r.write_mirror \in {0, 1}
      BY <1>3 DEF RingType, Index
    <3> QED
      BY <1>1, <1>2, <2>1, <3>1, <3>2
  <2> QED
    BY <2>1, <2>2, <2>3 DEF new
<1>5. CASE ~ (Size - r.write_index > n)
  <2>0. Wrote(r, n) =
          [pool |-> r.pool, read_index |-> r.read_index, read_mirror |-> r.read_mirror,
           write_index |-> n - (Size - r.write_index), write_mirror |-> 1 - r.write_mirror]
    BY <1>3, <1>5, ZenonT(30) DEF Wrote, RingType
  <2>1. new = [pool |-> pool, read_index |-> r.read_index, read_mirror |-> r.read_mirror,
               write_index |-> n - (Size - r.write_index), write_mirror |-> 1 - r.write_mirror]
    BY <2>0
  <2> HIDE DEF new
  <2>2. r.read_mirror = r.write_mirror
    BY <1>1, <1>2, <1>3, <1>5 DEF MirroredRing, RingType, Index
  <2>3. MirroredRing(new)
    BY <1>1, <1>2, <1>3, <1>5, <2>1, <2>2 DEF MirroredRing, RingType, Index
  <2>4. rt_ringbuffer_data_len(new) = rt_ringbuffer_data_len(r) + n
    <3>1. rt_ringbuffer_data_len(new) =
            IF new.read_mirror = new.write_mirror
            THEN new.write_index - new.read_index
            ELSE Size - new.read_index + new.write_index
      BY <2>3, LengthFacts, Zenon
    <3>2. /\ r.read_index \in Int /\ r.write_index \in Int /\ Size \in Int
          /\ r.read_mirror \in {0, 1} /\ r.write_mirror \in {0, 1}
      BY <1>3 DEF RingType, Index
    <3> QED
      BY <1>1, <1>2, <2>1, <2>2, <3>1, <3>2
  <2> QED
    BY <2>1, <2>3, <2>4 DEF new
<1> QED
  BY <1>4, <1>5

\* Moving the read index by n takes n from the length.
LEMMA TookFacts ==
  ASSUME Size \in Nat \ {0}, NEW r, MirroredRing(r), NEW n \in 0 .. rt_ringbuffer_data_len(r)
  PROVE  /\ MirroredRing(Took(r, n))
         /\ rt_ringbuffer_data_len(Took(r, n)) = rt_ringbuffer_data_len(r) - n
         /\ Took(r, n).pool = r.pool
         /\ Took(r, n).read_index = IF Size - r.read_index > n
                                    THEN r.read_index + n ELSE n - (Size - r.read_index)
<1> DEFINE new == Took(r, n)
<1>1. /\ rt_ringbuffer_data_len(r) =
           IF r.read_mirror = r.write_mirror
           THEN r.write_index - r.read_index
           ELSE Size - r.read_index + r.write_index
      /\ rt_ringbuffer_data_len(r) \in 0 .. Size
  BY LengthFacts
<1>2. n \in Nat /\ n <= rt_ringbuffer_data_len(r)
  BY <1>1
<1>3. r \in RingType
  BY DEF MirroredRing
<1>4. CASE Size - r.read_index > n
  <2>1. new = [pool |-> r.pool, read_index |-> r.read_index + n, read_mirror |-> r.read_mirror,
               write_index |-> r.write_index, write_mirror |-> r.write_mirror]
    BY <1>3, <1>4 DEF Took, RingType
  <2> HIDE DEF new
  <2>2. MirroredRing(new)
    BY <1>1, <1>2, <1>3, <1>4, <2>1 DEF MirroredRing, RingType, Index
  <2>3. rt_ringbuffer_data_len(new) = rt_ringbuffer_data_len(r) - n
    <3>1. rt_ringbuffer_data_len(new) =
            IF new.read_mirror = new.write_mirror
            THEN new.write_index - new.read_index
            ELSE Size - new.read_index + new.write_index
      BY <2>2, LengthFacts, Zenon
    <3>2. /\ r.read_index \in Int /\ r.write_index \in Int /\ Size \in Int
          /\ r.read_mirror \in {0, 1} /\ r.write_mirror \in {0, 1}
      BY <1>3 DEF RingType, Index
    <3> QED
      BY <1>1, <1>2, <2>1, <3>1, <3>2
  <2> QED
    BY <1>4, <2>1, <2>2, <2>3 DEF new
<1>5. CASE ~ (Size - r.read_index > n)
  <2>1. new = [pool |-> r.pool, read_index |-> n - (Size - r.read_index),
               read_mirror |-> 1 - r.read_mirror,
               write_index |-> r.write_index, write_mirror |-> r.write_mirror]
    BY <1>3, <1>5, ZenonT(30) DEF Took, RingType
  <2> HIDE DEF new
  <2>2. r.read_mirror # r.write_mirror
    BY <1>1, <1>2, <1>3, <1>5 DEF MirroredRing, RingType, Index
  <2>3. MirroredRing(new)
    BY <1>1, <1>2, <1>3, <1>5, <2>1, <2>2 DEF MirroredRing, RingType, Index
  <2>4. rt_ringbuffer_data_len(new) = rt_ringbuffer_data_len(r) - n
    <3>1. rt_ringbuffer_data_len(new) =
            IF new.read_mirror = new.write_mirror
            THEN new.write_index - new.read_index
            ELSE Size - new.read_index + new.write_index
      BY <2>3, LengthFacts, Zenon
    <3>2. /\ r.read_index \in Int /\ r.write_index \in Int /\ Size \in Int
          /\ r.read_mirror \in {0, 1} /\ r.write_mirror \in {0, 1}
      BY <1>3 DEF RingType, Index
    <3> QED
      BY <1>1, <1>2, <2>1, <2>2, <3>1, <3>2
  <2> QED
    BY <1>5, <2>1, <2>3, <2>4 DEF new
<1> QED
  BY <1>4, <1>5

\* Writing n bytes of a block, for which there is room, appends them.
LEMMA WritingAppends ==
  ASSUME Size \in Nat \ {0}, NEW r, MirroredRing(r),
         NEW n \in 0 .. rt_ringbuffer_space_len(r), NEW block, \A i \in 1 .. n : block[i] \in Byte
  PROVE  /\ MirroredRing(Written(r, block, n))
         /\ Contents(Written(r, block, n)) = Contents(r) \o SubSeq(block, 1, n)
<1> DEFINE new == Written(r, block, n)
           len == rt_ringbuffer_data_len(r)
           part == SubSeq(block, 1, n)
<1>1. len \in 0 .. Size /\ n \in Nat /\ len + n <= Size
  BY LengthFacts DEF rt_ringbuffer_space_len
<1>2. /\ Copied(r, block, n) \in [Index -> Byte]
      /\ \A i \in 1 .. len :
           Copied(r, block, n)[Position(r.read_index, i)] = r.pool[Position(r.read_index, i)]
      /\ \A i \in 1 .. n : Copied(r, block, n)[Position(r.read_index, len + i)] = block[i]
  BY CopiedFacts
<1>3. /\ MirroredRing(new)
      /\ rt_ringbuffer_data_len(new) = len + n
      /\ new.read_index = r.read_index
      /\ new.pool = Copied(r, block, n)
  BY <1>2, WroteFacts DEF Written
<1>4. /\ Contents(r) \in Seq(Byte) /\ Len(Contents(r)) = len
      /\ \A i \in 1 .. len : Contents(r)[i] = r.pool[Position(r.read_index, i)]
  BY ContentsFacts
<1>5. /\ Contents(new) \in Seq(Byte) /\ Len(Contents(new)) = len + n
      /\ \A i \in 1 .. len + n : Contents(new)[i] = new.pool[Position(new.read_index, i)]
  BY <1>3, ContentsFacts
<1>6. /\ part \in Seq(Byte) /\ Len(part) = n
      /\ \A i \in 1 .. n : part[i] = block[i]
  BY <1>1, SubSeqProperties
<1> HIDE DEF part, len
<1>7. /\ Contents(r) \o part \in Seq(Byte)
      /\ Len(Contents(r) \o part) = len + n
      /\ \A i \in 1 .. len + n :
           (Contents(r) \o part)[i] = IF i <= len THEN Contents(r)[i] ELSE part[i - len]
  BY <1>4, <1>6, ConcatProperties, ZenonT(60)
<1> HIDE DEF new
<1>8. ASSUME NEW i \in 1 .. len + n
      PROVE  Contents(new)[i] = (Contents(r) \o part)[i]
  <2>1. CASE i <= len
    <3>1. i \in 1 .. len
      BY <1>1, <2>1
    <3> QED
      BY <1>2, <1>3, <1>4, <1>5, <1>7, <3>1, <2>1, SMTT(60)
  <2>2. CASE ~ (i <= len)
    <3>1. i - len \in 1 .. n /\ len + (i - len) = i
      BY <1>1, <2>2
    <3>2. Copied(r, block, n)[Position(r.read_index, i)] = block[i - len]
      BY <1>2, <3>1
    <3> QED
      BY <1>3, <1>5, <1>6, <1>7, <2>2, <3>1, <3>2
  <2> QED
    BY <2>1, <2>2, ZenonT(30)
<1>9. Contents(new) = Contents(r) \o part
  BY <1>5, <1>7, <1>8, SameBytes
<1> QED
  BY <1>3, <1>9 DEF new, part

\* Taking n bytes that are there leaves the others.
LEMMA TakingRemoves ==
  ASSUME Size \in Nat \ {0}, NEW r, MirroredRing(r), NEW n \in 0 .. rt_ringbuffer_data_len(r)
  PROVE  /\ MirroredRing(Took(r, n))
         /\ Contents(Took(r, n)) = SubSeq(Contents(r), n + 1, rt_ringbuffer_data_len(r))
<1> DEFINE new == Took(r, n)
           len == rt_ringbuffer_data_len(r)
           rest == SubSeq(Contents(r), n + 1, len)
<1>1. len \in 0 .. Size /\ n \in Nat /\ n <= len /\ r.read_index \in Index
  BY LengthFacts DEF MirroredRing, RingType
<1>2. /\ MirroredRing(new)
      /\ rt_ringbuffer_data_len(new) = len - n
      /\ new.pool = r.pool
      /\ new.read_index = IF Size - r.read_index > n
                          THEN r.read_index + n ELSE n - (Size - r.read_index)
  BY TookFacts
<1>3. /\ Contents(r) \in Seq(Byte) /\ Len(Contents(r)) = len
      /\ \A i \in 1 .. len : Contents(r)[i] = r.pool[Position(r.read_index, i)]
  BY ContentsFacts
<1>4. /\ Contents(new) \in Seq(Byte) /\ Len(Contents(new)) = len - n
      /\ \A i \in 1 .. len - n : Contents(new)[i] = new.pool[Position(new.read_index, i)]
  BY <1>2, ContentsFacts
<1>5. /\ rest \in Seq(Byte) /\ Len(rest) = len - n
      /\ \A i \in 1 .. len - n : rest[i] = Contents(r)[n + i]
  <2>1. \A i \in n + 1 .. len : Contents(r)[i] \in Byte
    BY <1>1, <1>3, ElementOfSeq
  <2>2. /\ rest \in Seq(Byte)
        /\ Len(rest) = IF n + 1 <= len THEN len - (n + 1) + 1 ELSE 0
        /\ \A i \in 1 .. len - (n + 1) + 1 : rest[i] = Contents(r)[n + 1 + i - 1]
    BY <1>1, <2>1, SubSeqProperties
  <2> HIDE DEF rest
  <2> QED
    BY <1>1, <2>2
<1> HIDE DEF new, len, rest
<1>6. ASSUME NEW i \in 1 .. len - n
      PROVE  Contents(new)[i] = rest[i]
  <2>1. n + i \in 1 .. len
    BY <1>1
  <2>2. Position(new.read_index, i) = Position(r.read_index, n + i)
    BY <1>1, <1>2 DEF Position, Index
  <2> QED
    BY <1>2, <1>3, <1>4, <1>5, <2>1, <2>2
<1>7. Contents(new) = rest
  BY <1>4, <1>5, <1>6, SameBytes
<1> QED
  BY <1>2, <1>7 DEF new, rest, len

\* A character is put as a block of one byte, and got as one byte.
LEMMA CharIsBlock ==
  ASSUME Size \in Nat \ {0}, NEW r, MirroredRing(r), NEW ch \in Byte
  PROVE  /\ rt_ringbuffer_putchar(r, ch) =
              IF rt_ringbuffer_space_len(r) = 0 THEN r ELSE Written(r, <<ch>>, 1)
         /\ rt_ringbuffer_getchar(r) =
              IF rt_ringbuffer_data_len(r) = 0 THEN r ELSE Took(r, 1)
         /\ rt_ringbuffer_putchar_force(r, ch) =
              IF rt_ringbuffer_space_len(r) = 0
              THEN Written(Took(r, 1), <<ch>>, 1) ELSE Written(r, <<ch>>, 1)
<1> DEFINE a == r.read_index
           w == r.write_index
           pool == [r.pool EXCEPT ![w] = ch]
           last == w = Size - 1
<1>1. r \in RingType
  BY DEF MirroredRing
<1>2. /\ r = [pool |-> r.pool, read_index |-> a, read_mirror |-> r.read_mirror,
              write_index |-> w, write_mirror |-> r.write_mirror]
      /\ a \in 0 .. Size - 1 /\ w \in 0 .. Size - 1 /\ r.pool \in [Index -> Byte]
  BY <1>1 DEF RingType, Index
<1>3. ASSUME NEW s, s.pool = r.pool, s.write_index = w
      PROVE  Copied(s, <<ch>>, 1) = pool
  <2>1. Copied(s, <<ch>>, 1) = [i \in Index |-> IF i = w THEN ch ELSE r.pool[i]]
    <3> SUFFICES ASSUME NEW i \in Index
                 PROVE  (IF i >= w /\ i < w + 1 THEN <<ch>>[i - w + 1]
                         ELSE IF i < 1 - (Size - w) THEN <<ch>>[Size - w + i + 1]
                         ELSE r.pool[i]) = IF i = w THEN ch ELSE r.pool[i]
      BY <1>3, Zenon DEF Copied
    <3>1. CASE i = w
      <4>1. i >= w /\ i < w + 1 /\ i - w + 1 = 1
        BY <1>2, <3>1 DEF Index
      <4> QED
        BY <3>1, <4>1
    <3>2. CASE i # w
      <4>1. ~ (i >= w /\ i < w + 1) /\ ~ (i < 1 - (Size - w))
        BY <1>2, <3>2 DEF Index
      <4> QED
        BY <3>2, <4>1
    <3> QED
      BY <3>1, <3>2
  <2> QED
    BY <1>2, <2>1 DEF Index
<1>4. ASSUME NEW i, NEW m
      PROVE  LET old == [pool |-> r.pool, read_index |-> i, read_mirror |-> m,
                         write_index |-> w, write_mirror |-> r.write_mirror]
             IN  Written(old, <<ch>>, 1) =
                   [pool |-> pool, read_index |-> i, read_mirror |-> m,
                    write_index  |-> IF last THEN 0 ELSE w + 1,
                    write_mirror |-> IF last THEN 1 - r.write_mirror ELSE r.write_mirror]
  <2> DEFINE old == [pool |-> r.pool, read_index |-> i, read_mirror |-> m,
                     write_index |-> w, write_mirror |-> r.write_mirror]
  <2>1. Wrote(old, 1) =
          [pool |-> r.pool, read_index |-> i, read_mirror |-> m,
           write_index  |-> IF last THEN 0 ELSE w + 1,
           write_mirror |-> IF last THEN 1 - r.write_mirror ELSE r.write_mirror]
    <3>1. CASE last
      <4>1. ~ (Size - w > 1) /\ 1 - (Size - w) = 0
        BY <1>2, <3>1
      <4>2. Wrote(old, 1) = [old EXCEPT !.write_index = 1 - (Size - @), !.write_mirror = 1 - @]
        BY <4>1 DEF Wrote
      <4> QED
        BY <3>1, <4>1, <4>2, ZenonT(30)
    <3>2. CASE ~ last
      <4>1. Size - w > 1
        BY <1>2, <3>2
      <4>2. Wrote(old, 1) = [old EXCEPT !.write_index = @ + 1]
        BY <4>1 DEF Wrote
      <4> QED
        BY <3>2, <4>2
    <3> QED
      BY <3>1, <3>2
  <2>2. Copied(old, <<ch>>, 1) = pool
    BY <1>3
  <2> QED
    BY <2>1, <2>2 DEF Written
<1>5. Took(r, 1) =
        [pool |-> r.pool, read_index |-> IF a = Size - 1 THEN 0 ELSE a + 1,
         read_mirror |-> IF a = Size - 1 THEN 1 - r.read_mirror ELSE r.read_mirror,
         write_index |-> w, write_mirror |-> r.write_mirror]
  <2>1. CASE a = Size - 1
    <3>1. ~ (Size - a > 1) /\ 1 - (Size - a) = 0
      BY <1>2, <2>1
    <3>2. Took(r, 1) = [r EXCEPT !.read_index = 1 - (Size - @), !.read_mirror = 1 - @]
      BY <3>1 DEF Took
    <3> QED
      BY <1>2, <2>1, <3>1, <3>2, ZenonT(30)
  <2>2. CASE a # Size - 1
    <3>1. Size - a > 1
      BY <1>2, <2>2
    <3>2. Took(r, 1) = [r EXCEPT !.read_index = @ + 1]
      BY <3>1 DEF Took
    <3> QED
      BY <1>2, <2>2, <3>2
  <2> QED
    BY <2>1, <2>2
<1>6. rt_ringbuffer_putchar(r, ch) =
        IF rt_ringbuffer_space_len(r) = 0 THEN r ELSE Written(r, <<ch>>, 1)
  <2>1. Written(r, <<ch>>, 1) =
          [pool |-> pool, read_index |-> a, read_mirror |-> r.read_mirror,
           write_index  |-> IF last THEN 0 ELSE w + 1,
           write_mirror |-> IF last THEN 1 - r.write_mirror ELSE r.write_mirror]
    BY <1>2, <1>4
  <2>2. CASE rt_ringbuffer_space_len(r) = 0
    BY <2>2 DEF rt_ringbuffer_putchar
  <2>3. CASE rt_ringbuffer_space_len(r) # 0 /\ last
    <3>1. rt_ringbuffer_putchar(r, ch) =
            [r EXCEPT !.pool[r.write_index] = ch, !.write_index = 0, !.write_mirror = 1 - @]
      BY <2>3 DEF rt_ringbuffer_putchar
    <3>2. rt_ringbuffer_putchar(r, ch) =
            [pool |-> pool, read_index |-> a, read_mirror |-> r.read_mirror,
             write_index |-> 0, write_mirror |-> 1 - r.write_mirror]
      BY <1>1, <3>1, ZenonT(30) DEF RingType
    <3> QED
      BY <2>1, <2>3, <3>2
  <2>4. CASE rt_ringbuffer_space_len(r) # 0 /\ ~ last
    <3>1. rt_ringbuffer_putchar(r, ch) =
            [r EXCEPT !.pool[r.write_index] = ch, !.write_index = @ + 1]
      BY <2>4 DEF rt_ringbuffer_putchar
    <3>2. rt_ringbuffer_putchar(r, ch) =
            [pool |-> pool, read_index |-> a, read_mirror |-> r.read_mirror,
             write_index |-> w + 1, write_mirror |-> r.write_mirror]
      BY <1>1, <3>1, ZenonT(30) DEF RingType
    <3> QED
      BY <2>1, <2>4, <3>2
  <2> QED
    BY <2>2, <2>3, <2>4
<1>7. rt_ringbuffer_getchar(r) = IF rt_ringbuffer_data_len(r) = 0 THEN r ELSE Took(r, 1)
  <2>1. CASE rt_ringbuffer_data_len(r) = 0
    BY <2>1 DEF rt_ringbuffer_getchar
  <2>2. CASE rt_ringbuffer_data_len(r) # 0 /\ a = Size - 1
    <3>1. rt_ringbuffer_getchar(r) = [r EXCEPT !.read_index = 0, !.read_mirror = 1 - @]
      BY <2>2 DEF rt_ringbuffer_getchar
    <3>2. rt_ringbuffer_getchar(r) =
            [pool |-> r.pool, read_index |-> 0, read_mirror |-> 1 - r.read_mirror,
             write_index |-> w, write_mirror |-> r.write_mirror]
      BY <1>1, <3>1, ZenonT(30) DEF RingType
    <3> QED
      BY <1>5, <2>2, <3>2
  <2>3. CASE rt_ringbuffer_data_len(r) # 0 /\ a # Size - 1
    <3>1. rt_ringbuffer_getchar(r) = [r EXCEPT !.read_index = @ + 1]
      BY <2>3 DEF rt_ringbuffer_getchar
    <3>2. rt_ringbuffer_getchar(r) =
            [pool |-> r.pool, read_index |-> a + 1, read_mirror |-> r.read_mirror,
             write_index |-> w, write_mirror |-> r.write_mirror]
      BY <1>1, <3>1 DEF RingType
    <3> QED
      BY <1>5, <2>3, <3>2
  <2> QED
    BY <2>1, <2>2, <2>3
<1>8. /\ rt_ringbuffer_status(r) = "FULL" <=> rt_ringbuffer_space_len(r) = 0
      /\ rt_ringbuffer_status(r) = "FULL" => a = w
  BY <1>1 DEF RingType, Index, rt_ringbuffer_status, rt_ringbuffer_space_len, rt_ringbuffer_data_len
<1>9. rt_ringbuffer_putchar_force(r, ch) =
        IF rt_ringbuffer_space_len(r) = 0
        THEN Written(Took(r, 1), <<ch>>, 1) ELSE Written(r, <<ch>>, 1)
  <2> DEFINE full == rt_ringbuffer_status(r) = "FULL"
             next == IF last THEN 0 ELSE w + 1
  <2>1. rt_ringbuffer_putchar_force(r, ch) =
          [pool |-> pool, write_index |-> next,
           write_mirror |-> IF last THEN 1 - r.write_mirror ELSE r.write_mirror,
           read_index   |-> IF full THEN next ELSE a,
           read_mirror  |-> IF last /\ full THEN 1 - r.read_mirror ELSE r.read_mirror]
    <3>1. rt_ringbuffer_putchar_force(r, ch) =
            [r EXCEPT !.pool[r.write_index] = ch,
                      !.write_index  = next,
                      !.write_mirror = IF last THEN 1 - @ ELSE @,
                      !.read_index   = IF full THEN next ELSE @,
                      !.read_mirror  = IF last /\ full THEN 1 - @ ELSE @]
      BY DEF rt_ringbuffer_putchar_force
    <3> QED
      BY <1>1, <3>1, ZenonT(30) DEF RingType
  <2>2. CASE full
    <3>1. a = w
      BY <1>8, <2>2
    <3>2. Took(r, 1) =
            [pool |-> r.pool, read_index |-> next,
             read_mirror |-> IF last THEN 1 - r.read_mirror ELSE r.read_mirror,
             write_index |-> w, write_mirror |-> r.write_mirror]
      BY <1>5, <3>1
    <3>3. Written(Took(r, 1), <<ch>>, 1) =
            [pool |-> pool, read_index |-> next,
             read_mirror  |-> IF last THEN 1 - r.read_mirror ELSE r.read_mirror,
             write_index  |-> next,
             write_mirror |-> IF last THEN 1 - r.write_mirror ELSE r.write_mirror]
      BY <1>4, <3>2
    <3> QED
      BY <1>8, <2>1, <2>2, <3>3
  <2>3. CASE ~ full
    <3>1. Written(r, <<ch>>, 1) =
            [pool |-> pool, read_index |-> a, read_mirror |-> r.read_mirror,
             write_index  |-> next,
             write_mirror |-> IF last THEN 1 - r.write_mirror ELSE r.write_mirror]
      BY <1>2, <1>4
    <3> QED
      BY <1>8, <2>1, <2>3, <3>1
  <2> QED
    BY <2>2, <2>3
<1> QED
  BY <1>6, <1>7, <1>9

\* rt_ringbuffer_put appends the first bytes of the block, as many as there is room for.
LEMMA PutAppends ==
  ASSUME Size \in Nat \ {0}, NEW r, MirroredRing(r), NEW block \in Seq(Byte)
  PROVE  LET n == Smaller(Len(block), rt_ringbuffer_space_len(r))
         IN  /\ MirroredRing(rt_ringbuffer_put(r, block))
             /\ Contents(rt_ringbuffer_put(r, block)) = Contents(r) \o SubSeq(block, 1, n)
<1> DEFINE n == Smaller(Len(block), rt_ringbuffer_space_len(r))
<1>1. rt_ringbuffer_space_len(r) \in Nat /\ Len(block) \in Nat
  BY LengthFacts, LenProperties DEF rt_ringbuffer_space_len
<1>2. n \in 0 .. rt_ringbuffer_space_len(r) /\ n <= Len(block)
  BY <1>1 DEF Smaller
<1>3. \A i \in 1 .. n : block[i] \in Byte
  BY <1>1, <1>2, ElementOfSeq
<1>4. rt_ringbuffer_put(r, block) = IF n = 0 THEN r ELSE Written(r, block, n)
  BY DEF rt_ringbuffer_put, Accepted
<1> HIDE DEF n
<1>5. CASE n = 0
  <2>1. SubSeq(block, 1, n) = <<>>
    BY <1>5, SubSeqEmpty
  <2>2. Contents(r) \in Seq(Byte)
    BY ContentsFacts
  <2> QED
    BY <1>4, <1>5, <2>1, <2>2, ConcatEmptySeq DEF n
<1>6. CASE n # 0
  BY <1>2, <1>3, <1>4, <1>6, WritingAppends DEF n
<1> QED
  BY <1>5, <1>6, ZenonT(30)

\* A block that fits is put by force as it is put; one that does not leaves the indices
\* equal, in mirrors that are both flipped.
LEMMA ForceFacts ==
  ASSUME Size \in Nat \ {0}, NEW r, MirroredRing(r), NEW block \in Seq(Byte), NEW beyond \in Byte
  PROVE  /\ MirroredRing(rt_ringbuffer_put_force(r, block, beyond))
         /\ Len(block) <= rt_ringbuffer_space_len(r) =>
              Contents(rt_ringbuffer_put_force(r, block, beyond)) = Contents(r) \o block
<1> DEFINE space == rt_ringbuffer_space_len(r)
           n == IF Len(block) > space THEN Size ELSE Len(block)
           longer == [i \in 1 .. n |-> IF i <= Len(block) THEN block[i] ELSE beyond]
           new == Written(r, longer, n)
           forced == rt_ringbuffer_put_force(r, block, beyond)
<1>1. space \in 0 .. Size /\ Len(block) \in Nat /\ r \in RingType
  BY LengthFacts, LenProperties DEF rt_ringbuffer_space_len, MirroredRing
<1>2. n \in Nat
  BY <1>1
<1>3. \A i \in 1 .. n : longer[i] \in Byte
  <2> SUFFICES ASSUME NEW i \in 1 .. n PROVE longer[i] \in Byte
    OBVIOUS
  <2>1. CASE i <= Len(block)
    <3>1. i \in 1 .. Len(block)
      BY <1>1, <1>2, <2>1
    <3> QED
      BY <2>1, <3>1, ElementOfSeq
  <2>2. CASE ~ (i <= Len(block))
    BY <2>2
  <2> QED
    BY <2>1, <2>2
<1>4. forced = IF n <= space THEN new
               ELSE [new EXCEPT !.read_index  = new.write_index,
                                !.read_mirror = IF Size - r.write_index > n THEN @ ELSE 1 - @]
  BY DEF rt_ringbuffer_put_force
<1>5. CASE Len(block) <= space
  <2>1. n = Len(block) /\ n \in 0 .. space
    BY <1>1, <1>5
  <2>2. forced = Written(r, longer, n)
    BY <1>4, <2>1
  <2> HIDE DEF n, forced
  <2>3. MirroredRing(forced) /\ Contents(forced) = Contents(r) \o SubSeq(longer, 1, n)
    BY <1>3, <2>1, <2>2, WritingAppends, ZenonT(30)
  <2>4. longer = block
    <3>1. block \in [1 .. n -> Byte]
      BY <2>1, LenProperties
    <3>2. \A i \in 1 .. n : longer[i] = block[i]
      BY <1>1, <2>1
    <3> QED
      BY <3>1, <3>2
  <2>5. SubSeq(longer, 1, n) = block
    BY <2>1, <2>4, SubSeqFull
  <2> QED
    BY <2>3, <2>5, ZenonT(30) DEF forced
<1>6. CASE ~ (Len(block) <= space)
  <2>1. n = Size
    BY <1>1, <1>6
  <2>2. CASE n <= space
    <3>1. n \in 0 .. space /\ forced = Written(r, longer, n)
      BY <1>1, <1>2, <1>4, <2>2
    <3> HIDE DEF n, forced, longer
    <3>2. MirroredRing(forced)
      BY <1>3, <3>1, WritingAppends
    <3> QED
      BY <1>6, <3>2 DEF forced
  <2>3. CASE ~ (n <= space)
    <3> DEFINE pool == Copied(r, longer, n)
    <3>1. pool \in [Index -> Byte]
      <4> SUFFICES ASSUME NEW i \in Index PROVE pool[i] \in Byte
        BY DEF Copied
      <4>1. r.write_index \in 0 .. Size - 1 /\ r.pool \in [Index -> Byte]
        BY <1>1 DEF RingType, Index
      <4>2. pool[i] = IF i >= r.write_index /\ i < r.write_index + n
                      THEN longer[i - r.write_index + 1]
                      ELSE IF i < n - (Size - r.write_index)
                      THEN longer[Size - r.write_index + i + 1] ELSE r.pool[i]
        BY DEF Copied
      <4> HIDE DEF longer, pool, n
      <4>3. CASE i >= r.write_index
        <5>1. i < r.write_index + n /\ i - r.write_index + 1 \in 1 .. n
          BY <2>1, <4>1, <4>3, SMTT(30) DEF Index
        <5> QED
          BY <1>3, <4>2, <4>3, <5>1
      <4>4. CASE ~ (i >= r.write_index)
        <5>1. i < n - (Size - r.write_index) /\ Size - r.write_index + i + 1 \in 1 .. n
          BY <2>1, <4>1, <4>4, SMTT(30) DEF Index
        <5> QED
          BY <1>3, <4>2, <4>4, <5>1
      <4> QED
        BY <4>3, <4>4
    <3>2. /\ ~ (Size - r.write_index > n)
          /\ n - (Size - r.write_index) = r.write_index
      BY <1>1, <2>1 DEF RingType, Index
    <3>3. Wrote(r, n) = [r EXCEPT !.write_index = n - (Size - @), !.write_mirror = 1 - @]
      BY <3>2 DEF Wrote
    <3> HIDE DEF n
    <3>4. Wrote(r, n) =
            [pool |-> r.pool, read_index |-> r.read_index, read_mirror |-> r.read_mirror,
             write_index |-> r.write_index, write_mirror |-> 1 - r.write_mirror]
      BY <1>1, <3>2, <3>3, ZenonT(30) DEF RingType
    <3>5. new = [Wrote(r, n) EXCEPT !.pool = pool]
      BY DEF Written
    <3> HIDE DEF new, pool, longer
    <3>6. new = [pool |-> pool, read_index |-> r.read_index, read_mirror |-> r.read_mirror,
                 write_index |-> r.write_index, write_mirror |-> 1 - r.write_mirror]
      BY <3>4, <3>5
    <3>7. forced = [new EXCEPT !.read_index = new.write_index, !.read_mirror = 1 - @]
      BY <1>4, <2>3, <3>2, ZenonT(30)
    <3> HIDE DEF forced
    <3>8. forced = [pool |-> pool, read_index |-> r.write_index, read_mirror |-> 1 - r.read_mirror,
                    write_index |-> r.write_index, write_mirror |-> 1 - r.write_mirror]
      BY <3>6, <3>7, ZenonT(30)
    <3>9. MirroredRing(forced)
      BY <1>1, <3>1, <3>8, SMTT(30) DEF MirroredRing, RingType, Index
    <3> QED
      BY <1>6, <3>9 DEF forced
  <2> QED
    BY <2>2, <2>3
<1> QED
  BY <1>5, <1>6

\* rt_ringbuffer_get delivers and removes the oldest bytes, as many as there are.
LEMMA GetRemoves ==
  ASSUME Size \in Nat \ {0}, NEW r, MirroredRing(r), NEW m \in Nat
  PROVE  LET n == Smaller(m, rt_ringbuffer_data_len(r))
         IN  /\ MirroredRing(rt_ringbuffer_get(r, m))
             /\ Contents(rt_ringbuffer_get(r, m)) =
                  SubSeq(Contents(r), n + 1, rt_ringbuffer_data_len(r))
             /\ Taken(r, m) = SubSeq(Contents(r), 1, n)
<1> DEFINE len == rt_ringbuffer_data_len(r)
           n == Smaller(m, len)
<1>1. len \in 0 .. Size /\ r.read_index \in 0 .. Size - 1
  BY LengthFacts DEF MirroredRing, RingType, Index
<1>2. n \in 0 .. len
  BY <1>1 DEF Smaller
<1>3. /\ Contents(r) \in Seq(Byte) /\ Len(Contents(r)) = len
      /\ \A i \in 1 .. len : Contents(r)[i] = r.pool[Position(r.read_index, i)]
  BY ContentsFacts
<1>4. rt_ringbuffer_get(r, m) = IF n = 0 THEN r ELSE Took(r, n)
  BY DEF rt_ringbuffer_get, Available
<1>5. Taken(r, m) =
        [i \in 1 .. n |-> r.pool[IF i <= Size - r.read_index THEN r.read_index + i - 1
                                 ELSE i - (Size - r.read_index) - 1]]
  BY DEF Taken, Available
<1> HIDE DEF n, len
<1>6. /\ MirroredRing(rt_ringbuffer_get(r, m))
      /\ Contents(rt_ringbuffer_get(r, m)) = SubSeq(Contents(r), n + 1, len)
  <2>1. CASE n = 0
    <3>1. SubSeq(Contents(r), 1, len) = Contents(r)
      BY <1>3, SubSeqFull
    <3> QED
      BY <1>4, <2>1, <3>1
  <2>2. CASE n # 0
    BY <1>2, <1>4, <2>2, TakingRemoves DEF len
  <2> QED
    BY <2>1, <2>2
<1>7. Taken(r, m) = SubSeq(Contents(r), 1, n)
  <2> DEFINE part == SubSeq(Contents(r), 1, n)
  <2>1. \A i \in 1 .. n : Contents(r)[i] \in Byte
    BY <1>1, <1>2, <1>3, ElementOfSeq
  <2>2. part \in Seq(Byte) /\ Len(part) = n /\ \A i \in 1 .. n : part[i] = Contents(r)[i]
    BY <1>1, <1>2, <2>1, SubSeqProperties
  <2> HIDE DEF part
  <2>3. \A i \in 1 .. n : Taken(r, m)[i] = Contents(r)[i]
    <3> TAKE i \in 1 .. n
    <3>1. Position(r.read_index, i) = IF i <= Size - r.read_index THEN r.read_index + i - 1
                                      ELSE i - (Size - r.read_index) - 1
      BY <1>1, <1>2 DEF Position
    <3>2. i \in 1 .. len
      BY <1>1, <1>2
    <3> QED
      BY <1>3, <1>5, <3>1, <3>2
  <2>4. Taken(r, m) \in Seq(Byte) /\ Len(Taken(r, m)) = n
    <3>1. DOMAIN Taken(r, m) = 1 .. n /\ Taken(r, m) = [i \in 1 .. n |-> Taken(r, m)[i]]
      BY <1>5
    <3>2. Taken(r, m) \in [1 .. n -> Byte]
      BY <2>1, <2>3, <3>1
    <3> QED
      BY <1>1, <1>2, <3>2
  <2>5. Taken(r, m) = part
    BY <2>2, <2>3, <2>4, SameBytes
  <2> QED
    BY <2>5 DEF part
<1> QED
  BY <1>6, <1>7 DEF n, len

\* What the calls for one character do to the contents.
LEMMA CharFacts ==
  ASSUME Size \in Nat \ {0}, NEW r, MirroredRing(r), NEW ch \in Byte
  PROVE  LET q == Contents(r)
             space == Size - Len(q)
         IN  /\ MirroredRing(rt_ringbuffer_putchar(r, ch))
             /\ MirroredRing(rt_ringbuffer_putchar_force(r, ch))
             /\ MirroredRing(rt_ringbuffer_getchar(r))
             /\ Contents(rt_ringbuffer_putchar(r, ch)) = IF space = 0 THEN q ELSE Append(q, ch)
             /\ Contents(rt_ringbuffer_putchar_force(r, ch)) =
                  Append(IF space = 0 THEN Tail(q) ELSE q, ch)
             /\ Contents(rt_ringbuffer_getchar(r)) = IF q = <<>> THEN q ELSE Tail(q)
<1> DEFINE q == Contents(r)
           len == rt_ringbuffer_data_len(r)
           space == rt_ringbuffer_space_len(r)
<1>1. len \in 0 .. Size
  BY LengthFacts
<1>2. q \in Seq(Byte) /\ Len(q) = len
  BY ContentsFacts
<1>3. space = Size - Len(q)
  BY <1>2 DEF rt_ringbuffer_space_len
<1>4. q = <<>> <=> len = 0
  BY <1>2, EmptySeq
<1>5. ASSUME NEW s, MirroredRing(s), rt_ringbuffer_space_len(s) > 0
      PROVE  /\ MirroredRing(Written(s, <<ch>>, 1))
             /\ Contents(Written(s, <<ch>>, 1)) = Append(Contents(s), ch)
  <2>1. rt_ringbuffer_space_len(s) \in Int
    BY <1>5, LengthFacts DEF rt_ringbuffer_space_len
  <2>2. 1 \in 0 .. rt_ringbuffer_space_len(s)
    BY <1>5, <2>1, SMTT(30)
  <2>3. /\ MirroredRing(Written(s, <<ch>>, 1))
        /\ Contents(Written(s, <<ch>>, 1)) = Contents(s) \o SubSeq(<<ch>>, 1, 1)
    BY <1>5, <2>2, WritingAppends
  <2>4. SubSeq(<<ch>>, 1, 1) = <<ch>>
    <3>1. <<ch>> \in Seq(Byte) /\ Len(<<ch>>) = 1
      OBVIOUS
    <3> QED
      BY <3>1, SubSeqFull, ZenonT(30)
  <2>5. Append(Contents(s), ch) = Contents(s) \o <<ch>>
    BY <1>5, ContentsFacts, AppendIsConcat
  <2> QED
    BY <2>3, <2>4, <2>5
<1>6. ASSUME len # 0
      PROVE  /\ MirroredRing(Took(r, 1))
             /\ Contents(Took(r, 1)) = Tail(q)
             /\ rt_ringbuffer_space_len(Took(r, 1)) = Size - (len - 1)
  <2>1. 1 \in 0 .. len
    BY <1>1, <1>6
  <2>2. MirroredRing(Took(r, 1)) /\ Contents(Took(r, 1)) = SubSeq(q, 1 + 1, len)
    BY <2>1, TakingRemoves
  <2>3. Tail(q) = SubSeq(q, 2, len)
    BY <1>2, <1>4, <1>6, TailIsSubSeq
  <2>4. rt_ringbuffer_space_len(Took(r, 1)) = Size - (len - 1)
    BY <2>1, TookFacts DEF rt_ringbuffer_space_len
  <2> HIDE DEF q, len
  <2>5. 1 + 1 = 2
    OBVIOUS
  <2> QED
    BY <2>2, <2>3, <2>4, <2>5, ZenonT(30)
<1> HIDE DEF q, len, space
<1>7. /\ MirroredRing(rt_ringbuffer_putchar(r, ch))
      /\ Contents(rt_ringbuffer_putchar(r, ch)) = IF space = 0 THEN q ELSE Append(q, ch)
  <2>1. rt_ringbuffer_putchar(r, ch) = IF space = 0 THEN r ELSE Written(r, <<ch>>, 1)
    BY CharIsBlock DEF space
  <2>2. CASE space = 0
    BY <2>1, <2>2 DEF q
  <2>3. CASE space # 0
    <3>1. rt_ringbuffer_space_len(r) > 0
      BY <1>1, <1>2, <1>3, <2>3 DEF space
    <3> QED
      BY <1>5, <2>1, <2>3, <3>1 DEF q
  <2> QED
    BY <2>2, <2>3
<1>8. /\ MirroredRing(rt_ringbuffer_getchar(r))
      /\ Contents(rt_ringbuffer_getchar(r)) = IF q = <<>> THEN q ELSE Tail(q)
  <2>1. rt_ringbuffer_getchar(r) = IF len = 0 THEN r ELSE Took(r, 1)
    BY CharIsBlock, ZenonT(30) DEF len
  <2> QED
    BY <1>4, <1>6, <2>1, ZenonT(30) DEF q
<1>9. /\ MirroredRing(rt_ringbuffer_putchar_force(r, ch))
      /\ Contents(rt_ringbuffer_putchar_force(r, ch)) =
           Append(IF space = 0 THEN Tail(q) ELSE q, ch)
  <2>1. rt_ringbuffer_putchar_force(r, ch) =
          IF space = 0 THEN Written(Took(r, 1), <<ch>>, 1) ELSE Written(r, <<ch>>, 1)
    BY CharIsBlock DEF space
  <2>2. CASE space = 0
    <3>1. len # 0
      BY <1>1, <1>2, <1>3, <2>2
    <3>2. MirroredRing(Took(r, 1)) /\ rt_ringbuffer_space_len(Took(r, 1)) > 0
      BY <1>1, <1>6, <3>1
    <3> QED
      BY <1>5, <1>6, <2>1, <2>2, <3>1, <3>2, ZenonT(30)
  <2>3. CASE space # 0
    <3>1. rt_ringbuffer_space_len(r) > 0
      BY <1>1, <1>2, <1>3, <2>3 DEF space
    <3> QED
      BY <1>5, <2>1, <2>3, <3>1 DEF q
  <2> QED
    BY <2>2, <2>3
<1> QED
  BY <1>3, <1>7, <1>8, <1>9 DEF q

-----------------------------------------------------------------------------
\* Every sequence of calls keeps the indices and the mirrors of the buffer in step, for
\* every size of the buffer and whatever is put.
THEOREM IndicesMirrored ==
  ASSUME ConstantsOK
  PROVE  Spec => []Mirrored
<1>0. Size \in Nat \ {0} /\ Blocks \subseteq Seq(Byte)
  BY DEF ConstantsOK
<1>1. Init => Mirrored
  BY <1>0 DEF Init, NewRing, Mirrored, MirroredRing, RingType, Index
<1>2. Mirrored /\ [Next]_rb => Mirrored'
  <2> SUFFICES ASSUME Mirrored, [Next]_rb PROVE Mirrored'
    OBVIOUS
  <2>0. MirroredRing(rb)
    BY DEF Mirrored
  <2>1. CASE \E block \in Blocks : rb' = rt_ringbuffer_put(rb, block)
    BY <1>0, <2>0, <2>1, PutAppends DEF Mirrored
  <2>2. CASE \E block \in Blocks, beyond \in Byte : rb' = rt_ringbuffer_put_force(rb, block, beyond)
    BY <1>0, <2>0, <2>2, ForceFacts DEF Mirrored
  <2>3. CASE \E n \in 0 .. Size : rb' = rt_ringbuffer_get(rb, n)
    <3>1. PICK n \in Nat : rb' = rt_ringbuffer_get(rb, n)
      BY <1>0, <2>3
    <3> QED
      BY <1>0, <2>0, <3>1, GetRemoves DEF Mirrored
  <2>4. CASE \E ch \in Byte : \/ rb' = rt_ringbuffer_putchar(rb, ch)
                              \/ rb' = rt_ringbuffer_putchar_force(rb, ch)
    BY <1>0, <2>0, <2>4, CharFacts DEF Mirrored
  <2>5. CASE rb' = rt_ringbuffer_getchar(rb)
    <3>1. PICK ch : ch \in Byte
      BY DEF ConstantsOK
    <3> QED
      BY <1>0, <2>0, <2>5, <3>1, CharFacts DEF Mirrored
  <2>6. CASE UNCHANGED rb
    BY <2>0, <2>6 DEF Mirrored
  <2> QED
    BY <2>1, <2>2, <2>3, <2>4, <2>5, <2>6, Zenon DEF Next
<1> QED
  BY <1>1, <1>2, PTL DEF Spec

\* Whatever calls came before, each call does to the bytes in the buffer what it would
\* do to a queue of bytes, for every size of the buffer and whatever is put.
THEOREM RingIsAQueue ==
  ASSUME ConstantsOK
  PROVE  Spec => []RingIsQueue
<1>0. Size \in Nat \ {0} /\ Blocks \subseteq Seq(Byte)
  BY DEF ConstantsOK
<1>1. Mirrored => RingIsQueue
  <2> SUFFICES ASSUME MirroredRing(rb) PROVE RingIsQueue
    BY DEF Mirrored
  <2> DEFINE q == Contents(rb)
             space == Size - Len(q)
  <2>1. Len(q) = rt_ringbuffer_data_len(rb) /\ space = rt_ringbuffer_space_len(rb)
    BY <1>0, ContentsFacts DEF rt_ringbuffer_space_len
  <2>2. ASSUME NEW block \in Blocks
        PROVE  /\ Contents(rt_ringbuffer_put(rb, block)) =
                    q \o SubSeq(block, 1, Smaller(Len(block), space))
               /\ Len(block) <= space =>
                    \A beyond \in Byte :
                      Contents(rt_ringbuffer_put_force(rb, block, beyond)) = q \o block
    <3>1. block \in Seq(Byte)
      BY <1>0
    <3> QED
      BY <1>0, <2>1, <3>1, PutAppends, ForceFacts, ZenonT(30)
  <2>3. ASSUME NEW n \in 0 .. Size
        PROVE  /\ Taken(rb, n) = SubSeq(q, 1, Smaller(n, Len(q)))
               /\ Contents(rt_ringbuffer_get(rb, n)) = SubSeq(q, Smaller(n, Len(q)) + 1, Len(q))
    <3>1. n \in Nat
      BY <1>0
    <3> QED
      BY <1>0, <2>1, <3>1, GetRemoves
  <2>4. ASSUME NEW ch \in Byte
        PROVE  /\ Contents(rt_ringbuffer_putchar(rb, ch)) = IF space = 0 THEN q ELSE Append(q, ch)
               /\ Contents(rt_ringbuffer_putchar_force(rb, ch)) =
                    Append(IF space = 0 THEN Tail(q) ELSE q, ch)
    BY <1>0, CharFacts
  <2>5. Contents(rt_ringbuffer_getchar(rb)) = IF q = <<>> THEN q ELSE Tail(q)
    <3>1. PICK ch : ch \in Byte
      BY DEF ConstantsOK
    <3> QED
      BY <1>0, <3>1, CharFacts
  <2> QED
    BY <2>2, <2>3, <2>4, <2>5 DEF RingIsQueue
<1> QED
  BY <1>1, IndicesMirrored, PTL
=============================================================================
