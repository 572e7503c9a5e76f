-------------------------- MODULE RingBuffer_proofs --------------------------
(***************************************************************************)
(* Proofs about RingBuffer, for every capacity, byte set, set of slice     *)
(* lengths and set of blocking readers.  The argument has three layers:    *)
(* arithmetic of the wrapped positions, what the copies in and out of the  *)
(* storage produce, and the inductive invariant TypeOK /\ FIFO /\ EOFInv.  *)
(* The router that polls the buffers (StreamRouter) follows at the end.    *)
(***************************************************************************)
EXTENDS RingBuffer, StreamRouter, SequenceTheorems, TLAPS

-----------------------------------------------------------------------------
(* Arithmetic of positions *)

\* Division with remainder by the capacity.
LEMMA ModDef ==
  ASSUME NEW a \in Nat
  PROVE  /\ a % BufferSize \in 0 .. BufferSize - 1
         /\ a \div BufferSize \in Int
         /\ a = BufferSize * (a \div BufferSize) + (a % BufferSize)
  BY BufferSizeAssumption

\* A multiple of the capacity by a positive factor is at least the capacity.
LEMMA MulGE ==
  ASSUME NEW q \in Int, q >= 1
  PROVE  BufferSize * q >= BufferSize
  BY BufferSizeAssumption

\* Two numbers with quotients q1 and q2 and remainders r1 and r2 are equal in
\* both when they are equal.
LEMMA DivModUnique ==
  ASSUME NEW q1 \in Int, NEW q2 \in Int,
         NEW r1 \in 0 .. BufferSize - 1, NEW r2 \in 0 .. BufferSize - 1,
         BufferSize * q1 + r1 = BufferSize * q2 + r2
  PROVE  q1 = q2 /\ r1 = r2
<1>1. BufferSize \in Nat
  BY BufferSizeAssumption
<1>2. BufferSize * (q1 - q2) = BufferSize * q1 - BufferSize * q2
  BY <1>1
<1>3. BufferSize * (q2 - q1) = BufferSize * q2 - BufferSize * q1
  BY <1>1
<1>4. BufferSize * q1 \in Int /\ BufferSize * q2 \in Int
  BY <1>1
<1>5. ~(q1 - q2 >= 1)
  <2>1. SUFFICES ASSUME q1 - q2 >= 1 PROVE FALSE
    OBVIOUS
  <2>2. BufferSize * (q1 - q2) >= BufferSize
    BY <2>1, MulGE
  <2>3. QED
    BY <1>1, <1>2, <1>4, <2>2
<1>6. ~(q2 - q1 >= 1)
  <2>1. SUFFICES ASSUME q2 - q1 >= 1 PROVE FALSE
    OBVIOUS
  <2>2. BufferSize * (q2 - q1) >= BufferSize
    BY <2>1, MulGE
  <2>3. QED
    BY <1>1, <1>3, <1>4, <2>2
<1>7. q1 = q2
  BY <1>5, <1>6
<1>8. QED
  BY <1>1, <1>4, <1>7

\* Stepping k positions forward without reaching the end of the storage.
LEMMA ModShift ==
  ASSUME NEW a \in Nat, NEW k \in Nat, (a % BufferSize) + k < BufferSize
  PROVE  (a + k) % BufferSize = (a % BufferSize) + k
<1> DEFINE qa == a \div BufferSize
           qb == (a + k) \div BufferSize
           ma == a % BufferSize
           mb == (a + k) % BufferSize
<1>1. qa \in Int /\ ma \in 0 .. BufferSize - 1 /\ a = BufferSize * qa + ma
  BY ModDef
<1>2. qb \in Int /\ mb \in 0 .. BufferSize - 1 /\ a + k = BufferSize * qb + mb
  BY ModDef
<1>3. BufferSize \in Nat /\ BufferSize * qa \in Int /\ BufferSize * qb \in Int
  BY BufferSizeAssumption, <1>1, <1>2
<1>4. ma + k \in 0 .. BufferSize - 1
  BY <1>1, <1>3
<1>5. BufferSize * qa + (ma + k) = BufferSize * qb + mb
  <2> HIDE DEF qa, qb, ma, mb
  <2>1. QED BY <1>1, <1>2, <1>3
<1>6. ma + k = mb
  <2> HIDE DEF qa, qb, ma, mb
  <2>1. QED BY <1>1, <1>2, <1>4, <1>5, DivModUnique
<1>7. QED
  BY <1>6

\* Stepping forward past the end of the storage lands at its front.
LEMMA ModWrap ==
  ASSUME NEW a \in Nat, NEW k \in Nat,
         (a % BufferSize) + k >= BufferSize,
         (a % BufferSize) + k < 2 * BufferSize
  PROVE  (a + k) % BufferSize = (a % BufferSize) + k - BufferSize
<1> DEFINE qa == a \div BufferSize
           qb == (a + k) \div BufferSize
           ma == a % BufferSize
           mb == (a + k) % BufferSize
<1>1. qa \in Int /\ ma \in 0 .. BufferSize - 1 /\ a = BufferSize * qa + ma
  BY ModDef
<1>2. qb \in Int /\ mb \in 0 .. BufferSize - 1 /\ a + k = BufferSize * qb + mb
  BY ModDef
<1>3. BufferSize \in Nat /\ BufferSize * qa \in Int /\ BufferSize * qb \in Int
  BY BufferSizeAssumption, <1>1, <1>2
<1>4. ma + k - BufferSize \in 0 .. BufferSize - 1
  BY <1>1, <1>3
<1>5. BufferSize * (qa + 1) = BufferSize * qa + BufferSize
  BY <1>1, <1>3
<1>6. BufferSize * (qa + 1) + (ma + k - BufferSize) = BufferSize * qb + mb
  <2> HIDE DEF qa, qb, ma, mb
  <2>1. QED BY <1>1, <1>2, <1>3, <1>5
<1>7. ma + k - BufferSize = mb
  <2> HIDE DEF qa, qb, ma, mb
  <2>1. qa + 1 \in Int
    BY <1>1
  <2>2. QED BY <2>1, <1>2, <1>4, <1>6, DivModUnique
<1>8. QED
  BY <1>7

\* Cursors less than a capacity apart have different positions.
LEMMA ModDistinct ==
  ASSUME NEW a \in Nat, NEW b \in Nat, a < b, b - a < BufferSize
  PROVE  a % BufferSize # b % BufferSize
<1> DEFINE k == b - a
<1>1. k \in Nat /\ k >= 1 /\ k < BufferSize /\ b = a + k
  BY BufferSizeAssumption
<1>2. a % BufferSize \in 0 .. BufferSize - 1
  BY ModDef
<1>3. BufferSize \in Nat
  BY BufferSizeAssumption
<1> HIDE DEF k
<1>4. CASE (a % BufferSize) + k < BufferSize
  <2>1. b % BufferSize = (a % BufferSize) + k
    BY <1>1, <1>4, ModShift
  <2>2. QED
    BY <1>1, <1>2, <1>3, <2>1
<1>5. CASE (a % BufferSize) + k >= BufferSize
  <2>1. (a % BufferSize) + k < 2 * BufferSize
    BY <1>1, <1>2, <1>3
  <2>2. b % BufferSize = (a % BufferSize) + k - BufferSize
    BY <1>1, <1>5, <2>1, ModWrap
  <2>3. QED
    BY <1>1, <1>2, <1>3, <2>2
<1>6. QED
  BY <1>1, <1>2, <1>3, <1>4, <1>5

-----------------------------------------------------------------------------
(* What the copies produce *)

\* A chunk is a sequence of bytes and so are its prefixes.
LEMMA ChunkPrefix ==
  ASSUME NEW p \in Chunk, NEW n \in 0 .. Len(p)
  PROVE  /\ Len(p) \in Nat /\ p \in Seq(Byte)
         /\ SubSeq(p, 1, n) \in Seq(Byte)
         /\ Len(SubSeq(p, 1, n)) = n
         /\ \A i \in 1..n : SubSeq(p, 1, n)[i] = p[i]
<1>1. p \in Seq(Byte)
  BY SeqDef, LensAssumption DEF Chunk
<1>2. Len(p) \in Nat /\ p \in [1..Len(p) -> Byte]
  BY <1>1, LenProperties
<1>3. \A i \in 1..n : p[i] \in Byte
  BY <1>2
<1>4. n \in Int /\ 1 \in Int
  BY <1>2
<1>5. /\ SubSeq(p, 1, n) \in Seq(Byte)
      /\ Len(SubSeq(p, 1, n)) = IF 1 <= n THEN n - 1 + 1 ELSE 0
      /\ \A i \in 1 .. n - 1 + 1 : SubSeq(p, 1, n)[i] = p[1 + i - 1]
  BY <1>3, <1>4, SubSeqProperties
<1>6. QED
  BY <1>1, <1>2, <1>5

\* A run of slots inside the storage is a sequence of bytes.
LEMMA SliceProperties ==
  ASSUME data \in [Slot -> Byte],
         NEW pos \in Nat, NEW n \in Nat, pos + n <= BufferSize
  PROVE  /\ Slice(pos, n) \in Seq(Byte)
         /\ Len(Slice(pos, n)) = n
         /\ \A i \in 1..n : Slice(pos, n)[i] = data[pos + i - 1]
<1>1. \A i \in 1..n : data[pos + i - 1] \in Byte
  BY BufferSizeAssumption DEF Slot
<1>2. Slice(pos, n) \in [1..n -> Byte]
  BY <1>1 DEF Slice
<1>3. Slice(pos, n) \in Seq(Byte)
  BY <1>2, SeqDef
<1>4. Len(Slice(pos, n)) = n
  BY <1>2, <1>3, LenProperties
<1>5. \A i \in 1..n : Slice(pos, n)[i] = data[pos + i - 1]
  BY DEF Slice
<1>6. QED
  BY <1>3, <1>4, <1>5

\* TryRead of n bytes yields the bytes at the n cursors from read on, whether
\* or not the run wraps around the end of the storage.
LEMMA TryReadBytesProperties ==
  ASSUME data \in [Slot -> Byte], read \in Nat, NEW n \in 0 .. BufferSize
  PROVE  /\ TryReadBytes(n) \in Seq(Byte)
         /\ Len(TryReadBytes(n)) = n
         /\ \A i \in 1..n : TryReadBytes(n)[i] = data[(read + i - 1) % BufferSize]
<1> DEFINE pos == read % BufferSize
           space == BufferSize - pos
           at(i) == (read + i - 1) % BufferSize
<1> SUFFICES /\ TryReadBytes(n) \in Seq(Byte) /\ Len(TryReadBytes(n)) = n
             /\ \A i \in 1..n : TryReadBytes(n)[i] = data[at(i)]
  OBVIOUS
<1>1. BufferSize \in Nat /\ n \in Nat /\ n <= BufferSize
  BY BufferSizeAssumption
<1>2. /\ pos \in Nat /\ pos < BufferSize
      /\ space \in Nat /\ space >= 1 /\ space = BufferSize - pos
  BY <1>1, ModDef
<1>3. \A i \in 1..n :
        /\ pos + i - 1 < BufferSize => at(i) = pos + i - 1
        /\ pos + i - 1 >= BufferSize => at(i) = pos + i - 1 - BufferSize
  <2> SUFFICES ASSUME NEW i \in 1..n
               PROVE  /\ pos + i - 1 < BufferSize => at(i) = pos + i - 1
                      /\ pos + i - 1 >= BufferSize => at(i) = pos + i - 1 - BufferSize
    OBVIOUS
  <2> DEFINE k == i - 1
  <2>1. k \in Nat /\ read + i - 1 = read + k /\ pos + i - 1 = pos + k /\ k < BufferSize
    BY <1>1, <1>2
  <2>2. pos + k < 2 * BufferSize
    BY <1>1, <1>2, <2>1
  <2>3. pos + k < BufferSize => (read + k) % BufferSize = pos + k
    BY <2>1, ModShift
  <2>4. pos + k >= BufferSize => (read + k) % BufferSize = pos + k - BufferSize
    BY <2>1, <2>2, ModWrap
  <2>5. QED
    BY <2>1, <2>3, <2>4
<1>a. /\ n <= space => TryReadBytes(n) = Slice(pos, n)
      /\ n > space => TryReadBytes(n) = Slice(pos, space) \o Slice(0, n - space)
  BY <1>1, <1>2 DEF TryReadBytes
<1>b. pos + space <= BufferSize
  BY <1>1, <1>2
<1> HIDE DEF pos, space, at
<1>4. CASE n <= space
  <2>1. TryReadBytes(n) = Slice(pos, n)
    BY <1>4, <1>a
  <2>2. pos + n <= BufferSize
    BY <1>1, <1>2, <1>4
  <2>3. /\ Slice(pos, n) \in Seq(Byte) /\ Len(Slice(pos, n)) = n
        /\ \A i \in 1..n : Slice(pos, n)[i] = data[pos + i - 1]
    BY <1>1, <1>2, <2>2, SliceProperties
  <2>4. ASSUME NEW i \in 1..n PROVE at(i) = pos + i - 1
    <3>1. pos + i - 1 < BufferSize
      BY <1>1, <1>2, <2>2
    <3>2. QED
      BY <1>3, <3>1
  <2>5. QED
    BY <2>1, <2>3, <2>4
<1>5. CASE n > space
  <2> DEFINE s1 == Slice(pos, space)
             s2 == Slice(0, n - space)
  <2>1. TryReadBytes(n) = s1 \o s2
    BY <1>5, <1>a
  <2>2. /\ s1 \in Seq(Byte) /\ Len(s1) = space
        /\ \A i \in 1..space : s1[i] = data[pos + i - 1]
    BY <1>2, <1>b, SliceProperties
  <2>3. n - space \in Nat /\ 0 + (n - space) <= BufferSize
    BY <1>1, <1>2, <1>5
  <2>4. /\ s2 \in Seq(Byte) /\ Len(s2) = n - space
        /\ \A i \in 1..(n - space) : s2[i] = data[0 + i - 1]
    BY <2>3, SliceProperties
  <2> HIDE DEF s1, s2
  <2>5. /\ s1 \o s2 \in Seq(Byte)
        /\ Len(s1 \o s2) = Len(s1) + Len(s2)
        /\ \A i \in 1 .. Len(s1) + Len(s2) :
             (s1 \o s2)[i] = IF i <= Len(s1) THEN s1[i] ELSE s2[i - Len(s1)]
    BY <2>2, <2>4, ConcatProperties
  <2>6. Len(s1) + Len(s2) = n
    BY <1>1, <1>2, <2>2, <2>4
  <2>7. ASSUME NEW i \in 1..n
        PROVE  (s1 \o s2)[i] = data[at(i)]
    <3>1. CASE i <= space
      <4>1. (s1 \o s2)[i] = data[pos + i - 1]
        BY <1>2, <2>2, <2>5, <2>6, <3>1
      <4>2. at(i) = pos + i - 1
        <5>1. pos + i - 1 < BufferSize
          BY <1>1, <1>2, <3>1
        <5>2. QED
          BY <1>3, <5>1
      <4>3. QED
        BY <4>1, <4>2
    <3>2. CASE i > space
      <4>1. i - space \in 1..(n - space) /\ ~(i <= space)
        BY <1>1, <1>2, <3>2
      <4>2. (s1 \o s2)[i] = s2[i - space]
        BY <2>2, <2>5, <2>6, <4>1
      <4>3. s2[i - space] = data[0 + (i - space) - 1]
        BY <2>4, <4>1
      <4>4. 0 + (i - space) - 1 = pos + i - 1 - BufferSize
        BY <1>1, <1>2
      <4>5. at(i) = pos + i - 1 - BufferSize
        <5>1. pos + i - 1 >= BufferSize
          BY <1>1, <1>2, <3>2
        <5>2. QED
          BY <1>3, <5>1
      <4>6. QED
        BY <4>2, <4>3, <4>4, <4>5
    <3>3. i <= space \/ i > space
      BY <1>1, <1>2
    <3>4. QED
      BY <3>1, <3>2, <3>3
  <2>8. QED
    BY <2>1, <2>5, <2>6, <2>7
<1>6. QED
  BY <1>1, <1>2, <1>4, <1>5

\* Handing out the next bytes of a stream extends the prefix handed out.
LEMMA ExtendPrefix ==
  ASSUME NEW s \in Seq(Byte), NEW r \in Nat, NEW n \in Nat, r + n <= Len(s),
         NEW b \in Seq(Byte), Len(b) = n, \A i \in 1..n : b[i] = s[r + i]
  PROVE  SubSeq(s, 1, r) \o b = SubSeq(s, 1, r + n)
<1>1. Len(s) \in Nat /\ r \in (1 - 1)..Len(s) /\ r + n \in r..Len(s) /\ 1 \in 1..(Len(s) + 1)
  BY LenProperties
<1>2. \A i \in (r + 1)..(r + n) : s[i] \in Byte
  BY <1>1, ElementOfSeq
<1>3. /\ SubSeq(s, r + 1, r + n) \in Seq(Byte)
      /\ Len(SubSeq(s, r + 1, r + n)) = IF r + 1 <= r + n THEN (r + n) - (r + 1) + 1 ELSE 0
      /\ \A i \in 1 .. (r + n) - (r + 1) + 1 :
            SubSeq(s, r + 1, r + n)[i] = s[(r + 1) + i - 1]
  <2>1. r + 1 \in Int /\ r + n \in Int
    OBVIOUS
  <2>2. QED
    BY <1>2, <2>1, SubSeqProperties
<1>4. Len(SubSeq(s, r + 1, r + n)) = n
  BY <1>3
<1>5. ASSUME NEW i \in 1..n PROVE SubSeq(s, r + 1, r + n)[i] = b[i]
  <2>1. i \in 1 .. (r + n) - (r + 1) + 1 /\ (r + 1) + i - 1 = r + i
    OBVIOUS
  <2> QED BY <1>3, <2>1
<1>6. b = SubSeq(s, r + 1, r + n)
  BY <1>3, <1>4, <1>5, SeqEqual
<1>7. SubSeq(s, 1, r) \o SubSeq(s, r + 1, r + n) = SubSeq(s, 1, r + n)
  BY <1>1, ConcatAdjacentSubSeq
<1>8. QED
  BY <1>6, <1>7

\* A prefix of a stream is a prefix of every longer one.
LEMMA PrefixOfConcat ==
  ASSUME NEW s \in Seq(Byte), NEW t \in Seq(Byte), NEW r \in 0..Len(s)
  PROVE  SubSeq(s \o t, 1, r) = SubSeq(s, 1, r)
<1>1. Len(s) \in Nat /\ Len(t) \in Nat /\ 1 \in Int /\ r \in Int
  BY LenProperties
<1>2. /\ s \o t \in Seq(Byte)
      /\ \A i \in 1 .. Len(s) + Len(t) : (s \o t)[i] =
                     IF i <= Len(s) THEN s[i] ELSE t[i - Len(s)]
  BY ConcatProperties
<1>3. \A i \in 1..r : s[i] \in Byte /\ (s \o t)[i] = s[i]
  BY <1>1, <1>2, ElementOfSeq
<1>4. /\ SubSeq(s, 1, r) \in Seq(Byte)
      /\ Len(SubSeq(s, 1, r)) = IF 1 <= r THEN r - 1 + 1 ELSE 0
      /\ \A i \in 1 .. r - 1 + 1 : SubSeq(s, 1, r)[i] = s[1 + i - 1]
  BY <1>1, <1>3, SubSeqProperties
<1>5. \A i \in 1..r : (s \o t)[i] \in Byte
  BY <1>3
<1>6. /\ SubSeq(s \o t, 1, r) \in Seq(Byte)
      /\ Len(SubSeq(s \o t, 1, r)) = IF 1 <= r THEN r - 1 + 1 ELSE 0
      /\ \A i \in 1 .. r - 1 + 1 : SubSeq(s \o t, 1, r)[i] = (s \o t)[1 + i - 1]
  BY <1>1, <1>5, SubSeqProperties
<1>7. Len(SubSeq(s, 1, r)) = r /\ Len(SubSeq(s \o t, 1, r)) = r
  BY <1>1, <1>4, <1>6
<1>8. \A i \in 1..r : SubSeq(s \o t, 1, r)[i] = SubSeq(s, 1, r)[i]
  BY <1>1, <1>3, <1>4, <1>6
<1>9. QED
  BY <1>4, <1>6, <1>7, <1>8, SeqEqual

-----------------------------------------------------------------------------
(* The inductive invariant *)

\* No byte has been lost or invented so far.
Exact == ~overflowed /\ ~overread

\* What EOFMeansDrained needs of the cursors.
EOFInv == eof => closed /\ (Exact => read = write)

Inv == TypeOK /\ FIFO /\ EOFInv

LEMMA InitInv == Init => Inv
<1> SUFFICES ASSUME Init PROVE Inv
  OBVIOUS
<1>1. TypeOK
  BY ByteAssumption, EmptySeq DEF Init, TypeOK
<1>2. SubSeq(accepted, 1, 0) = <<>>
  BY SubSeqEmpty
<1>3. FIFO
  <2>1. Len(accepted) = 0
    BY EmptySeq DEF Init
  <2>2. WindowHolds
    BY DEF Init, WindowHolds
  <2>3. QED
    BY <1>2, <2>1, <2>2, BufferSizeAssumption DEF Init, FIFO
<1>4. EOFInv
  BY DEF Init, EOFInv
<1>5. QED
  BY <1>1, <1>3, <1>4 DEF Inv

\* The number of bytes Write copies.
LEMMA CopyLenProperties ==
  ASSUME write \in Nat, NEW len \in Nat
  PROVE  /\ CopyLen(len) \in Nat /\ CopyLen(len) <= len
         /\ (write % BufferSize) + CopyLen(len) <= BufferSize
  BY ModDef, BufferSizeAssumption DEF CopyLen, Lesser

\* Write keeps the types: it stays inside the storage.
LEMMA WriteType ==
  ASSUME TypeOK, NEW p \in Chunk, WriteCall(p)
  PROVE  TypeOK'
<1> DEFINE n == CopyLen(Len(p))
           at == write % BufferSize
<1>1. Len(p) \in Nat /\ p \in Seq(Byte)
  BY ChunkPrefix, SeqDef, LensAssumption, LenProperties DEF Chunk
<1>2. n \in Nat /\ n <= Len(p) /\ at + n <= BufferSize
  BY <1>1, CopyLenProperties DEF TypeOK
<1>3. at \in Nat /\ BufferSize \in Nat
  BY ModDef, BufferSizeAssumption DEF TypeOK
<1>4. data' = CopiedIn(p, n) /\ write' = write + n /\ accepted' = accepted \o SubSeq(p, 1, n)
  BY DEF WriteCall
<1>5. data' \in [Slot -> Byte]
  <2>1. data' = [i \in Slot |-> IF at <= i /\ i < at + n THEN p[i - at + 1] ELSE data[i]]
    BY <1>4 DEF CopiedIn
  <2> HIDE DEF n, at
  <2>2. ASSUME NEW i \in Slot, at <= i, i < at + n PROVE p[i - at + 1] \in Byte
    <3>1. i - at + 1 \in 1..Len(p)
      BY <1>1, <1>2, <1>3, <2>2 DEF Slot
    <3>2. QED
      BY <1>1, <3>1, ElementOfSeq
  <2>3. QED
    BY <2>1, <2>2 DEF TypeOK
<1>6. accepted' \in Seq(Byte)
  <2>1. SubSeq(p, 1, n) \in Seq(Byte)
    BY <1>1, <1>2, ChunkPrefix
  <2>2. QED
    BY <1>4, <2>1, ConcatProperties DEF TypeOK
<1>7. pc' \in [Reader -> {"idle", "waiting", "woken"}]
  BY DEF WriteCall, Signal, TypeOK
<1>8. overflowed' \in BOOLEAN
  BY DEF WriteCall
<1>9. UNCHANGED <<read, closed, want, delivered, overread, eof, left>>
  BY DEF WriteCall
<1> HIDE DEF n
<1>10. QED
  BY <1>2, <1>4, <1>5, <1>6, <1>7, <1>8, <1>9 DEF TypeOK

\* A Write that fits leaves the unread window intact and appends to it.
LEMMA WriteFIFO ==
  ASSUME Inv, NEW p \in Chunk, WriteCall(p)
  PROVE  FIFO'
<1> DEFINE n == CopyLen(Len(p))
           at == write % BufferSize
           t == SubSeq(p, 1, n)
<1> SUFFICES ASSUME ~overflowed', ~overread'
             PROVE  /\ read' <= write' /\ write' - read' <= BufferSize
                    /\ Len(accepted') = write'
                    /\ delivered' = SubSeq(accepted', 1, read')
                    /\ WindowHolds'
  BY DEF FIFO
<1>1. Len(p) \in Nat /\ p \in Seq(Byte)
  BY ChunkPrefix, SeqDef, LensAssumption, LenProperties DEF Chunk
<1>2. n \in Nat /\ n <= Len(p) /\ at + n <= BufferSize
  BY <1>1, CopyLenProperties DEF Inv, TypeOK
<1>a. write \in Nat
  BY DEF Inv, TypeOK
<1>3. at \in Nat /\ at < BufferSize /\ BufferSize \in Nat
  BY <1>a, ModDef, BufferSizeAssumption
<1>4. /\ t \in Seq(Byte) /\ Len(t) = n
      /\ \A i \in 1..n : t[i] = p[i]
  BY <1>1, <1>2, ChunkPrefix
<1>5. /\ data' = [i \in Slot |-> IF at <= i /\ i < at + n THEN p[i - at + 1] ELSE data[i]]
      /\ write' = write + n /\ accepted' = accepted \o t
      /\ read' = read /\ delivered' = delivered
  BY DEF WriteCall, CopiedIn
<1>6. ~overflowed /\ ~overread /\ ~(Room < Len(p))
  BY DEF WriteCall
<1>7. /\ read \in Nat /\ write \in Nat /\ accepted \in Seq(Byte)
      /\ read <= write /\ write - read <= BufferSize
      /\ Len(accepted) = write /\ delivered = SubSeq(accepted, 1, read)
      /\ WindowHolds
  BY <1>6 DEF Inv, TypeOK, FIFO
<1>8. n <= BufferSize - (write - read)
  BY <1>1, <1>2, <1>3, <1>6, <1>7 DEF Room
<1> HIDE DEF n, t
<1>9. /\ accepted' \in Seq(Byte) /\ Len(accepted') = write + n
      /\ \A i \in 1 .. write + n :
           accepted'[i] = IF i <= write THEN accepted[i] ELSE t[i - write]
  <2>1. /\ accepted \o t \in Seq(Byte) /\ Len(accepted \o t) = Len(accepted) + Len(t)
        /\ \A i \in 1 .. Len(accepted) + Len(t) : (accepted \o t)[i] =
              IF i <= Len(accepted) THEN accepted[i] ELSE t[i - Len(accepted)]
    BY <1>4, <1>7, ConcatProperties
  <2>2. QED
    BY <1>4, <1>5, <1>7, <2>1
<1>10. delivered' = SubSeq(accepted', 1, read')
  <2>1. read \in 0..Len(accepted)
    BY <1>7
  <2>2. SubSeq(accepted \o t, 1, read) = SubSeq(accepted, 1, read)
    BY <1>4, <1>7, <2>1, PrefixOfConcat
  <2>3. QED
    BY <1>5, <1>7, <2>2
<1>11. ASSUME NEW i \in read .. (write + n) - 1
       PROVE  data'[i % BufferSize] = accepted'[i + 1]
  <2>a. i \in Nat
    BY <1>2, <1>7
  <2>1. i \in Nat /\ i % BufferSize \in Slot
    BY <2>a, ModDef DEF Slot
  <2>2. CASE i < write
    <3>1. ~(at <= i % BufferSize /\ i % BufferSize < at + n)
      <4>1. SUFFICES ASSUME at <= i % BufferSize, i % BufferSize < at + n PROVE FALSE
        OBVIOUS
      <4> DEFINE k == (i % BufferSize) - at
      <4>2. k \in Nat /\ k < n /\ at + k < BufferSize /\ i % BufferSize = at + k
        BY <1>2, <1>3, <2>1, <4>1 DEF Slot
      <4> HIDE DEF k
      <4>3. (write + k) % BufferSize = at + k
        BY <1>7, <4>2, ModShift
      <4>4. write + k \in Nat /\ i < write + k /\ (write + k) - i < BufferSize
        BY <1>2, <1>3, <1>7, <1>8, <2>1, <2>2, <4>2
      <4>5. i % BufferSize # (write + k) % BufferSize
        BY <2>1, <4>4, ModDistinct
      <4>6. QED
        BY <4>2, <4>3, <4>5
    <3>2. data'[i % BufferSize] = data[i % BufferSize]
      BY <1>5, <2>1, <3>1
    <3>3. data[i % BufferSize] = accepted[i + 1]
      BY <1>2, <1>7, <2>2 DEF WindowHolds
    <3>4. accepted'[i + 1] = accepted[i + 1]
      <4>1. i + 1 \in 1 .. write + n /\ i + 1 <= write
        BY <1>2, <1>7, <2>1, <2>2
      <4>2. QED
        BY <1>9, <4>1
    <3>5. QED
      BY <3>2, <3>3, <3>4
  <2>3. CASE i >= write
    <3> DEFINE k == i - write
    <3>1. k \in Nat /\ k < n /\ at + k < BufferSize /\ i = write + k
      BY <1>2, <1>3, <1>7, <2>1, <2>3
    <3> HIDE DEF k
    <3>2. i % BufferSize = at + k
      BY <1>7, <3>1, ModShift
    <3>3. data'[at + k] = p[k + 1]
      <4>1. at + k \in Slot /\ at <= at + k /\ at + k < at + n /\ (at + k) - at + 1 = k + 1
        BY <1>2, <1>3, <3>1 DEF Slot
      <4>2. QED
        BY <1>5, <4>1
    <3>4. accepted'[i + 1] = t[k + 1]
      <4>1. /\ i + 1 \in 1 .. write + n /\ ~(i + 1 <= write)
            /\ (i + 1) - write = k + 1
        BY <1>2, <1>7, <3>1
      <4>2. QED
        BY <1>9, <4>1
    <3>5. t[k + 1] = p[k + 1]
      BY <1>2, <1>4, <3>1
    <3>6. QED
      BY <3>2, <3>3, <3>4, <3>5
  <2>4. QED
    BY <1>7, <2>1, <2>2, <2>3
<1>12. WindowHolds'
  <2>1. read' = read /\ write' = write + n
    BY <1>5
  <2>2. QED
    BY <1>11, <2>1, Zenon DEF WindowHolds
<1>13. QED
  BY <1>2, <1>3, <1>5, <1>7, <1>8, <1>9, <1>10, <1>12

\* Write is refused once the buffer is closed, so an EOF stays final.
LEMMA WriteInv ==
  ASSUME Inv, NEW p \in Chunk, WriteCall(p)
  PROVE  Inv'
<1>1. TypeOK'
  BY WriteType DEF Inv
<1>2. FIFO'
  BY WriteFIFO
<1>3. EOFInv'
  BY DEF Inv, EOFInv, WriteCall
<1>4. QED
  BY <1>1, <1>2, <1>3 DEF Inv

\* The byte at the i-th unread cursor.
Unread(i) == data[(read + i - 1) % BufferSize]

\* Handing out n bytes b that are the next n of the window keeps the invariant.
LEMMA HandOut ==
  ASSUME Inv, NEW n \in Nat, NEW b \in Seq(Byte), Len(b) = n,
         read' = read + n, delivered' = delivered \o b,
         overread' \in BOOLEAN, left' \in BOOLEAN,
         (Exact /\ Exact') => /\ read + n <= write
                             /\ \A i \in 1..n : b[i] = Unread(i),
         pc' \in [Reader -> {"idle", "waiting", "woken"}], want' \in [Reader -> Nat],
         read < write, Exact' => Exact,
         UNCHANGED <<data, write, closed, accepted, overflowed, eof>>
  PROVE  Inv'
<1>1. TypeOK'
  <2>1. delivered \o b \in Seq(Byte)
    BY ConcatProperties DEF Inv, TypeOK
  <2>2. QED
    BY <2>1 DEF Inv, TypeOK
<1>2. ASSUME Exact'
      PROVE  /\ read' <= write' /\ write' - read' <= BufferSize
             /\ Len(accepted') = write'
             /\ delivered' = SubSeq(accepted', 1, read')
             /\ WindowHolds'
  <2>1. /\ read + n <= write
        /\ \A i \in 1..n : b[i] = Unread(i)
    BY <1>2
  <2>2. /\ read \in Nat /\ write \in Nat /\ accepted \in Seq(Byte)
        /\ read <= write /\ write - read <= BufferSize
        /\ Len(accepted) = write /\ delivered = SubSeq(accepted, 1, read)
        /\ WindowHolds /\ BufferSize \in Nat
    BY <1>2, BufferSizeAssumption DEF Inv, TypeOK, FIFO, Exact
  <2>3. ASSUME NEW i \in 1..n PROVE b[i] = accepted[read + i]
    <3>1. read + i - 1 \in read .. write - 1 /\ (read + i - 1) + 1 = read + i
      BY <2>1, <2>2
    <3>2. data[(read + i - 1) % BufferSize] = accepted[(read + i - 1) + 1]
      BY <2>2, <3>1 DEF WindowHolds
    <3>3. QED
      BY <2>1, <3>1, <3>2 DEF Unread
  <2>a. read + n <= Len(accepted) /\ \A i \in 1..n : b[i] = accepted[read + i]
    BY <2>1, <2>2, <2>3
  <2>b. read \in Nat /\ accepted \in Seq(Byte)
    BY <2>2
  <2>4. SubSeq(accepted, 1, read) \o b = SubSeq(accepted, 1, read + n)
    BY <2>a, <2>b, ExtendPrefix, ZenonT(60)
  <2>5. WindowHolds'
    <3>1. SUFFICES ASSUME NEW i \in read' .. write' - 1
                   PROVE  data'[i % BufferSize] = accepted'[i + 1]
      BY DEF WindowHolds
    <3>2. i \in read .. write - 1 /\ data' = data /\ accepted' = accepted
      BY <2>2
    <3>3. QED
      BY <2>2, <3>2 DEF WindowHolds
  <2>6. QED
    BY <2>1, <2>2, <2>4, <2>5
<1>3. FIFO'
  BY <1>2 DEF FIFO, Exact
<1>4. EOFInv'
  BY DEF Inv, EOFInv, TypeOK
<1>5. QED
  BY <1>1, <1>3, <1>4 DEF Inv

\* TryRead with data pending.
LEMMA TryReadInv ==
  ASSUME Inv, NEW len \in ReadLens, TryReadData(len)
  PROVE  Inv'
<1> DEFINE n == Lesser(len, write - read)
<1>1. /\ len \in 0..BufferSize /\ BufferSize \in Nat
      /\ read \in Nat /\ write \in Nat /\ read < write /\ data \in [Slot -> Byte]
  BY LensAssumption, BufferSizeAssumption DEF TryReadData, Inv, TypeOK
<1>2. n \in 0..BufferSize /\ n \in Nat /\ read + n <= write
  BY <1>1 DEF Lesser
<1>3. /\ read' = read + n /\ delivered' = delivered \o TryReadBytes(n)
      /\ UNCHANGED <<data, write, closed, readers, accepted, overflowed, overread, eof>>
  BY DEF TryReadData
<1> HIDE DEF n
<1>4. /\ TryReadBytes(n) \in Seq(Byte) /\ Len(TryReadBytes(n)) = n
      /\ \A i \in 1..n : TryReadBytes(n)[i] = data[(read + i - 1) % BufferSize]
  BY <1>1, <1>2, TryReadBytesProperties
<1>5. \A i \in 1..n : TryReadBytes(n)[i] = Unread(i)
  BY <1>4 DEF Unread
<1>6. /\ pc' \in [Reader -> {"idle", "waiting", "woken"}] /\ want' \in [Reader -> Nat]
      /\ overread' \in BOOLEAN /\ (Exact' => Exact)
      /\ left' \in BOOLEAN
      /\ UNCHANGED <<data, write, closed, accepted, overflowed, eof>>
  BY <1>3 DEF readers, Inv, TypeOK, Exact, TryReadData
<1>7. QED
  BY <1>1, <1>2, <1>3, <1>4, <1>5, <1>6, HandOut

\* A read that returns io.EOF.
LEMMA EOFStep ==
  ASSUME Inv, ReturnEOF,
         pc' \in [Reader -> {"idle", "waiting", "woken"}], want' \in [Reader -> Nat]
  PROVE  Inv'
<1>1. UNCHANGED <<data, write, read, closed, accepted, delivered, overflowed,
                  overread, left>>
  BY DEF ReturnEOF, buffer
<1>2. TypeOK'
  BY <1>1 DEF Inv, TypeOK, ReturnEOF
<1>3. FIFO'
  BY <1>1 DEF Inv, FIFO, WindowHolds
<1>4. EOFInv'
  BY <1>1 DEF Inv, TypeOK, FIFO, EOFInv, Exact, ReturnEOF
<1>5. QED
  BY <1>2, <1>3, <1>4 DEF Inv

\* The blocking Read, once it leaves its wait loop.
LEMMA FinishReadInv ==
  ASSUME Inv, NEW r \in Reader, NEW len \in Nat, FinishRead(r, len)
  PROVE  Inv'
<1> DEFINE pos == read % BufferSize
           n == Lesser(len, BufferSize - pos)
<1>1. pc' \in [Reader -> {"idle", "waiting", "woken"}] /\ want' \in [Reader -> Nat]
  BY DEF FinishRead, Inv, TypeOK
<1>2. CASE ReturnEOF
  BY <1>1, <1>2, EOFStep
<1>3. CASE /\ read < write
           /\ delivered' = delivered \o Slice(pos, n)
           /\ read' = read + n
           /\ overread' = (overread \/ write < read + n)
           /\ left' = (read + n < write)
           /\ UNCHANGED <<data, write, closed, accepted, overflowed, eof>>
  <2>1. read \in Nat /\ write \in Nat /\ BufferSize \in Nat /\ data \in [Slot -> Byte]
    BY BufferSizeAssumption DEF Inv, TypeOK
  <2>2. pos \in Nat /\ pos < BufferSize
    BY <2>1, ModDef
  <2>3. n \in Nat /\ pos + n <= BufferSize
    <3> HIDE DEF pos
    <3>1. QED BY <2>1, <2>2 DEF Lesser
  <2>4. /\ Slice(pos, n) \in Seq(Byte) /\ Len(Slice(pos, n)) = n
        /\ \A i \in 1..n : Slice(pos, n)[i] = data[pos + i - 1]
    BY <2>1, <2>2, <2>3, SliceProperties
  <2>5. \A i \in 1..n : Slice(pos, n)[i] = Unread(i)
    <3> SUFFICES ASSUME NEW i \in 1..n PROVE data[pos + i - 1] = Unread(i)
      BY <2>4
    <3> DEFINE k == i - 1
    <3> HIDE DEF n
    <3>1. k \in Nat /\ pos + k < BufferSize /\ read + i - 1 = read + k /\ pos + i - 1 = pos + k
      BY <2>1, <2>2, <2>3
    <3>2. (read + k) % BufferSize = pos + k
      BY <2>1, <3>1, ModShift
    <3>3. QED
      BY <3>1, <3>2 DEF Unread
  <2> HIDE DEF n, pos
  <2>6. overread' \in BOOLEAN /\ left' \in BOOLEAN /\ (Exact' => Exact /\ read + n <= write)
    <3>1. overread' \in BOOLEAN
      BY <1>3, Zenon DEF Inv, TypeOK
    <3>a. left' \in BOOLEAN
      BY <1>3, SMT
    <3>2. Exact' => Exact /\ ~(write < read + n)
      BY <1>3, Zenon DEF Exact
    <3>3. ~(write < read + n) => read + n <= write
      BY <2>1, <2>3
    <3>4. QED
      BY <3>1, <3>a, <3>2, <3>3
  <2>7. QED
    BY <1>1, <1>3, <2>3, <2>4, <2>5, <2>6, HandOut
<1>4. QED
  BY <1>2, <1>3 DEF FinishRead

\* Steps that only move blocked goroutines, or close the buffer.
LEMMA WaitInv ==
  ASSUME Inv, pc' \in [Reader -> {"idle", "waiting", "woken"}],
         want' \in [Reader -> Nat], closed' \in BOOLEAN, closed => closed',
         UNCHANGED <<data, write, read, history>>
  PROVE  Inv'
<1>1. TypeOK'
  BY DEF Inv, TypeOK, history
<1>2. FIFO'
  BY DEF Inv, FIFO, WindowHolds, history
<1>3. EOFInv'
  BY DEF Inv, EOFInv, Exact, history
<1>4. QED
  BY <1>1, <1>2, <1>3 DEF Inv

\* Every operation of the buffer keeps the invariant.
LEMMA NextInv == Inv /\ [Next]_vars => Inv'
<1> SUFFICES ASSUME Inv, [Next]_vars PROVE Inv'
  OBVIOUS
<1>0. TypeOK
  BY DEF Inv
<1>1. ASSUME NEW p \in Chunk, WriteCall(p) PROVE Inv'
  BY <1>1, WriteInv
<1>2. ASSUME NEW len \in ReadLens, TryRead(len) PROVE Inv'
  <2>1. CASE TryReadData(len)
    BY <2>1, TryReadInv
  <2>2. CASE ReturnEOF /\ UNCHANGED readers
    BY <1>0, <2>2, EOFStep DEF readers, TypeOK
  <2>3. QED
    BY <1>2, <2>1, <2>2 DEF TryRead
<1>3. ASSUME NEW r \in Reader, NEW len \in ReadLens, Read(r, len) PROVE Inv'
  <2>1. len \in Nat
    BY LensAssumption
  <2>2. CASE FinishRead(r, len)
    BY <2>1, <2>2, FinishReadInv
  <2>3. CASE /\ pc' = [pc EXCEPT ![r] = "waiting"]
             /\ want' = [want EXCEPT ![r] = len]
             /\ UNCHANGED <<buffer, history>>
    BY <1>0, <2>1, <2>3, WaitInv DEF TypeOK, buffer
  <2>4. QED
    BY <1>3, <2>2, <2>3 DEF Read
<1>4. ASSUME NEW r \in Reader, Resume(r) PROVE Inv'
  <2>1. want[r] \in Nat
    BY <1>0 DEF TypeOK
  <2>2. CASE FinishRead(r, want[r])
    BY <2>1, <2>2, FinishReadInv
  <2>3. CASE /\ pc' = [pc EXCEPT ![r] = "waiting"]
             /\ UNCHANGED <<buffer, want, history>>
    BY <1>0, <2>3, WaitInv DEF TypeOK, buffer
  <2>4. QED
    BY <1>4, <2>2, <2>3 DEF Resume
<1>5. CASE Close
  BY <1>0, <1>5, WaitInv DEF Close, TypeOK
<1>6. CASE UNCHANGED vars
  BY <1>0, <1>6, WaitInv DEF TypeOK, vars, buffer, readers
<1>7. QED
  BY <1>1, <1>2, <1>3, <1>4, <1>5, <1>6 DEF Next

\* The type invariant, FIFO order and the meaning of EOF hold in every
\* reachable state of the buffer, whatever its capacity.
THEOREM InvHolds == Spec => []Inv
  BY InitInv, NextInv, PTL DEF Spec

\* Types: in particular no operation indexes the storage out of range.
THEOREM TypeCorrect == Spec => []TypeOK
<1>1. Inv => TypeOK
  BY DEF Inv
<1>2. QED
  BY <1>1, InvHolds, PTL

\* Every operation keeps SignalNotLost: a Write leaves no waiter behind without waking
\* one, a woken goroutine waits again only when the buffer is empty, and a Read that
\* takes bytes either empties the buffer or leaves the rest.
LEMMA SignalStep ==
  ASSUME TypeOK, TypeOK', SignalNotLost, [Next]_vars
  PROVE  SignalNotLost'
<1>0. /\ read \in Nat /\ write \in Nat /\ read' \in Nat /\ write' \in Nat
      /\ pc \in [Reader -> {"idle", "waiting", "woken"}] /\ left \in BOOLEAN
  BY DEF TypeOK
<1>1. ASSUME NEW p \in Chunk, WriteCall(p) PROVE SignalNotLost'
  <2>1. Signal
    BY <1>1 DEF WriteCall
  <2>2. \A r \in Reader : pc'[r] = "waiting" => \E q \in Reader : pc'[q] = "woken"
    BY <1>0, <2>1 DEF Signal
  <2> QED BY <2>2 DEF SignalNotLost
<1>2. ASSUME NEW len \in ReadLens, TryReadData(len) PROVE SignalNotLost'
  <2>1. /\ write' = write /\ pc' = pc /\ read < write
        /\ left' = (left /\ read' < write)
    BY <1>2 DEF TryReadData, readers
  <2> QED BY <1>0, <2>1 DEF SignalNotLost
<1>3. ASSUME NEW r \in Reader, NEW len \in Nat, FinishRead(r, len) PROVE SignalNotLost'
  <2>1. CASE ReturnEOF
    <3>1. ~(read' < write')
      BY <1>0, <2>1 DEF ReturnEOF, buffer
    <3> QED BY <3>1 DEF SignalNotLost
  <2>2. CASE write' = write /\ left' = (read' < write)
    BY <1>0, <2>2 DEF SignalNotLost
  <2> QED BY <1>3, <2>1, <2>2 DEF FinishRead
<1>4. CASE MustWait /\ UNCHANGED buffer
  <2>1. ~(read' < write')
    BY <1>0, <1>4 DEF MustWait, buffer
  <2> QED BY <2>1 DEF SignalNotLost
<1>5. CASE Close
  BY <1>0, <1>5 DEF Close, SignalNotLost
<1>6. CASE UNCHANGED <<pc, read, write, left>>
  BY <1>6 DEF SignalNotLost
<1>7. ASSUME NEW len \in ReadLens, TryRead(len) PROVE SignalNotLost'
  BY <1>2, <1>6, <1>7 DEF TryRead, ReturnEOF, buffer, readers
<1>8. ASSUME NEW r \in Reader, NEW len \in ReadLens, Read(r, len) PROVE SignalNotLost'
  <2>1. len \in Nat
    BY LensAssumption
  <2> QED BY <1>3, <1>4, <1>8, <2>1 DEF Read
<1>9. ASSUME NEW r \in Reader, Resume(r) PROVE SignalNotLost'
  <2>1. want[r] \in Nat
    BY DEF TypeOK
  <2>2. CASE FinishRead(r, want[r])
    BY <1>3, <2>1, <2>2
  <2> QED BY <1>4, <1>9, <2>2 DEF Resume, buffer
<1>10. CASE UNCHANGED vars
  BY <1>6, <1>10 DEF vars, buffer, readers, history
<1> QED BY <1>1, <1>5, <1>7, <1>8, <1>9, <1>10 DEF Next

\* No Signal of a Write is lost, however many goroutines block in Read: one that waits
\* while bytes are pending has a woken peer, or the bytes were left behind by a Read.
THEOREM SignalsAreNotLost == Spec => []SignalNotLost
<1>1. Init => SignalNotLost
  BY DEF Init, SignalNotLost
<1>2. Inv /\ Inv' /\ SignalNotLost /\ [Next]_vars => SignalNotLost'
  BY SignalStep DEF Inv
<1>3. QED
  BY <1>1, <1>2, InvHolds, PTL DEF Spec

\* FIFO delivery through the wrapped storage, until an error is reported.
THEOREM FIFOCorrect == Spec => []FIFO
<1>1. Inv => FIFO
  BY DEF Inv
<1>2. QED
  BY <1>1, InvHolds, PTL

\* io.EOF tells a consumer that it has seen everything.
THEOREM EOFCorrect == Spec => []EOFMeansDrained
<1>1. Inv => EOFMeansDrained
  <2>1. SUFFICES ASSUME Inv, eof, ~overflowed, ~overread PROVE delivered = accepted
    BY DEF EOFMeansDrained
  <2>2. /\ read = write /\ accepted \in Seq(Byte)
        /\ Len(accepted) = write /\ delivered = SubSeq(accepted, 1, read)
    BY <2>1 DEF Inv, TypeOK, FIFO, EOFInv, Exact
  <2>3. SubSeq(accepted, 1, Len(accepted)) = accepted
    BY <2>2, SubSeqFull
  <2>4. QED
    BY <2>2, <2>3
<1>2. QED
  BY <1>1, InvHolds, PTL

-----------------------------------------------------------------------------
(* The buffer implements the byte stream *)

\* While the buffer is exact, the number of delivered bytes is the read cursor.
LEMMA DeliveredLen ==
  ASSUME Inv, Exact
  PROVE  /\ Len(delivered) = read /\ Len(accepted) = write
         /\ read \in Nat /\ write \in Nat /\ read <= write
         /\ write - read <= BufferSize
         /\ delivered = SubSeq(accepted, 1, read) /\ accepted \in Seq(Byte)
<1>1. /\ Len(accepted) = write /\ read \in Nat /\ write \in Nat /\ read <= write
      /\ write - read <= BufferSize
      /\ delivered = SubSeq(accepted, 1, read) /\ accepted \in Seq(Byte)
  BY DEF Inv, TypeOK, FIFO, Exact
<1>2. \A i \in 1..read : accepted[i] \in Byte
  BY <1>1, ElementOfSeq
<1>3. Len(SubSeq(accepted, 1, read)) = IF 1 <= read THEN read - 1 + 1 ELSE 0
  BY <1>1, <1>2, SubSeqProperties
<1>4. QED
  BY <1>1, <1>3

\* A step that leaves the buffer inexact is the stream's Lose, unless it closes.
LEMMA LoseStep ==
  ASSUME Inv', ~Exact', closed' = closed, closed => accepted' = accepted
  PROVE  Stream!Lose
<1>1. overflowed' \/ overread'
  BY DEF Exact
<1>2. overflowed' \in BOOLEAN /\ overread' \in BOOLEAN
  BY DEF Inv, TypeOK
<1>3. (overflowed' \/ overread') = TRUE
  BY <1>1, <1>2
<1>4. QED
  BY <1>3 DEF Stream!Lose

\* A read of the concrete buffer that stays exact is a Receive of the stream.
LEMMA ReceiveStep ==
  ASSUME Inv, Inv', Exact, Exact', read <= read',
         UNCHANGED <<accepted, closed, overflowed, overread>>
  PROVE  Stream!Receive
<1>1. /\ Len(delivered) = read /\ Len(accepted) = write
      /\ read \in Nat /\ write \in Nat
  BY DeliveredLen
<1>2. /\ delivered' = SubSeq(accepted', 1, read') /\ Len(accepted') = write'
      /\ read' \in Nat /\ write' \in Nat /\ read' <= write'
  BY DEF Inv, TypeOK, FIFO, Exact
<1>3. read' \in Len(delivered) .. Len(accepted) /\ delivered' = SubSeq(accepted, 1, read')
  BY <1>1, <1>2
<1>4. ~(overflowed \/ overread)
  BY DEF Exact
<1>5. (overflowed \/ overread)' = (overflowed \/ overread)
  OBVIOUS
<1>6. QED
  BY <1>3, <1>4, <1>5 DEF Stream!Receive

\* A Write that stays exact is a Send of the stream.
LEMMA SendStep ==
  ASSUME Inv, Inv', Exact', NEW p \in Chunk, WriteCall(p)
  PROVE  Stream!Send
<1>1. Exact
  BY DEF Exact, WriteCall
<1>2. /\ Len(delivered) = read /\ Len(accepted) = write /\ accepted \in Seq(Byte)
      /\ read \in Nat /\ write \in Nat
  BY <1>1, DeliveredLen
<1>3. /\ Len(accepted') = write' /\ accepted' \in Seq(Byte) /\ write' \in Nat
      /\ write' - read' <= BufferSize /\ BufferSize \in Nat
  BY BufferSizeAssumption DEF Inv, TypeOK, FIFO, Exact
<1> DEFINE n == CopyLen(Len(p))
<1>4. accepted' = accepted \o SubSeq(p, 1, n) /\ write' = write + n /\ read' = read
  BY DEF WriteCall
<1>5. Len(p) \in Nat
  BY SeqDef, LensAssumption, LenProperties DEF Chunk
<1>6. n \in 0..Len(p)
  BY <1>2, <1>5, CopyLenProperties
<1>7. SubSeq(p, 1, n) \in Seq(Byte)
  BY <1>6, ChunkPrefix
<1> HIDE DEF n
<1>8. SubSeq(accepted', 1, Len(accepted)) = accepted
  <2>1. Len(accepted) \in 0..Len(accepted)
    BY <1>2
  <2>2. QED
    BY <1>2, <1>4, <1>7, <2>1, PrefixOfConcat, SubSeqFull
<1>9. Len(accepted) <= Len(accepted') /\ Len(accepted') <= Len(delivered) + BufferSize
  BY <1>2, <1>3, <1>4, <1>5, <1>6
<1>10. ~closed /\ UNCHANGED <<delivered, closed>>
  BY DEF WriteCall
<1>11. ~(overflowed \/ overread) /\ (overflowed \/ overread)' = (overflowed \/ overread)
  <2>1. ~overflowed /\ ~overread /\ ~overflowed' /\ ~overread'
    BY <1>1 DEF Exact
  <2>2. QED
    BY <2>1
<1>12. QED
  BY <1>3, <1>8, <1>9, <1>10, <1>11 DEF Stream!Send

\* A read that hands out bytes is a Receive, or the Lose that ends the promise.
LEMMA ReadStep ==
  ASSUME Inv, Inv', read <= read', Exact' => Exact,
         UNCHANGED <<accepted, closed>>
  PROVE  Stream!Next
<1>1. CASE ~Exact'
  BY <1>1, LoseStep DEF Stream!Next
<1>2. CASE Exact'
  <2>1. ~overflowed /\ ~overread /\ ~overflowed' /\ ~overread'
    BY <1>2 DEF Exact
  <2>2. /\ overflowed \in BOOLEAN /\ overread \in BOOLEAN
        /\ overflowed' \in BOOLEAN /\ overread' \in BOOLEAN
    BY DEF Inv, TypeOK
  <2>3. UNCHANGED <<overflowed, overread>>
    BY <2>1, <2>2
  <2>4. QED
    BY <1>2, <2>3, ReceiveStep DEF Stream!Next
<1>3. QED
  BY <1>1, <1>2

\* The blocking Read: bytes, or io.EOF.
LEMMA FinishReadStep ==
  ASSUME Inv, Inv', NEW r \in Reader, NEW len \in Nat, FinishRead(r, len)
  PROVE  Stream!Next \/ UNCHANGED Stream!vars
<1> DEFINE pos == read % BufferSize
           n == Lesser(len, BufferSize - pos)
<1>1. CASE ReturnEOF
  BY <1>1 DEF ReturnEOF, buffer, Stream!vars
<1>2. CASE /\ read' = read + n
           /\ overread' = (overread \/ write < read + n)
           /\ UNCHANGED <<data, write, closed, accepted, overflowed, eof>>
  <2>1. read \in Nat /\ BufferSize \in Nat
    BY BufferSizeAssumption DEF Inv, TypeOK
  <2>2. pos \in Nat /\ pos < BufferSize
    BY <2>1, ModDef
  <2> HIDE DEF pos
  <2>3. n \in Nat
    BY <2>1, <2>2 DEF Lesser
  <2> HIDE DEF n
  <2>4. read <= read'
    BY <1>2, <2>1, <2>3
  <2>5. Exact' => Exact
    BY <1>2, Zenon DEF Exact
  <2>6. QED
    BY <1>2, <2>4, <2>5, ReadStep
<1>3. QED
  BY <1>1, <1>2 DEF FinishRead

\* Every step of the buffer is a step of the stream or invisible to it.
LEMMA StepRefines ==
  ASSUME Inv, Inv', [Next]_vars
  PROVE  Stream!Next \/ UNCHANGED Stream!vars
<1>1. ASSUME NEW p \in Chunk, WriteCall(p) PROVE Stream!Next
  <2>1. CASE Exact'
    BY <1>1, <2>1, SendStep DEF Stream!Next
  <2>2. CASE ~Exact'
    BY <1>1, <2>2, LoseStep DEF WriteCall, Stream!Next
  <2>3. QED
    BY <2>1, <2>2
<1>2. ASSUME NEW len \in ReadLens, TryRead(len)
      PROVE  Stream!Next \/ UNCHANGED Stream!vars
  <2>1. CASE TryReadData(len)
    <3> DEFINE n == Lesser(len, write - read)
    <3>1. len \in Nat /\ read \in Nat /\ write \in Nat /\ read < write
      BY <2>1, LensAssumption DEF Inv, TypeOK, TryReadData
    <3>2. read' = read + n /\ UNCHANGED <<closed, accepted, overflowed, overread>>
      BY <2>1 DEF TryReadData
    <3>3. read <= read'
      BY <3>1, <3>2 DEF Lesser
    <3>4. QED
      BY <3>2, <3>3, ReadStep DEF Exact
  <2>2. CASE ReturnEOF
    BY <2>2 DEF ReturnEOF, buffer, Stream!vars
  <2>3. QED
    BY <1>2, <2>1, <2>2 DEF TryRead
<1>3. ASSUME NEW r \in Reader, NEW len \in ReadLens, Read(r, len)
      PROVE  Stream!Next \/ UNCHANGED Stream!vars
  <2>1. len \in Nat
    BY LensAssumption
  <2>2. CASE FinishRead(r, len)
    BY <2>1, <2>2, FinishReadStep
  <2>3. CASE UNCHANGED <<buffer, history>>
    BY <2>3 DEF buffer, history, Stream!vars
  <2>4. QED
    BY <1>3, <2>2, <2>3 DEF Read
<1>4. ASSUME NEW r \in Reader, Resume(r)
      PROVE  Stream!Next \/ UNCHANGED Stream!vars
  <2>1. want[r] \in Nat
    BY DEF Inv, TypeOK
  <2>2. CASE FinishRead(r, want[r])
    BY <2>1, <2>2, FinishReadStep
  <2>3. CASE UNCHANGED <<buffer, want, history>>
    BY <2>3 DEF buffer, history, Stream!vars
  <2>4. QED
    BY <1>4, <2>2, <2>3 DEF Resume
<1>5. CASE Close
  BY <1>5 DEF Close, history, Stream!Next, Stream!Shut
<1>6. CASE UNCHANGED vars
  BY <1>6 DEF vars, buffer, history, Stream!vars
<1>7. QED
  BY <1>1, <1>2, <1>3, <1>4, <1>5, <1>6 DEF Next

\* The ring buffer of buffer.go implements a FIFO byte stream of capacity
\* BufferSize that stays exact until a Write reports ErrBufferFull or a blocking
\* Read copies past the write cursor.
THEOREM Refinement == Spec => ImplementsByteStream
<1>1. Init => Stream!Init
  BY DEF Init, Stream!Init
<1>2. Inv /\ Inv' /\ [Next]_vars => [Stream!Next]_(Stream!vars)
  BY StepRefines
<1>3. QED
  BY <1>1, <1>2, InvHolds, PTL DEF Spec, Stream!Spec, ImplementsByteStream

-----------------------------------------------------------------------------
(* The router that polls the buffers (StreamRouter), for every set of sessions, every     *)
(* capacity RingSize and any number of buffers of each session.                           *)

\* A round reads no more than there is.
LEMMA ReadLenType ==
  ASSUME NEW a \in 0..RingSize
  PROVE  a - ReadLen(a) \in 0..RingSize
BY RingSizeAssumption DEF ReadLen, PoolGetLen

LEMMA RouterTypeStep ==
  ASSUME RouterTypeOK, [RouterNext]_routerVars
  PROVE  RouterTypeOK'
<1> USE DEF RouterTypeOK, regVars
<1>1. CASE UNCHANGED routerVars
  BY <1>1 DEF routerVars
<1>2. ASSUME NEW s \in Session,
             RegisterSession(s) \/ UnregisterSession(s) \/ UnregisterBuffer(s)
      PROVE  RouterTypeOK'
  BY <1>2 DEF RegisterSession, UnregisterSession, UnregisterBuffer
<1>3. ASSUME NEW s \in Session, RegisterBuffer(s) PROVE RouterTypeOK'
  <2>1. created[s] + 1 \in BufferNo(s)
    <3>1. MaxBuffers[s] \in Nat /\ created[s] \in Nat /\ created[s] < MaxBuffers[s]
      <4>1. MaxBuffers[s] \in Nat
        BY MaxBuffersAssumption
      <4>2. created[s] \in BufferNo(s) \cup {0} /\ created[s] < MaxBuffers[s]
        BY <1>3 DEF RegisterBuffer
      <4> QED BY <4>1, <4>2 DEF BufferNo
    <3> QED BY <3>1 DEF BufferNo
  <2> QED BY <1>3, <2>1 DEF RegisterBuffer
<1>4. ASSUME NEW s \in Session, NEW b \in BufferNo(s), ShellWrites(s, b)
      PROVE  RouterTypeOK'
  <2>1. pending[s][b] + 1 \in 0..RingSize
    BY <1>4, RingSizeAssumption DEF ShellWrites
  <2>2. \A t \in Session : pending'[t] \in [BufferNo(t) -> 0..RingSize]
    BY <1>4, <2>1 DEF ShellWrites
  <2> QED BY <1>4, <2>2 DEF ShellWrites
<1>5. CASE Stop \/ AggregateStart \/ AggregateEnd \/ Exit
  BY <1>5 DEF Stop, AggregateStart, AggregateEnd, Exit
<1>6. ASSUME NEW s \in Session, VisitHigh(s) PROVE RouterTypeOK'
  BY <1>6 DEF VisitHigh
<1>7. CASE VisitLow
  BY <1>7 DEF VisitLow
<1>8. CASE VisitRead
  <2> DEFINE n == ReadLen(pending[cur][rb])
  <2>1. pending[cur][rb] - n \in 0..RingSize
    BY ReadLenType
  <2>2. polled' \in [Session -> BOOLEAN] /\ slow' \in [Session -> BOOLEAN]
    <3>1. polled' = polled \/ polled' = [polled EXCEPT ![cur] = TRUE]
      BY <1>8 DEF VisitRead
    <3>2. slow' = slow
      BY <1>8 DEF VisitRead
    <3> QED BY <3>1, <3>2
  <2>3. DOMAIN pending' = Session
        /\ \A t \in Session : pending'[t] \in [BufferNo(t) -> 0..RingSize]
    <3>1. pending' = pending \/ pending' = [pending EXCEPT ![cur][rb] = @ - n]
      BY <1>8 DEF VisitRead
    <3> HIDE DEF n
    <3> QED BY <2>1, <3>1
  <2>4. frame' \subseteq Session
    BY <1>8 DEF VisitRead
  <2>5. /\ run' = "range"
        /\ UNCHANGED <<known, buffers, created, stopped, todo, cur, rb, outputs>>
    BY <1>8 DEF VisitRead
  <2> QED BY <2>2, <2>3, <2>4, <2>5
<1> QED BY <1>1, <1>2, <1>3, <1>4, <1>5, <1>6, <1>7, <1>8 DEF RouterNext, Router

\* The router's backlogs stay between 0 and the capacity, and the buffer in its hand is one
\* of the session it is visiting, whatever is registered and removed during the visit.
THEOREM RouterTypeCorrect == RouterSpec => []RouterTypeOK
<1>1. RouterInit => RouterTypeOK
  <2> SUFFICES ASSUME RouterInit PROVE RouterTypeOK
    OBVIOUS
  <2>1. slow \in [Session -> BOOLEAN] /\ polled \in [Session -> BOOLEAN] /\ stopped \in BOOLEAN
    BY DEF RouterInit
  <2>2. DOMAIN pending = Session
        /\ \A s \in Session : pending[s] \in [BufferNo(s) -> 0..RingSize]
    BY RingSizeAssumption DEF RouterInit
  <2>3. cur \in Session /\ rb \in BufferNo(cur)
    BY MaxBuffersAssumption DEF RouterInit, BufferNo
  <2>4. /\ DOMAIN buffers = Session /\ DOMAIN created = Session
        /\ \A s \in Session : buffers[s] = 0 /\ created[s] = 0
    BY DEF RouterInit
  <2> QED BY <2>1, <2>2, <2>3, <2>4 DEF RouterInit, RouterTypeOK
<1>2. RouterTypeOK /\ [RouterNext]_routerVars => RouterTypeOK'
  BY RouterTypeStep
<1> QED BY <1>1, <1>2, PTL DEF RouterSpec
=============================================================================
