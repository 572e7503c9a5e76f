------------------------------ MODULE RingBuffer ------------------------------
(***************************************************************************)
(* The per-session output buffer of the stream router (router/buffer.go):  *)
(* one producer side (Write), the router's poll (TryRead), a blocking Read *)
(* on a condition variable, and Close.  Every operation runs under rb.mu,  *)
(* so each is one action; Read gives the mutex up inside cond.Wait and is  *)
(* therefore an action that starts the call and one that resumes it.       *)
(*                                                                         *)
(* accepted, delivered, overflowed, overread, eof and left are history     *)
(* variables: the code keeps none of them and no guard reads them.         *)
(***************************************************************************)
EXTENDS Integers, Sequences, FiniteSets

CONSTANTS BufferSize,  \* capacity in bytes (1 MiB in the code)
          Byte,        \* the byte values, with the zero value among them
          WriteLens,   \* lengths of the slices passed to Write
          ReadLens,    \* lengths of the slices passed to Read and TryRead
          Reader,      \* goroutines that call the blocking Read
          MaxWritten   \* bound: bytes written in a behaviour

ASSUME BufferSizeAssumption == BufferSize \in Nat \ {0}
ASSUME ByteAssumption == 0 \in Byte
\* The router reads with slices of at most 4096 bytes.  A slice longer than the
\* storage would, after an overflow, index rb.data out of range in TryRead.
ASSUME LensAssumption == WriteLens \subseteq Nat /\ ReadLens \subseteq 0..BufferSize
ASSUME MaxWrittenAssumption == MaxWritten \in Nat

VARIABLES data,       \* rb.data
          write,      \* rb.write, bytes ever written (never wrapped)
          read,       \* rb.read, bytes ever read (never wrapped)
          closed,     \* rb.closed
          pc,         \* where each Reader is: idle, waiting, woken
          want,       \* len(p) of the Read that each Reader is in
          accepted,   \* history: the bytes Write copied in, in order
          delivered,  \* history: the bytes handed out, in order
          overflowed, \* history: some Write returned ErrBufferFull
          overread,   \* history: some Read copied past the write cursor
          eof,        \* history: some read returned io.EOF
          left        \* history: since the buffer was last empty a blocking Read
                      \* has returned and left bytes behind

buffer == <<data, write, read, closed>>
readers == <<pc, want>>
history == <<accepted, delivered, overflowed, overread, eof, left>>
vars == <<buffer, readers, history>>

Slot == 0 .. BufferSize - 1
Chunk == UNION {[1..k -> Byte] : k \in WriteLens}
Lesser(a, b) == IF a <= b THEN a ELSE b

TypeOK == /\ data \in [Slot -> Byte]
          /\ write \in Nat /\ read \in Nat
          /\ closed \in BOOLEAN
          /\ pc \in [Reader -> {"idle", "waiting", "woken"}]
          /\ want \in [Reader -> Nat]
          /\ accepted \in Seq(Byte) /\ delivered \in Seq(Byte)
          /\ overflowed \in BOOLEAN /\ overread \in BOOLEAN
          /\ eof \in BOOLEAN /\ left \in BOOLEAN

\* NewRingBuffer: zeroed storage, both cursors at 0.
Init == /\ data = [i \in Slot |-> 0]
        /\ write = 0 /\ read = 0
        /\ closed = FALSE
        /\ pc = [r \in Reader |-> "idle"]
        /\ want = [r \in Reader |-> 0]
        /\ accepted = <<>> /\ delivered = <<>>
        /\ overflowed = FALSE /\ overread = FALSE /\ eof = FALSE /\ left = FALSE

-----------------------------------------------------------------------------
\* Faulty variant of Room: off by one.
Room_OneTooMany == BufferSize - (write - read) + 1

\* The room Write believes it has.
Room == BufferSize - (write - read)

\* copy(rb.data[write%BufferSize:], p) stops at the end of the storage: a
\* slice that reaches past it is cut, whatever room there is at the front.
CopyLen(len) == Lesser(len, BufferSize - (write % BufferSize))

\* The storage after n bytes of p were copied in at the write position.
CopiedIn(p, n) ==
  LET at == write % BufferSize
  IN [i \in Slot |-> IF at <= i /\ i < at + n THEN p[i - at + 1] ELSE data[i]]

\* cond.Signal: one waiter, if there is one, leaves the wait.
Signal == \/ /\ \A r \in Reader : pc[r] # "waiting"
             /\ pc' = pc
          \/ \E r \in Reader : /\ pc[r] = "waiting"
                               /\ pc' = [pc EXCEPT ![r] = "woken"]

\* Faulty variant of WriteCall: a closed buffer still takes bytes.
WriteCall_AfterClose(p) ==
  LET n == CopyLen(Len(p))
  IN /\ write + n <= MaxWritten
     /\ data' = CopiedIn(p, n)
     /\ write' = write + n
     /\ accepted' = accepted \o SubSeq(p, 1, n)
     /\ overflowed' = (overflowed \/ Room < Len(p))
     /\ Signal
     /\ UNCHANGED <<read, closed, want, delivered, overread, eof, left>>

\* Faulty variant of WriteCall: nobody is woken.
WriteCall_Silent(p) ==
  LET n == CopyLen(Len(p))
  IN /\ ~closed
     /\ write + n <= MaxWritten
     /\ data' = CopiedIn(p, n)
     /\ write' = write + n
     /\ accepted' = accepted \o SubSeq(p, 1, n)
     /\ overflowed' = (overflowed \/ Room < Len(p))
     /\ UNCHANGED <<read, closed, pc, want, delivered, overread, eof, left>>

\* Both branches of Write copy and advance alike; they differ in the error.
WriteCall(p) ==
  LET n == CopyLen(Len(p))
  IN /\ ~closed
     /\ write + n <= MaxWritten
     /\ data' = CopiedIn(p, n)
     /\ write' = write + n
     /\ accepted' = accepted \o SubSeq(p, 1, n)
     /\ overflowed' = (overflowed \/ Room < Len(p))
     /\ Signal
     /\ UNCHANGED <<read, closed, want, delivered, overread, eof, left>>

\* The bytes at n consecutive slots from pos on.
Slice(pos, n) == [i \in 1..n |-> data[pos + i - 1]]

\* Faulty variant of TryReadBytes: the second part starts where the first did.
TryReadBytes_NoWrap(n) ==
  LET readPos == read % BufferSize
      spaceBeforeWrap == BufferSize - readPos
  IN IF n <= spaceBeforeWrap
       THEN Slice(readPos, n)
       ELSE Slice(readPos, spaceBeforeWrap)
              \o Slice(BufferSize - (n - spaceBeforeWrap), n - spaceBeforeWrap)

\* What TryRead copies out: one run of slots, or two when it wraps.
TryReadBytes(n) ==
  LET readPos == read % BufferSize
      spaceBeforeWrap == BufferSize - readPos
  IN IF n <= spaceBeforeWrap
       THEN Slice(readPos, n)
       ELSE Slice(readPos, spaceBeforeWrap) \o Slice(0, n - spaceBeforeWrap)

TryReadData(len) ==
  LET n == Lesser(len, write - read)
  IN /\ read < write
     /\ delivered' = delivered \o TryReadBytes(n)
     /\ read' = read + n
     /\ left' = (left /\ read + n < write)
     /\ UNCHANGED <<data, write, closed, readers, accepted,
                    overflowed, overread, eof>>

\* io.EOF from either read: everything written has been read and no more comes.
ReturnEOF == /\ read >= write /\ closed
             /\ eof' = TRUE
             /\ UNCHANGED <<buffer, accepted, delivered, overflowed, overread, left>>

\* An empty open buffer answers (0, nil): TryRead then changes nothing.
TryRead(len) == \/ TryReadData(len)
                \/ ReturnEOF /\ UNCHANGED readers

-----------------------------------------------------------------------------
MustWait == read >= write /\ ~closed

\* Read once its wait loop is left: EOF, or a copy of everything from the read
\* position to the end of the storage, written yet or not.
FinishRead(r, len) ==
  LET n == Lesser(len, BufferSize - (read % BufferSize))
  IN /\ ~MustWait
     /\ pc' = [pc EXCEPT ![r] = "idle"]
     /\ want' = [want EXCEPT ![r] = 0]
     /\ \/ ReturnEOF
        \/ /\ read < write
           /\ delivered' = delivered \o Slice(read % BufferSize, n)
           /\ read' = read + n
           /\ overread' = (overread \/ write < read + n)
           /\ left' = (read + n < write)
           /\ UNCHANGED <<data, write, closed, accepted, overflowed, eof>>

\* A goroutine calls Read with a slice of len bytes.
Read(r, len) ==
  /\ pc[r] = "idle"
  /\ \/ FinishRead(r, len)
     \/ /\ MustWait
        /\ pc' = [pc EXCEPT ![r] = "waiting"]
        /\ want' = [want EXCEPT ![r] = len]
        /\ UNCHANGED <<buffer, history>>

\* cond.Wait has returned: the loop condition is tested again.
Resume(r) ==
  /\ pc[r] = "woken"
  /\ \/ FinishRead(r, want[r])
     \/ /\ MustWait
        /\ pc' = [pc EXCEPT ![r] = "waiting"]
        /\ UNCHANGED <<buffer, want, history>>

\* Faulty variant of Close: it signals one waiter where it must wake all.
Close_Signal == /\ closed' = TRUE
                /\ Signal
                /\ UNCHANGED <<data, write, read, want, history>>

\* Close, with its cond.Broadcast.
Close == /\ closed' = TRUE
         /\ pc' = [r \in Reader |-> IF pc[r] = "waiting" THEN "woken" ELSE pc[r]]
         /\ UNCHANGED <<data, write, read, want, history>>

Next == \/ \E p \in Chunk : WriteCall(p)
        \/ \E len \in ReadLens : TryRead(len)
        \/ \E r \in Reader, len \in ReadLens : Read(r, len)
        \/ \E r \in Reader : Resume(r)
        \/ Close

Spec == Init /\ [][Next]_vars

\* A goroutine whose cond.Wait has returned is runnable and takes the mutex.
\* Nobody is obliged to write, to poll or to close.
FairSpec == Spec /\ \A r \in Reader : WF_vars(Resume(r))

-----------------------------------------------------------------------------
(* Properties *)

\* Every unread byte is still in the slot its cursor maps to.
WindowHolds == \A i \in read .. write - 1 :
                 data[i % BufferSize] = accepted[i + 1]

\* Until a Write reports ErrBufferFull or a blocking Read runs past the write
\* cursor, what Write and TryRead of buffer.go do to the wrapped storage is
\* invisible: at most BufferSize bytes are pending, the unread slots hold the
\* newest accepted bytes, and consumers have seen exactly the older ones, in
\* order, however reads, writes and wrap-arounds interleave.
FIFO == (~overflowed /\ ~overread) =>
          /\ read <= write /\ write - read <= BufferSize
          /\ Len(accepted) = write
          /\ delivered = SubSeq(accepted, 1, read)
          /\ WindowHolds

\* io.EOF from Read or TryRead is final: once a consumer has seen it, every
\* byte ever accepted has been handed out, also after later calls of Write.
EOFMeansDrained == (eof /\ ~overflowed /\ ~overread) => delivered = accepted

\* Close releases every goroutine blocked in Read, however many wait.
CloseReleases ==
  \A r \in Reader : (closed /\ pc[r] # "idle") ~> pc[r] = "idle"

\* Each Write wakes one waiter (one cond.Signal), and no Signal is lost: a goroutine
\* waits in Read while bytes are pending only if one of its peers has been woken for
\* them, or a Read has returned since and left some behind, which no Signal announces.
SignalNotLost ==
  \A r \in Reader : (pc[r] = "waiting" /\ read < write)
                       => (left \/ \E q \in Reader : pc[q] = "woken")

\* A goroutine in Read while bytes are pending is served, unless another consumer
\* empties the buffer first or another Read has taken its bytes and left some behind.
\* In that last case the code lets it sleep on: see SignalNotLost.
DataReleases ==
  \A r \in Reader : (pc[r] # "idle" /\ read < write)
                       ~> (pc[r] = "idle" \/ read >= write \/ left)

\* No reader sleeps for ever on a closed buffer, however many wait; on an open one,
\* none does while there is data, except for the bytes that a Read left behind.
ReadersReleased == CloseReleases /\ DataReleases

\* What the buffer promises the router, and that it keeps the promise.
Stream == INSTANCE ByteStream
            WITH Capacity <- BufferSize, Symbol <- Byte,
                 sent <- accepted, got <- delivered, shut <- closed,
                 lossy <- (overflowed \/ overread)

\* The buffer implements a FIFO byte stream of capacity BufferSize that stays
\* exact until the code itself reports ErrBufferFull (Write) or over-reads (Read).
ImplementsByteStream == Stream!Spec
=============================================================================
