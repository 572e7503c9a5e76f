----------------------------- MODULE FrameCodec -----------------------------
(***************************************************************************)
(* The binary frames between gateway and browser: Serialize and            *)
(* Deserialize (pkg/codec/frame.go), which MaintenanceFrame repeats        *)
(* (server/graceful.go), the parser of the worker (workers/parser.ts) and  *)
(* the frame that a round of the router builds (router/router.go).  A      *)
(* frame is its type, the number of its blocks, and for each block the     *)
(* session id, the length and the data.  The code has Base = 256,          *)
(* IdBytes = 4 and LenBytes = 2.                                           *)
(***************************************************************************)
EXTENDS Naturals, Sequences, SequencesExt

CONSTANTS Base,     \* values of a byte
          IdBytes,  \* bytes of a session id
          LenBytes, \* bytes of a length
          TerminalOutput, Maintenance, ConfirmFrame, \* frame types
          SampleBlocks, MaxBlocks, \* blocks of the frames that are tried, and how many
          SampleBytes, MaxText     \* bytes of the messages that are tried, and how many

ASSUME CodecAssumption ==
  /\ Base \in Nat \ {0, 1} /\ IdBytes \in Nat \ {0} /\ LenBytes \in Nat \ {0}
  /\ SampleBytes \subseteq 0..Base-1 /\ MaxBlocks \in Nat /\ MaxText \in Nat
  /\ {TerminalOutput, Maintenance, ConfirmFrame} \subseteq 0..Base-1

\* What a parser returns for a buffer that is too small; its type is no byte.
Rejected == [type |-> Base]

HeaderLen == IdBytes + LenBytes

\* n without its i lowest bytes, as n >> 8i.
ShiftBytes(n, i) == LET q[j \in 0..i] == IF j = 0 THEN n ELSE q[j-1] \div Base IN q[i]

\* binary.BigEndian: n in w bytes, with what does not fit cut off, and back.
PutUint(n, w) == [i \in 1..w |-> ShiftBytes(n, w - i) % Base]
Uint(bytes) == LET u[i \in 0..Len(bytes)] == IF i = 0 THEN 0 ELSE u[i-1] * Base + bytes[i]
               IN u[Len(bytes)]

\* copy(buf[offset:], bytes): what does not fit is left out.
CopyAt(buf, offset, bytes) ==
  [i \in DOMAIN buf |-> IF i - offset \in DOMAIN bytes THEN bytes[i - offset] ELSE buf[i]]

\* A block whose Length is the uint16 of the length of its data.
Block(id, data) == [id |-> id, length |-> Uint(PutUint(Len(data), LenBytes)), data |-> data]

\* The blocks that are tried have an id and a length that fit their fields.
ASSUME SampleAssumption ==
  \A b \in SampleBlocks :
    /\ b = Block(b.id, b.data) /\ b.id \in Nat /\ b.data \in Seq(0..Base-1)
    /\ ShiftBytes(b.id, IdBytes) = 0 /\ ShiftBytes(Len(b.data), LenBytes) = 0

\* The loop body of Serialize: id, length and data, and the offset moves by the length.
PutBlock(st, s) ==
  [buf |-> CopyAt(st.buf, st.offset, PutUint(s.id, IdBytes) \o PutUint(s.length, LenBytes) \o s.data),
   offset |-> st.offset + HeaderLen + s.length]

\* Serialize: a zeroed buffer of the total length is filled from offset 2 on.
Serialize(f) ==
  LET n == Len(f.sessions)
      total[i \in 0..n] == IF i = 0 THEN 2 ELSE total[i-1] + HeaderLen + Len(f.sessions[i].data)
      buf == [i \in 1..total[n] |-> CASE i = 1 -> f.type [] i = 2 -> f.count [] OTHER -> 0]
      after[i \in 0..n] == IF i = 0 THEN [buf |-> buf, offset |-> 2]
                           ELSE PutBlock(after[i-1], f.sessions[i])
  IN after[n].buf

\* MaintenanceFrame.Serialize repeats the code of Serialize.
SerializeMaintenance(f) == Serialize(f)

\* Faulty variant of GetBlock: the bound of the data is one too small.
GetBlock_Strict(data, st) ==
  LET id == Uint(SubSeq(data, st.offset + 1, st.offset + IdBytes))
      len == Uint(SubSeq(data, st.offset + IdBytes + 1, st.offset + HeaderLen))
      start == st.offset + HeaderLen
  IN IF ~st.ok \/ start > Len(data) \/ start + len >= Len(data) THEN [st EXCEPT !.ok = FALSE]
     ELSE [ok |-> TRUE, offset |-> start + len,
           sessions |-> Append(st.sessions, [id |-> id, length |-> len,
                                             data |-> SubSeq(data, start + 1, start + len)])]

\* The loop body of the parsers: the header and then the data must lie within the message.
GetBlock(data, st) ==
  LET id == Uint(SubSeq(data, st.offset + 1, st.offset + IdBytes))
      len == Uint(SubSeq(data, st.offset + IdBytes + 1, st.offset + HeaderLen))
      start == st.offset + HeaderLen
  IN IF ~st.ok \/ start > Len(data) \/ start + len > Len(data) THEN [st EXCEPT !.ok = FALSE]
     ELSE [ok |-> TRUE, offset |-> start + len,
           sessions |-> Append(st.sessions, [id |-> id, length |-> len,
                                             data |-> SubSeq(data, start + 1, start + len)])]

\* Deserialize: the count decides how many blocks are read; what follows is ignored.
Deserialize(data) ==
  IF Len(data) < 2 THEN Rejected
  ELSE LET after[i \in 0..data[2]] == IF i = 0 THEN [ok |-> TRUE, offset |-> 2, sessions |-> <<>>]
                                      ELSE GetBlock(data, after[i-1])
           st == after[data[2]]
       IN IF st.ok THEN [type |-> data[1], count |-> data[2], sessions |-> st.sessions] ELSE Rejected

\* The parser of the worker takes the same steps.
parseFrame(buffer) == Deserialize(buffer)

\* The frame of a round of the router: the count is a uint8 that wraps around, and a
\* frame whose count is 0 is not sent.
RoundFrame(blocks) ==
  [type |-> TerminalOutput, count |-> Len(blocks) % Base, sessions |-> blocks]

\* The frame of BroadcastMaintenance: one block for the session id 0.
MaintenanceFrame(data) ==
  [type |-> Maintenance, count |-> 1, sessions |-> <<Block(0, data)>>]

-----------------------------------------------------------------------------
(* What WireExact of Page is about *)

\* Frames of rounds whose count has not wrapped around, and maintenance frames.
SampleFrames == {RoundFrame(blocks) : blocks \in {bs \in SeqOf(SampleBlocks, MaxBlocks) : Len(bs) \in 1..Base-1}}
                  \cup {MaintenanceFrame(b.data) : b \in SampleBlocks}

\* The frames that do not arrive as they were sent.
Misread ==
  {f \in SampleFrames :
     f # parseFrame(IF f.type = Maintenance THEN SerializeMaintenance(f) ELSE Serialize(f))}

\* The messages that are accepted and are not, up to the end of the last block, what
\* Serialize makes of the frame that was read.
Invented == {text \in SeqOf(SampleBytes, MaxText) :
               LET f == parseFrame(text) IN f # Rejected /\ ~IsPrefix(Serialize(f), text)}
=============================================================================
