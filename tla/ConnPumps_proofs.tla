-------------------------- MODULE ConnPumps_proofs --------------------------
(***************************************************************************)
(* The hub and the pumps, for every set of connections, every capacity of  *)
(* Send, any set of goroutines that broadcast and any number of inputs and *)
(* broadcasts: a connection whose link is up gets its answers exactly      *)
(* (AnswersExact) and every broadcast that its channel had room for        *)
(* (CastsAccounted), and nothing but a failed link or an oversize message  *)
(* makes the gateway panic (PanicNeedsFailure).                            *)
(*                                                                         *)
(* All three rest on Healthy: both pumps of such a connection are in their *)
(* loops, so that nobody closes Send or drops what WritePump holds.  Then  *)
(* the pipeline only ever grows at its end, by an answer or a broadcast,   *)
(* and what is appended is newer than what is there (Hands, Fresh).        *)
(***************************************************************************)
EXTENDS ConnPumps, SequenceTheorems, TLAPS

\* While its link is up a connection is not torn down.
Healthy == \A c \in Conn : link[c] = "up" =>
             /\ ~wsClosed[c] /\ ~closed[c]
             /\ reader[c] \in {"off", "read", "handle"} /\ writer[c] \in {"off", "select", "write"}

\* WritePump holds a message while it writes, ReadPump an input while it handles it.
Hands == \A c \in Conn : /\ holding[c] # None <=> writer[c] = "write"
                         /\ reader[c] = "handle" => got[c] # 0

\* The hub stores a connection once, after HandleWS has offered it, and a broadcast visits
\* stored connections only.
Stored == /\ storing \cap connMap = {}
          /\ \A b \in Caster : todo[b] \subseteq connMap /\ (todo[b] # {} => casts[b] # 0)
          /\ \A c \in storing \cup connMap : phase[c] = "running"
          /\ \A c \in Conn : phase[c] # "running" => reader[c] = "off" /\ writer[c] = "off"

\* A broadcast is on its way to connections that it has visited.
Fresh == \A c \in Conn : link[c] = "up" /\ ~panicked =>
           \A b \in Caster : \A k \in Nat \ {0} : OnTheWay(c, <<b, k>>) =>
             c \in connMap /\ k <= casts[b] /\ (c \in todo[b] => k < casts[b])

Inv == /\ Healthy /\ Hands /\ Stored /\ Fresh
       /\ AnswersExact /\ CastsAccounted /\ PanicNeedsFailure

-----------------------------------------------------------------------------
(* The pipeline *)

\* What WritePump holds, as a sequence.
Held(c) == IF holding[c] = None THEN <<>> ELSE <<holding[c]>>

\* A message is an input or a broadcast; their first components tell them apart, and
\* None is neither.
LEMMA MessageKinds ==
  ASSUME NEW m \in Message
  PROVE  \/ \E n \in 1..MaxInputs : m = <<"in", n>>
         \/ \E b \in Caster : \E k \in Nat \ {0} : m = <<b, k>>
BY DEF Message, Cast

LEMMA KindsDiffer ==
  ASSUME NEW b \in Caster, NEW k, NEW n
  PROVE  b # "in" /\ <<b, k>> # <<"in", n>>
BY CasterAssumption

LEMMA NoneIsNoMessage == None \notin Message
<1> SUFFICES ASSUME None \in Message PROVE FALSE
  OBVIOUS
<1>1. CASE \E n \in 1..MaxInputs : None = <<"in", n>>
  BY <1>1 DEF None
<1>2. CASE \E b \in Caster : \E k \in Nat \ {0} : None = <<b, k>>
  BY <1>2, CasterAssumption DEF None
<1> QED BY <1>1, <1>2, MessageKinds

LEMMA HeldType ==
  ASSUME TypeOK, NEW c \in Conn
  PROVE  Held(c) \in Seq(Message)
<1>1. CASE holding[c] = None
  BY <1>1, EmptySeq DEF Held
<1>2. CASE holding[c] # None
  <2>1. holding[c] \in Message
    BY <1>2 DEF TypeOK
  <2> QED BY <1>2, <2>1 DEF Held
<1> QED BY <1>1, <1>2

LEMMA PipelineType ==
  ASSUME TypeOK, NEW c \in Conn
  PROVE  /\ Pipeline(c) \in Seq(Message) /\ DOMAIN Pipeline(c) = 1..Len(Pipeline(c))
         /\ Len(Pipeline(c)) \in Nat
         /\ received[c] \in Seq(Message) /\ Held(c) \in Seq(Message) /\ send[c] \in Seq(Message)
<1>1. received[c] \in Seq(Message) /\ Held(c) \in Seq(Message) /\ send[c] \in Seq(Message)
  BY HeldType DEF TypeOK
<1>2. received[c] \o Held(c) \in Seq(Message)
  BY <1>1, ConcatProperties
<1>3. (received[c] \o Held(c)) \o send[c] \in Seq(Message)
  BY <1>1, <1>2, ConcatProperties
<1>4. Pipeline(c) \in Seq(Message)
  BY <1>3 DEF Pipeline, Held
<1> QED BY <1>1, <1>4, LenProperties

\* What is sent last comes last.
LEMMA PipelineAppend ==
  ASSUME TypeOK, NEW c \in Conn, NEW m \in Message, UNCHANGED <<received, holding>>,
         send'[c] = Append(send[c], m)
  PROVE  Pipeline(c)' = Append(Pipeline(c), m)
<1> DEFINE s == received[c] \o Held(c)
           q == send[c]
           e == <<m>>
<1>1. received[c] \in Seq(Message) /\ Held(c) \in Seq(Message) /\ q \in Seq(Message)
  BY PipelineType
<1>2. s \in Seq(Message) /\ e \in Seq(Message)
  BY <1>1, ConcatProperties
<1>3. Pipeline(c) = s \o q /\ Pipeline(c)' = s \o Append(q, m)
  BY DEF Pipeline, Held
<1>4. Append(q, m) = q \o e
  BY <1>1, AppendIsConcat
<1> HIDE DEF s, q
<1>5. s \o q \in Seq(Message)
  BY <1>1, <1>2, ConcatProperties
<1>6. Append(s \o q, m) = (s \o q) \o e
  BY <1>5, AppendIsConcat
<1> HIDE DEF e
<1>7. (s \o q) \o e = s \o (q \o e)
  BY <1>1, <1>2, ConcatAssociative, SMTT(30)
<1> QED BY <1>3, <1>4, <1>6, <1>7

\* WritePump takes the first message of Send into its hands.
LEMMA PipelineTake ==
  ASSUME TypeOK, NEW c \in Conn, holding[c] = None, send[c] # <<>>, UNCHANGED received,
         holding'[c] = Head(send[c]), send'[c] = Tail(send[c]), Head(send[c]) # None
  PROVE  Pipeline(c)' = Pipeline(c)
<1> DEFINE r == received[c]
           q == send[c]
<1>1. r \in Seq(Message) /\ q \in Seq(Message) /\ q # <<>>
  BY PipelineType
<1>2. Pipeline(c) = (r \o <<>>) \o q /\ Pipeline(c)' = (r \o <<Head(q)>>) \o Tail(q)
  BY DEF Pipeline
<1> HIDE DEF r, q
<1>3. /\ Head(q) \in Message /\ Tail(q) \in Seq(Message) /\ Len(Tail(q)) = Len(q) - 1
      /\ \A i \in 1..Len(Tail(q)) : Tail(q)[i] = q[i + 1]
  BY <1>1, HeadTailProperties
<1>4. <<Head(q)>> \in Seq(Message) /\ Len(q) \in Nat /\ Len(<<Head(q)>>) = 1
      /\ Head(q) = q[1]
  BY <1>1, <1>3, LenProperties
<1>5. <<Head(q)>> \o Tail(q) = q
  <2>1. /\ <<Head(q)>> \o Tail(q) \in Seq(Message)
        /\ Len(<<Head(q)>> \o Tail(q)) = 1 + Len(Tail(q))
        /\ \A i \in 1..1 + Len(Tail(q)) :
             (<<Head(q)>> \o Tail(q))[i] = IF i <= 1 THEN <<Head(q)>>[i] ELSE Tail(q)[i - 1]
    BY <1>3, <1>4, ConcatProperties
  <2>2. Len(<<Head(q)>> \o Tail(q)) = Len(q)
    BY <1>3, <1>4, <2>1
  <2>3. \A i \in 1..Len(q) : (<<Head(q)>> \o Tail(q))[i] = q[i]
    BY <1>3, <1>4, <2>1
  <2> QED BY <1>1, <2>1, <2>2, <2>3, SeqEqual
<1>6. (r \o <<Head(q)>>) \o Tail(q) = r \o (<<Head(q)>> \o Tail(q))
  BY <1>1, <1>3, <1>4, ConcatAssociative
<1>7. r \o <<>> = r
  BY <1>1, ConcatEmptySeq
<1> QED BY <1>2, <1>5, <1>6, <1>7

\* It hands it on to the client.
LEMMA PipelineWrite ==
  ASSUME TypeOK, NEW c \in Conn, holding[c] # None, holding'[c] = None, UNCHANGED send,
         received'[c] = Append(received[c], holding[c])
  PROVE  Pipeline(c)' = Pipeline(c)
<1>1. received[c] \in Seq(Message) /\ holding[c] \in Message
  BY DEF TypeOK
<1>2. Append(received[c], holding[c]) = received[c] \o <<holding[c]>>
  BY <1>1, AppendIsConcat
<1>3. Append(received[c], holding[c]) \in Seq(Message)
  BY <1>1, AppendProperties
<1>4. Append(received[c], holding[c]) \o <<>> = Append(received[c], holding[c])
  BY <1>3, ConcatEmptySeq
<1> QED BY <1>2, <1>4 DEF Pipeline

-----------------------------------------------------------------------------
(* Types, and the parts of the invariant that are about single goroutines *)

LEMMA AppendType ==
  ASSUME TypeOK, NEW c \in Conn, NEW m \in Message, Len(send[c]) < SendCap,
         send' = [send EXCEPT ![c] = Append(@, m)]
  PROVE  send' \in [Conn -> Seq(Message)] /\ \A d \in Conn : Len(send'[d]) <= SendCap
<1>1. send[c] \in Seq(Message) /\ Len(send[c]) \in Nat
  BY LenProperties DEF TypeOK
<1>2. Append(send[c], m) \in Seq(Message) /\ Len(Append(send[c], m)) = Len(send[c]) + 1
  BY <1>1, AppendProperties
<1>3. Len(Append(send[c], m)) <= SendCap
  BY <1>1, <1>2, SendCapAssumption
<1> QED BY <1>2, <1>3 DEF TypeOK

LEMMA TypeStep ==
  ASSUME Inv, Next
  PROVE  TypeOK'
<1>0. TypeOK
  BY DEF Inv, CastsAccounted
<1> USE <1>0
<1>1. ASSUME NEW c \in Conn, ClientSends(c) PROVE TypeOK'
  <2>1. sent' \in [Conn -> 0..MaxInputs]
    BY <1>1, BoundsAssumption DEF ClientSends, TypeOK
  <2> QED BY <1>1, <2>1 DEF ClientSends, TypeOK, hubVars, castVars
<1>2. ASSUME NEW c \in Conn, LinkFails(c) \/ ClientOversize(c) PROVE TypeOK'
  BY <1>2 DEF LinkFails, ClientOversize, TypeOK, hubVars, castVars
<1>3. ASSUME NEW c \in Conn, Offer(c) PROVE TypeOK'
  BY <1>3 DEF Offer, TypeOK, netVars, castVars
<1>4. ASSUME NEW c \in Conn, HubReceive(c) PROVE TypeOK'
  BY <1>4 DEF HubReceive, TypeOK, netVars, castVars
<1>5. CASE HubStore
  <2>1. since' \in [Conn -> [Caster -> Nat]]
    BY <1>5 DEF HubStore, TypeOK
  <2>2. todo' \in [Caster -> SUBSET Conn]
    BY <1>5 DEF HubStore, TypeOK
  <2>3. connMap' \subseteq Conn /\ storing' \subseteq Conn
    BY <1>5 DEF HubStore, TypeOK
  <2> QED BY <1>5, <2>1, <2>2, <2>3 DEF HubStore, TypeOK, netVars
<1>6. ASSUME NEW b \in Caster, CastStart(b) PROVE TypeOK'
  <2>1. casts' \in [Caster -> Nat] /\ todo' \in [Caster -> SUBSET Conn]
    BY <1>6 DEF CastStart, TypeOK
  <2> QED BY <1>6, <2>1 DEF CastStart, TypeOK, hubVars, netVars
<1>7. ASSUME NEW b \in Caster, NEW c \in Conn, CastVisit(b, c) PROVE TypeOK'
  <2>1. todo' \in [Caster -> SUBSET Conn]
    BY <1>7 DEF CastVisit, TypeOK
  <2>2. <<b, casts[b]>> \in Cast
    BY <1>7 DEF CastVisit, Inv, Stored, TypeOK, Cast
  <2>3. CASE panicked' = TRUE /\ UNCHANGED <<send, dropped>>
    BY <1>7, <2>1, <2>3 DEF CastVisit, TypeOK, hubVars, netVars
  <2>4. CASE /\ Len(send[c]) < SendCap /\ send' = [send EXCEPT ![c] = Append(@, <<b, casts[b]>>)]
             /\ UNCHANGED <<dropped, panicked>>
    <3>1. <<b, casts[b]>> \in Message
      BY <2>2 DEF Message
    <3>2. send' \in [Conn -> Seq(Message)] /\ \A d \in Conn : Len(send'[d]) <= SendCap
      BY <2>4, <3>1, AppendType
    <3> QED BY <1>7, <2>1, <2>4, <3>2 DEF CastVisit, TypeOK, hubVars, netVars
  <2>5. CASE /\ dropped' = [dropped EXCEPT ![c] = @ \cup {<<b, casts[b]>>}]
             /\ UNCHANGED <<send, panicked>>
    <3>1. dropped' \in [Conn -> SUBSET Cast]
      BY <2>2, <2>5 DEF TypeOK
    <3> QED BY <1>7, <2>1, <2>5, <3>1 DEF CastVisit, TypeOK, hubVars, netVars
  <2> QED BY <1>7, <2>3, <2>4, <2>5 DEF CastVisit
<1>8. ASSUME NEW c \in Conn, ReadMessage(c) PROVE TypeOK'
  <2>1. got' \in [Conn -> 0..MaxInputs]
    BY <1>8, BoundsAssumption DEF ReadMessage, TypeOK
  <2>2. reader' \in [Conn -> PumpState \cup {"read", "handle"}]
    BY <1>8 DEF ReadMessage, TypeOK
  <2> QED BY <1>8, <2>1, <2>2 DEF ReadMessage, TypeOK, hubVars, netVars, castVars
<1>9. ASSUME NEW c \in Conn, Handle(c) PROVE TypeOK'
  <2>1. CASE panicked' = TRUE /\ UNCHANGED <<reader, send>>
    BY <1>9, <2>1 DEF Handle, TypeOK, hubVars, netVars, castVars
  <2>2. CASE /\ Len(send[c]) < SendCap /\ send' = [send EXCEPT ![c] = Append(@, <<"in", got[c]>>)]
             /\ reader' = [reader EXCEPT ![c] = "read"] /\ UNCHANGED panicked
    <3>1. <<"in", got[c]>> \in Message
      BY <1>9 DEF Handle, Inv, Hands, TypeOK, Message
    <3>2. send' \in [Conn -> Seq(Message)] /\ \A d \in Conn : Len(send'[d]) <= SendCap
      BY <2>2, <3>1, AppendType
    <3> QED BY <1>9, <2>2, <3>2 DEF Handle, TypeOK, hubVars, netVars, castVars
  <2> QED BY <1>9, <2>1, <2>2 DEF Handle
<1>10. ASSUME NEW c \in Conn, ReadFails(c) PROVE TypeOK'
  BY <1>10 DEF ReadFails, TypeOK, PumpState, hubVars, netVars, castVars
<1>11. ASSUME NEW c \in Conn, TakeMessage(c) PROVE TypeOK'
  <2>1. send[c] \in Seq(Message) /\ Len(send[c]) \in Nat /\ send[c] # <<>>
    BY <1>11, LenProperties DEF TakeMessage, TypeOK
  <2>2. /\ Head(send[c]) \in Message /\ Tail(send[c]) \in Seq(Message)
        /\ Len(Tail(send[c])) = Len(send[c]) - 1
    BY <2>1, HeadTailProperties
  <2>3. Len(Tail(send[c])) <= SendCap
    BY <2>1, <2>2, SendCapAssumption DEF TypeOK
  <2>4. /\ send' \in [Conn -> Seq(Message)] /\ \A d \in Conn : Len(send'[d]) <= SendCap
        /\ holding' \in [Conn -> Message \cup {None}]
        /\ writer' \in [Conn -> PumpState \cup {"select", "write"}]
    BY <1>11, <2>2, <2>3 DEF TakeMessage, TypeOK
  <2> QED BY <1>11, <2>4 DEF TakeMessage, TypeOK, hubVars, netVars, castVars
<1>12. ASSUME NEW c \in Conn, WriteMessage(c) PROVE TypeOK'
  <2>1. received' \in [Conn -> Seq(Message)]
    <3>1. received[c] \in Seq(Message) /\ holding[c] \in Message
      BY <1>12 DEF WriteMessage, Inv, Hands, TypeOK
    <3>2. Append(received[c], holding[c]) \in Seq(Message)
      BY <3>1, AppendProperties
    <3> QED BY <1>12, <3>2 DEF WriteMessage, TypeOK
  <2> QED BY <1>12, <2>1 DEF WriteMessage, TypeOK, hubVars, castVars
<1>13. ASSUME NEW c \in Conn, WriteFails(c) PROVE TypeOK'
  BY <1>13 DEF WriteFails, TypeOK, PumpState, hubVars, netVars, castVars
<1>14. ASSUME NEW c \in Conn, ReaderClosesWS(c) PROVE TypeOK'
  BY <1>14 DEF ReaderClosesWS, TypeOK, PumpState, hubVars, netVars, castVars
<1>15. ASSUME NEW c \in Conn, WriterClosesWS(c) PROVE TypeOK'
  BY <1>15 DEF WriterClosesWS, TypeOK, PumpState, hubVars, netVars, castVars
<1>16. ASSUME NEW c \in Conn, ReaderClosesSend(c) PROVE TypeOK'
  BY <1>16 DEF ReaderClosesSend, CloseSend, TypeOK, PumpState, hubVars, netVars, castVars
<1>17. ASSUME NEW c \in Conn, WriterClosesSend(c) PROVE TypeOK'
  BY <1>17 DEF WriterClosesSend, CloseSend, TypeOK, PumpState, hubVars, netVars, castVars
<1> QED BY <1>1, <1>2, <1>3, <1>4, <1>5, <1>6, <1>7, <1>8, <1>9, <1>10, <1>11, <1>12,
           <1>13, <1>14, <1>15, <1>16, <1>17 DEF Next, ReadPump, WritePump, Hub

\* Nothing tears a connection down while its link is up.
LEMMA HealthyStep ==
  ASSUME Inv, Next
  PROVE  Healthy'
<1>0. TypeOK /\ Healthy
  BY DEF Inv, CastsAccounted
<1> USE <1>0
<1>1. CASE UNCHANGED <<link, wsClosed, closed, reader, writer>>
  BY <1>1 DEF Healthy
<1>2. ASSUME NEW c \in Conn, LinkFails(c) \/ ClientOversize(c) PROVE Healthy'
  BY <1>2 DEF LinkFails, ClientOversize, Healthy, TypeOK
<1>3. ASSUME NEW c \in Conn, HubReceive(c) PROVE Healthy'
  BY <1>3 DEF HubReceive, Healthy, TypeOK, netVars
<1>4. ASSUME NEW c \in Conn, ReadMessage(c) PROVE Healthy'
  BY <1>4 DEF ReadMessage, Healthy, TypeOK, netVars
<1>5. ASSUME NEW c \in Conn, Handle(c) PROVE Healthy'
  BY <1>5 DEF Handle, Healthy, TypeOK, netVars
<1>6. ASSUME NEW c \in Conn, ReadFails(c) PROVE Healthy'
  BY <1>6 DEF ReadFails, Healthy, TypeOK, netVars
<1>7. ASSUME NEW c \in Conn, TakeMessage(c) PROVE Healthy'
  BY <1>7 DEF TakeMessage, Healthy, TypeOK, netVars
<1>8. ASSUME NEW c \in Conn, WriteMessage(c) PROVE Healthy'
  BY <1>8 DEF WriteMessage, Healthy, TypeOK
<1>9. ASSUME NEW c \in Conn, WriteFails(c) PROVE Healthy'
  BY <1>9 DEF WriteFails, CloseSent, Healthy, TypeOK, netVars
<1>10. ASSUME NEW c \in Conn, ReaderClosesWS(c) PROVE Healthy'
  BY <1>10 DEF ReaderClosesWS, Healthy, TypeOK, netVars
<1>11. ASSUME NEW c \in Conn, WriterClosesWS(c) PROVE Healthy'
  BY <1>11 DEF WriterClosesWS, Healthy, TypeOK, netVars
<1>12. ASSUME NEW c \in Conn, ReaderClosesSend(c) PROVE Healthy'
  BY <1>12 DEF ReaderClosesSend, CloseSend, Healthy, TypeOK, netVars
<1>13. ASSUME NEW c \in Conn, WriterClosesSend(c) PROVE Healthy'
  BY <1>13 DEF WriterClosesSend, CloseSend, Healthy, TypeOK, netVars
<1> QED BY <1>1, <1>2, <1>3, <1>4, <1>5, <1>6, <1>7, <1>8, <1>9, <1>10, <1>11, <1>12, <1>13
      DEF Next, ReadPump, WritePump, Hub, ClientSends, Offer, HubStore, CastStart, CastVisit,
          netVars

LEMMA HandsStep ==
  ASSUME Inv, Next
  PROVE  Hands'
<1>0. TypeOK /\ Hands
  BY DEF Inv, CastsAccounted
<1> USE <1>0
<1>1. CASE UNCHANGED <<holding, writer, reader, got>>
  BY <1>1 DEF Hands
<1>2. ASSUME NEW c \in Conn, HubReceive(c) PROVE Hands'
  BY <1>2 DEF HubReceive, Hands, TypeOK, Inv, Stored
<1>3. ASSUME NEW c \in Conn, ReadMessage(c) PROVE Hands'
  BY <1>3 DEF ReadMessage, Hands, TypeOK
<1>4. ASSUME NEW c \in Conn, Handle(c) PROVE Hands'
  BY <1>4 DEF Handle, Hands, TypeOK
<1>5. ASSUME NEW c \in Conn, ReadFails(c) PROVE Hands'
  BY <1>5 DEF ReadFails, Hands, TypeOK
<1>6. ASSUME NEW c \in Conn, TakeMessage(c) PROVE Hands'
  <2>1. Head(send[c]) \in Message
    BY <1>6, HeadTailProperties DEF TakeMessage, TypeOK
  <2>2. Head(send[c]) # None
    BY <2>1, NoneIsNoMessage
  <2> QED BY <1>6, <2>2 DEF TakeMessage, Hands, TypeOK
<1>7. ASSUME NEW c \in Conn, WriteMessage(c) PROVE Hands'
  BY <1>7 DEF WriteMessage, Hands, TypeOK
<1>8. ASSUME NEW c \in Conn, WriteFails(c) PROVE Hands'
  BY <1>8 DEF WriteFails, Hands, TypeOK
<1>9. ASSUME NEW c \in Conn, ReaderClosesWS(c) PROVE Hands'
  BY <1>9 DEF ReaderClosesWS, Hands, TypeOK
<1>10. ASSUME NEW c \in Conn, WriterClosesWS(c) PROVE Hands'
  BY <1>10 DEF WriterClosesWS, Hands, TypeOK
<1>11. ASSUME NEW c \in Conn, ReaderClosesSend(c) PROVE Hands'
  BY <1>11 DEF ReaderClosesSend, Hands, TypeOK
<1>12. ASSUME NEW c \in Conn, WriterClosesSend(c) PROVE Hands'
  BY <1>12 DEF WriterClosesSend, Hands, TypeOK
<1> QED BY <1>1, <1>2, <1>3, <1>4, <1>5, <1>6, <1>7, <1>8, <1>9, <1>10, <1>11, <1>12
      DEF Next, ReadPump, WritePump, Hub, ClientSends, ClientOversize, LinkFails, Offer, HubStore,
          CastStart, CastVisit

LEMMA StoredStep ==
  ASSUME Inv, Next
  PROVE  Stored'
<1>0. TypeOK /\ Stored
  BY DEF Inv, CastsAccounted
<1> USE <1>0
<1>1. CASE UNCHANGED <<hubVars, todo, casts, reader, writer>>
  BY <1>1 DEF Stored, hubVars
<1>2. ASSUME NEW c \in Conn, Offer(c) PROVE Stored'
  BY <1>2 DEF Offer, Stored, TypeOK, castVars
<1>3. ASSUME NEW c \in Conn, HubReceive(c) PROVE Stored'
  BY <1>3 DEF HubReceive, Stored, TypeOK, castVars
<1>4. CASE HubStore
  BY <1>4 DEF HubStore, Stored, TypeOK
<1>5. ASSUME NEW b \in Caster, CastStart(b) PROVE Stored'
  BY <1>5 DEF CastStart, Stored, TypeOK, hubVars
<1>6. ASSUME NEW b \in Caster, NEW c \in Conn, CastVisit(b, c) PROVE Stored'
  BY <1>6 DEF CastVisit, Stored, TypeOK, hubVars
<1>7. ASSUME UNCHANGED <<hubVars, castVars>>,
             \A c \in Conn : /\ reader'[c] = reader[c] \/ reader[c] # "off"
                             /\ writer'[c] = writer[c] \/ writer[c] # "off"
      PROVE  Stored'
  BY <1>7 DEF Stored, TypeOK, hubVars, castVars
<1>8. ASSUME NEW c \in Conn, ReadPump(c) PROVE Stored'
  <2>1. \A d \in Conn : /\ reader'[d] = reader[d] \/ reader[d] # "off"
                        /\ writer'[d] = writer[d] \/ writer[d] # "off"
    BY <1>8 DEF ReadPump, ReadMessage, Handle, ReadFails, ReaderClosesWS, ReaderClosesSend, TypeOK
  <2> QED BY <1>7, <1>8, <2>1
        DEF ReadPump, ReadMessage, Handle, ReadFails, ReaderClosesWS, ReaderClosesSend
<1>9. ASSUME NEW c \in Conn, WritePump(c) PROVE Stored'
  <2>1. \A d \in Conn : /\ reader'[d] = reader[d] \/ reader[d] # "off"
                        /\ writer'[d] = writer[d] \/ writer[d] # "off"
    BY <1>9 DEF WritePump, TakeMessage, WriteMessage, WriteFails, WriterClosesWS,
                WriterClosesSend, TypeOK
  <2> QED BY <1>7, <1>9, <2>1
        DEF WritePump, TakeMessage, WriteMessage, WriteFails, WriterClosesWS, WriterClosesSend
<1> QED BY <1>1, <1>2, <1>3, <1>4, <1>5, <1>6, <1>8, <1>9
      DEF Next, Hub, ClientSends, ClientOversize, LinkFails, castVars

\* A panic needs a channel that somebody has closed.
LEMMA PanicStep ==
  ASSUME Inv, Next
  PROVE  PanicNeedsFailure'
<1>0. TypeOK /\ Healthy /\ PanicNeedsFailure
  BY DEF Inv, CastsAccounted
<1>1. ASSUME NEW c \in Conn, closed[c] PROVE link[c] # "up"
  BY <1>0, <1>1 DEF Healthy, TypeOK
<1>2. \A c \in Conn : link[c] # "up" => link'[c] # "up"
  BY <1>0 DEF Next, ClientSends, ClientOversize, LinkFails, Offer, HubReceive, HubStore, Hub, CastStart,
     CastVisit, ReadPump, ReadMessage, Handle, ReadFails, ReaderClosesWS, ReaderClosesSend,
     WritePump, TakeMessage, WriteMessage, WriteFails, WriterClosesWS, WriterClosesSend,
     netVars, TypeOK
<1>3. panicked' => panicked \/ \E c \in Conn : closed[c]
  BY DEF Next, ClientSends, ClientOversize, LinkFails, Offer, HubReceive, HubStore, Hub, CastStart,
     CastVisit, ReadPump, ReadMessage, Handle, ReadFails, ReaderClosesWS, ReaderClosesSend,
     WritePump, TakeMessage, WriteMessage, WriteFails, WriterClosesWS, WriterClosesSend,
     CloseSend
<1> QED BY <1>0, <1>1, <1>2, <1>3 DEF PanicNeedsFailure

-----------------------------------------------------------------------------
(* What a step does to the pipelines *)

\* Nothing, as far as connections are concerned whose link is up.
Still == \A d \in Conn : link'[d] = "up" /\ ~panicked' =>
           /\ link[d] = "up" /\ ~panicked
           /\ Pipeline(d)' = Pipeline(d) /\ Handled(d)' = Handled(d)

Quiet == Still /\ (panicked' \/ UNCHANGED <<connMap, todo, casts, since, dropped>>)

\* One pipeline has one message more.
Gains(c, m) ==
  /\ \A d \in Conn : d # c => Pipeline(d)' = Pipeline(d)
  /\ DOMAIN Pipeline(c) = 1..Len(Pipeline(c)) /\ Len(Pipeline(c)) \in Nat
  /\ DOMAIN Pipeline(c)' = 1..Len(Pipeline(c)) + 1
  /\ \A i \in DOMAIN Pipeline(c) : Pipeline(c)'[i] = Pipeline(c)[i]
  /\ Pipeline(c)'[Len(Pipeline(c)) + 1] = m
  /\ \A x : OnTheWay(c, x)' <=> OnTheWay(c, x) \/ x = m

\* It is an answer, or a broadcast; or a broadcast was turned away.
Answers(c) == /\ Gains(c, <<"in", got[c]>>)
              /\ got[c] \in Nat \ {0} /\ Handled(c) = got[c] - 1 /\ Handled(c)' = got[c]
              /\ \A d \in Conn : d # c => Handled(d)' = Handled(d)
              /\ UNCHANGED <<link, panicked, connMap, todo, casts, since, dropped>>

Casts(b, c) == /\ Gains(c, <<b, casts[b]>>)
               /\ c \in todo[b] /\ todo' = [todo EXCEPT ![b] = @ \ {c}]
               /\ \A d \in Conn : Handled(d)' = Handled(d)
               /\ UNCHANGED <<link, panicked, connMap, casts, since, dropped>>

Turns(b, c) == /\ Still
               /\ c \in todo[b] /\ todo' = [todo EXCEPT ![b] = @ \ {c}]
               /\ dropped' = [dropped EXCEPT ![c] = @ \cup {<<b, casts[b]>>}]
               /\ UNCHANGED <<connMap, casts, since>>

LEMMA GainsWhenSent ==
  ASSUME TypeOK, NEW c \in Conn, NEW m \in Message, UNCHANGED <<received, holding>>,
         send' = [send EXCEPT ![c] = Append(@, m)]
  PROVE  Gains(c, m)
<1> DEFINE p == Pipeline(c)
           q == Pipeline(c)'
<1>1. p \in Seq(Message) /\ DOMAIN p = 1..Len(p) /\ Len(p) \in Nat
  BY PipelineType
<1>2. send'[c] = Append(send[c], m) /\ \A d \in Conn : d # c => send'[d] = send[d]
  BY DEF TypeOK
<1>3. q = Append(p, m)
  BY <1>2, PipelineAppend
<1>4. \A d \in Conn : d # c => Pipeline(d)' = Pipeline(d)
  BY <1>2 DEF Pipeline
<1>5. OnTheWay(c, m)' <=> m \in ToSet(q)
  BY DEF OnTheWay
<1>6. \A x : (OnTheWay(c, x)' <=> \E i \in DOMAIN q : q[i] = x)
             /\ (OnTheWay(c, x) <=> \E i \in DOMAIN p : p[i] = x)
  BY DEF OnTheWay, ToSet
<1> HIDE DEF p, q
<1>7. /\ q \in Seq(Message) /\ Len(q) = Len(p) + 1
      /\ \A i \in 1..Len(p) : q[i] = p[i]
      /\ q[Len(p) + 1] = m
  BY <1>1, <1>3, AppendProperties
<1>8. DOMAIN q = 1..Len(p) + 1
  BY <1>7, LenProperties
<1>9. \A x : OnTheWay(c, x)' <=> OnTheWay(c, x) \/ x = m
  BY <1>1, <1>6, <1>7, <1>8
<1> QED BY <1>1, <1>4, <1>7, <1>8, <1>9 DEF Gains, p, q

LEMMA PipeCases ==
  ASSUME Inv, Next
  PROVE  \/ Quiet \/ (HubStore /\ Still)
         \/ \E b \in Caster : CastStart(b) /\ Still
         \/ \E c \in Conn : Answers(c) \/ \E b \in Caster : Casts(b, c) \/ Turns(b, c)
<1>0. TypeOK /\ Healthy /\ Hands /\ Stored
  BY DEF Inv, CastsAccounted
<1> USE <1>0
<1>1. ASSUME UNCHANGED <<link, panicked, reader, got, received, holding, send>> PROVE Still
  BY <1>1 DEF Still, Pipeline, Handled
<1>2. ASSUME panicked' PROVE Quiet
  BY <1>2 DEF Quiet, Still
<1>3. ASSUME NEW c \in Conn, ClientSends(c) \/ Offer(c) PROVE Quiet
  BY <1>1, <1>3 DEF ClientSends, Offer, Quiet, hubVars, netVars, castVars
<1>4. ASSUME NEW c \in Conn, LinkFails(c) \/ ClientOversize(c) PROVE Quiet
  BY <1>4 DEF LinkFails, ClientOversize, Quiet, Still, Pipeline, Handled, TypeOK, hubVars, castVars
<1>5. ASSUME NEW c \in Conn, HubReceive(c) PROVE Quiet
  <2>1. \A d \in Conn : Handled(d)' = Handled(d)
    BY <1>5 DEF HubReceive, Handled, Stored, TypeOK
  <2> QED BY <1>5, <2>1 DEF HubReceive, Quiet, Still, Pipeline, netVars, castVars
<1>6. CASE HubStore
  BY <1>1, <1>6 DEF HubStore, netVars
<1>7. ASSUME NEW b \in Caster, CastStart(b) PROVE Still
  BY <1>1, <1>7 DEF CastStart, netVars
<1>8. ASSUME NEW b \in Caster, NEW c \in Conn, CastVisit(b, c)
      PROVE  Quiet \/ Casts(b, c) \/ Turns(b, c)
  <2>1. CASE panicked' = TRUE
    BY <1>2, <2>1
  <2>2. CASE /\ send' = [send EXCEPT ![c] = Append(@, <<b, casts[b]>>)]
             /\ UNCHANGED <<dropped, panicked>>
    <3>1. <<b, casts[b]>> \in Message
      BY <1>8 DEF CastVisit, Stored, TypeOK, Message, Cast
    <3>2. Gains(c, <<b, casts[b]>>)
      BY <1>8, <2>2, <3>1, GainsWhenSent DEF CastVisit, netVars
    <3> QED BY <1>8, <2>2, <3>2 DEF CastVisit, Casts, Handled, hubVars, netVars
  <2>3. CASE /\ dropped' = [dropped EXCEPT ![c] = @ \cup {<<b, casts[b]>>}]
             /\ UNCHANGED <<send, panicked>>
    <3>1. Still
      BY <1>1, <1>8, <2>3 DEF CastVisit, netVars
    <3> QED BY <1>8, <2>3, <3>1 DEF CastVisit, Turns, hubVars
  <2> QED BY <1>8, <2>1, <2>2, <2>3 DEF CastVisit
<1>9. ASSUME UNCHANGED <<netVars, holding, send, panicked, connMap, castVars>>,
             \A d \in Conn : Handled(d)' = Handled(d)
      PROVE  Quiet
  BY <1>9 DEF Quiet, Still, Pipeline, netVars, castVars
<1>10. ASSUME NEW c \in Conn, ReadMessage(c) PROVE Quiet
  <2>1. \A d \in Conn : Handled(d)' = Handled(d)
    BY <1>10 DEF ReadMessage, Handled, TypeOK
  <2> QED BY <1>9, <1>10, <2>1 DEF ReadMessage, hubVars
<1>11. ASSUME NEW c \in Conn, Handle(c) PROVE Quiet \/ Answers(c)
  <2>1. CASE panicked' = TRUE
    BY <1>2, <2>1
  <2>2. CASE /\ send' = [send EXCEPT ![c] = Append(@, <<"in", got[c]>>)]
             /\ reader' = [reader EXCEPT ![c] = "read"] /\ UNCHANGED panicked
    <3>1. got[c] \in Nat \ {0} /\ <<"in", got[c]>> \in Message
      BY <1>11 DEF Handle, Hands, TypeOK, Message
    <3>2. Gains(c, <<"in", got[c]>>)
      BY <1>11, <2>2, <3>1, GainsWhenSent DEF Handle, netVars
    <3>3. /\ Handled(c) = got[c] - 1 /\ Handled(c)' = got[c]
          /\ \A d \in Conn : d # c => Handled(d)' = Handled(d)
      BY <1>11, <2>2 DEF Handle, Handled, TypeOK
    <3> QED BY <1>11, <2>2, <3>1, <3>2, <3>3 DEF Handle, Answers, hubVars, netVars, castVars
  <2> QED BY <1>11, <2>1, <2>2 DEF Handle
<1>12. ASSUME NEW c \in Conn, ReadFails(c) PROVE Quiet
  <2>1. \A d \in Conn : Handled(d)' = Handled(d)
    BY <1>12 DEF ReadFails, Handled, TypeOK
  <2> QED BY <1>9, <1>12, <2>1 DEF ReadFails, hubVars
<1>13. ASSUME NEW c \in Conn, TakeMessage(c) PROVE Quiet
  <2>1. holding[c] = None /\ send[c] # <<>> /\ Head(send[c]) # None
    <3>1. Head(send[c]) \in Message
      BY <1>13, HeadTailProperties DEF TakeMessage, TypeOK
    <3>2. Head(send[c]) # None
      BY <3>1, NoneIsNoMessage
    <3> QED BY <1>13, <3>2 DEF TakeMessage, Hands
  <2>2. holding'[c] = Head(send[c]) /\ send'[c] = Tail(send[c]) /\ UNCHANGED received
    BY <1>13 DEF TakeMessage, TypeOK, netVars
  <2>3. Pipeline(c)' = Pipeline(c)
    BY <2>1, <2>2, PipelineTake
  <2>4. \A d \in Conn : d # c => holding'[d] = holding[d] /\ send'[d] = send[d]
    BY <1>13 DEF TakeMessage, TypeOK
  <2>5. \A d \in Conn : d # c => Pipeline(d)' = Pipeline(d)
    BY <2>2, <2>4 DEF Pipeline
  <2> QED BY <1>13, <2>3, <2>5
        DEF TakeMessage, Quiet, Still, Handled, hubVars, netVars, castVars
<1>14. ASSUME NEW c \in Conn, WriteMessage(c) PROVE Quiet
  <2>0. UNCHANGED send
    BY <1>14 DEF WriteMessage
  <2>1. \A d \in Conn : d # c => holding'[d] = holding[d] /\ received'[d] = received[d]
    BY <1>14 DEF WriteMessage, TypeOK
  <2>2. \A d \in Conn : d # c => Pipeline(d)' = Pipeline(d)
    BY <2>0, <2>1 DEF Pipeline
  <2>3. ASSUME link[c] = "up" PROVE Pipeline(c)' = Pipeline(c)
    <3>1. holding[c] # None /\ holding'[c] = None /\ UNCHANGED send
          /\ received'[c] = Append(received[c], holding[c])
      BY <1>14, <2>3 DEF WriteMessage, Hands, TypeOK
    <3> QED BY <3>1, PipelineWrite
  <2> QED BY <1>14, <2>2, <2>3 DEF WriteMessage, Quiet, Still, Handled, hubVars, castVars
<1>15. ASSUME NEW c \in Conn, WriteFails(c) PROVE Quiet
  <2>0. UNCHANGED <<received, send>>
    BY <1>15 DEF WriteFails, netVars
  <2>1. link[c] # "up"
    BY <1>15 DEF WriteFails, CloseSent, Healthy
  <2>2. \A d \in Conn : d # c => holding'[d] = holding[d]
    BY <1>15 DEF WriteFails, TypeOK
  <2>3. \A d \in Conn : d # c => Pipeline(d)' = Pipeline(d)
    BY <2>0, <2>2 DEF Pipeline
  <2> QED BY <1>15, <2>1, <2>3
        DEF WriteFails, Quiet, Still, Handled, hubVars, netVars, castVars
<1>16. ASSUME NEW c \in Conn, ReaderClosesWS(c) \/ WriterClosesWS(c) PROVE Quiet
  <2>1. \A d \in Conn : Handled(d)' = Handled(d)
    BY <1>16 DEF ReaderClosesWS, WriterClosesWS, Handled, TypeOK
  <2> QED BY <1>9, <1>16, <2>1 DEF ReaderClosesWS, WriterClosesWS, hubVars
<1>17. ASSUME NEW c \in Conn, ReaderClosesSend(c) \/ WriterClosesSend(c) PROVE Quiet
  <2>1. \A d \in Conn : Handled(d)' = Handled(d)
    BY <1>17 DEF ReaderClosesSend, WriterClosesSend, Handled, TypeOK
  <2>2. CASE UNCHANGED panicked
    BY <1>9, <1>17, <2>1, <2>2 DEF ReaderClosesSend, WriterClosesSend, hubVars
  <2>3. CASE panicked' = TRUE
    BY <1>2, <2>3
  <2> QED BY <1>17, <2>2, <2>3 DEF ReaderClosesSend, WriterClosesSend, CloseSend
<1> QED BY <1>3, <1>4, <1>5, <1>6, <1>7, <1>8, <1>10, <1>11, <1>12, <1>13, <1>14, <1>15,
           <1>16, <1>17 DEF Next, ReadPump, WritePump, Hub

-----------------------------------------------------------------------------
(* Answers *)

Ordered(c) == \A i, j \in DOMAIN Pipeline(c) :
                i < j /\ Pipeline(c)[i][1] = Pipeline(c)[j][1]
                  => Pipeline(c)[i][2] < Pipeline(c)[j][2]

Answered(c) == \A n \in 1..MaxInputs : OnTheWay(c, <<"in", n>>) <=> n <= Handled(c)

LEMMA EntryIsMessage ==
  ASSUME TypeOK, NEW c \in Conn, NEW i \in DOMAIN Pipeline(c)
  PROVE  /\ OnTheWay(c, Pipeline(c)[i])
         /\ \/ \E n \in 1..MaxInputs : Pipeline(c)[i] = <<"in", n>>
            \/ \E b \in Caster : \E k \in Nat \ {0} : Pipeline(c)[i] = <<b, k>>
<1>1. OnTheWay(c, Pipeline(c)[i])
  BY DEF OnTheWay, ToSet
<1>2. Pipeline(c) \in Seq(Message) /\ i \in 1..Len(Pipeline(c))
  BY PipelineType
<1>3. Pipeline(c)[i] \in Message
  BY <1>2, ElementOfSeq
<1> QED BY <1>1, <1>3, MessageKinds

\* A pipeline stays in order if what it gains is newer than what it has of that kind.
LEMMA OrderedAfter ==
  ASSUME NEW c \in Conn, NEW kind, NEW n, Gains(c, <<kind, n>>), Ordered(c),
         \A i \in DOMAIN Pipeline(c) : Pipeline(c)[i][1] = kind => Pipeline(c)[i][2] < n
  PROVE  Ordered(c)'
<1> DEFINE p == Pipeline(c)
           q == Pipeline(c)'
<1>1. /\ DOMAIN p = 1..Len(p) /\ Len(p) \in Nat /\ DOMAIN q = 1..Len(p) + 1
      /\ \A i \in DOMAIN p : q[i] = p[i]
      /\ q[Len(p) + 1] = <<kind, n>>
  BY DEF Gains
<1>2. \A i, j \in DOMAIN p : i < j /\ p[i][1] = p[j][1] => p[i][2] < p[j][2]
  BY DEF Ordered
<1>3. \A i \in DOMAIN p : p[i][1] = kind => p[i][2] < n
  OBVIOUS
<1> HIDE DEF p, q
<1>4. ASSUME NEW i \in DOMAIN q, NEW j \in DOMAIN q, i < j, q[i][1] = q[j][1]
      PROVE  q[i][2] < q[j][2]
  <2>1. i \in DOMAIN p /\ q[i] = p[i]
    BY <1>1, <1>4
  <2>2. CASE j \in DOMAIN p
    BY <1>1, <1>2, <1>4, <2>1, <2>2
  <2>3. CASE j = Len(p) + 1
    <3>1. q[j] = <<kind, n>>
      BY <1>1, <2>3
    <3> QED BY <1>3, <1>4, <2>1, <3>1
  <2> QED BY <1>1, <2>2, <2>3
<1> QED BY <1>4 DEF Ordered, p, q

LEMMA AnswersExactStep ==
  ASSUME Inv, Next
  PROVE  AnswersExact'
<1>0. TypeOK /\ Fresh /\ Stored
  BY DEF Inv, CastsAccounted
<1>1. \A c \in Conn : link[c] = "up" /\ ~panicked => Ordered(c) /\ Answered(c)
  BY DEF Inv, AnswersExact, Ordered, Answered
<1>2. SUFFICES ASSUME NEW d \in Conn, link'[d] = "up", ~panicked'
               PROVE  Ordered(d)' /\ Answered(d)'
  BY DEF AnswersExact, Ordered, Answered
<1>3. ASSUME link[d] = "up", ~panicked, Pipeline(d)' = Pipeline(d), Handled(d)' = Handled(d)
      PROVE  Ordered(d)' /\ Answered(d)'
  BY <1>1, <1>3 DEF Ordered, Answered, OnTheWay
<1>4. CASE Still
  BY <1>2, <1>3, <1>4 DEF Still
<1>5. ASSUME NEW c \in Conn, Answers(c) PROVE Ordered(d)' /\ Answered(d)'
  <2>1. link[d] = "up" /\ ~panicked
    BY <1>2, <1>5 DEF Answers
  <2>2. CASE d # c
    BY <1>3, <1>5, <2>1, <2>2 DEF Answers, Gains
  <2>3. CASE d = c
    <3>1. /\ Gains(d, <<"in", got[d]>>) /\ got[d] \in Nat \ {0}
          /\ Handled(d) = got[d] - 1 /\ Handled(d)' = got[d]
      BY <1>5, <2>3 DEF Answers
    <3>2. Ordered(d) /\ Answered(d)
      BY <1>1, <2>1
    <3>3. ASSUME NEW i \in DOMAIN Pipeline(d), Pipeline(d)[i][1] = "in"
          PROVE  Pipeline(d)[i][2] < got[d]
      <4>1. PICK n \in 1..MaxInputs : Pipeline(d)[i] = <<"in", n>> /\ OnTheWay(d, <<"in", n>>)
        BY <1>0, <3>3, EntryIsMessage, CasterAssumption
      <4>2. n <= got[d] - 1
        BY <3>1, <3>2, <4>1 DEF Answered
      <4>3. n < got[d]
        BY <3>1, <4>2
      <4> QED BY <4>1, <4>3
    <3>4. Ordered(d)'
      BY <3>1, <3>2, <3>3, OrderedAfter
    <3>5. ASSUME NEW n \in 1..MaxInputs PROVE OnTheWay(d, <<"in", n>>)' <=> n <= got[d]
      <4>1. OnTheWay(d, <<"in", n>>)' <=> OnTheWay(d, <<"in", n>>) \/ <<"in", n>> = <<"in", got[d]>>
        BY <3>1 DEF Gains
      <4>2. <<"in", n>> = <<"in", got[d]>> <=> n = got[d]
        OBVIOUS
      <4>3. OnTheWay(d, <<"in", n>>) <=> n <= got[d] - 1
        BY <3>1, <3>2 DEF Answered
      <4>4. n <= got[d] <=> n <= got[d] - 1 \/ n = got[d]
        BY <3>1
      <4> QED BY <4>1, <4>2, <4>3, <4>4
    <3> QED BY <3>1, <3>4, <3>5 DEF Answered
  <2> QED BY <2>2, <2>3
<1>6. ASSUME NEW b \in Caster, NEW c \in Conn, Casts(b, c) PROVE Ordered(d)' /\ Answered(d)'
  <2>1. link[d] = "up" /\ ~panicked
    BY <1>2, <1>6 DEF Casts
  <2>2. CASE d # c
    BY <1>3, <1>6, <2>1, <2>2 DEF Casts, Gains
  <2>3. CASE d = c
    <3>1. Gains(d, <<b, casts[b]>>) /\ d \in todo[b] /\ Handled(d)' = Handled(d)
      BY <1>6, <2>3 DEF Casts
    <3>2. Ordered(d) /\ Answered(d)
      BY <1>1, <2>1
    <3>3. ASSUME NEW i \in DOMAIN Pipeline(d), Pipeline(d)[i][1] = b
          PROVE  Pipeline(d)[i][2] < casts[b]
      <4>1. b # "in"
        BY CasterAssumption
      <4>2. PICK k \in Nat \ {0} : Pipeline(d)[i] = <<b, k>> /\ OnTheWay(d, <<b, k>>)
        BY <1>0, <3>3, <4>1, EntryIsMessage
      <4>3. k < casts[b]
        BY <1>0, <2>1, <3>1, <4>2 DEF Fresh
      <4> QED BY <4>2, <4>3
    <3>4. Ordered(d)'
      BY <3>1, <3>2, <3>3, OrderedAfter
    <3>5. ASSUME NEW n \in 1..MaxInputs
          PROVE  OnTheWay(d, <<"in", n>>)' <=> OnTheWay(d, <<"in", n>>)
      <4>1. <<"in", n>> # <<b, casts[b]>>
        BY KindsDiffer
      <4> QED BY <3>1, <4>1 DEF Gains
    <3> QED BY <3>1, <3>2, <3>4, <3>5 DEF Answered
  <2> QED BY <2>2, <2>3
<1>7. ASSUME NEW b \in Caster, NEW c \in Conn, Turns(b, c) PROVE Ordered(d)' /\ Answered(d)'
  BY <1>4, <1>7 DEF Turns
<1> QED BY <1>4, <1>5, <1>6, <1>7, PipeCases DEF Quiet

-----------------------------------------------------------------------------
(* Broadcasts *)

LEMMA FreshStep ==
  ASSUME Inv, Next
  PROVE  Fresh'
<1>0. TypeOK /\ Fresh /\ Stored
  BY DEF Inv, CastsAccounted
<1>1. SUFFICES ASSUME NEW d \in Conn, link'[d] = "up", ~panicked', NEW a \in Caster,
                      NEW k \in Nat \ {0}, OnTheWay(d, <<a, k>>)'
               PROVE  d \in connMap' /\ k <= casts'[a] /\ (d \in todo'[a] => k < casts'[a])
  BY DEF Fresh
<1>2. ASSUME link[d] = "up", ~panicked, OnTheWay(d, <<a, k>>)
      PROVE  d \in connMap /\ k <= casts[a] /\ (d \in todo[a] => k < casts[a])
  BY <1>0, <1>2 DEF Fresh
<1>3. ASSUME Still PROVE d \in connMap /\ k <= casts[a] /\ (d \in todo[a] => k < casts[a])
  BY <1>1, <1>2, <1>3 DEF Still, OnTheWay
<1>4. CASE Quiet
  BY <1>1, <1>3, <1>4 DEF Quiet
<1>5. CASE HubStore /\ Still
  <2>1. d \in connMap /\ k <= casts[a] /\ (d \in todo[a] => k < casts[a])
    BY <1>3, <1>5
  <2>2. d \notin storing
    BY <1>0, <2>1 DEF Stored
  <2>3. connMap \subseteq connMap' /\ casts' = casts /\ (d \in todo'[a] => d \in todo[a])
    BY <1>5, <2>2 DEF HubStore
  <2> QED BY <2>1, <2>3
<1>6. ASSUME NEW b \in Caster, CastStart(b), Still
      PROVE  d \in connMap' /\ k <= casts'[a] /\ (d \in todo'[a] => k < casts'[a])
  <2>1. d \in connMap /\ k <= casts[a] /\ (d \in todo[a] => k < casts[a])
    BY <1>3, <1>6
  <2>2. connMap' = connMap /\ casts[a] \in Nat
    BY <1>0, <1>6 DEF CastStart, TypeOK, hubVars
  <2>3. CASE a = b
    <3>1. casts'[a] = casts[a] + 1
      BY <1>0, <1>6, <2>3 DEF CastStart, TypeOK
    <3> QED BY <2>1, <2>2, <3>1
  <2>4. CASE a # b
    <3>1. casts'[a] = casts[a] /\ todo'[a] = todo[a]
      BY <1>0, <1>6, <2>4 DEF CastStart, TypeOK
    <3> QED BY <2>1, <2>2, <3>1
  <2> QED BY <2>3, <2>4
<1>7. ASSUME NEW c \in Conn, Answers(c)
      PROVE  d \in connMap' /\ k <= casts'[a] /\ (d \in todo'[a] => k < casts'[a])
  <2>1. <<a, k>> # <<"in", got[c]>>
    BY KindsDiffer
  <2>2. OnTheWay(d, <<a, k>>)
    BY <1>1, <1>7, <2>1 DEF Answers, Gains, OnTheWay
  <2> QED BY <1>1, <1>2, <1>7, <2>2 DEF Answers
<1>8. ASSUME NEW b \in Caster, NEW c \in Conn, Casts(b, c)
      PROVE  d \in connMap' /\ k <= casts'[a] /\ (d \in todo'[a] => k < casts'[a])
  <2>0. todo'[a] \subseteq todo[a] /\ c \notin todo'[b]
    BY <1>0, <1>8 DEF Casts, TypeOK
  <2>1. CASE OnTheWay(d, <<a, k>>)
    BY <1>1, <1>2, <1>8, <2>0, <2>1 DEF Casts
  <2>2. CASE ~OnTheWay(d, <<a, k>>)
    <3>1. d = c /\ <<a, k>> = <<b, casts[b]>>
      BY <1>1, <1>8, <2>2 DEF Casts, Gains, OnTheWay
    <3>2. a = b /\ k = casts[b] /\ casts[b] \in Nat
      BY <1>0, <3>1 DEF TypeOK
    <3> QED BY <1>0, <1>8, <2>0, <3>1, <3>2 DEF Casts, Stored
  <2> QED BY <2>1, <2>2
<1>9. ASSUME NEW b \in Caster, NEW c \in Conn, Turns(b, c)
      PROVE  d \in connMap' /\ k <= casts'[a] /\ (d \in todo'[a] => k < casts'[a])
  <2>1. todo'[a] \subseteq todo[a]
    BY <1>0, <1>9 DEF Turns, TypeOK
  <2> QED BY <1>3, <1>9, <2>1 DEF Turns
<1> QED BY <1>4, <1>5, <1>6, <1>7, <1>8, <1>9, PipeCases

\* Broadcast k of a has come by d, or is on its way there.
Served(d, a, k) == OnTheWay(d, <<a, k>>) \/ <<a, k>> \in dropped[d]

LEMMA CastsAccountedStep ==
  ASSUME Inv, Next
  PROVE  CastsAccounted'
<1>0. TypeOK /\ Stored /\ TypeOK'
  BY TypeStep DEF Inv, CastsAccounted
<1>1. ASSUME NEW d \in connMap, link[d] = "up", ~panicked, NEW a \in Caster,
             NEW k \in since[d][a] + 1 .. casts[a], k < casts[a] \/ d \notin todo[a]
      PROVE  Served(d, a, k)
  BY <1>1 DEF Inv, CastsAccounted, Served
<1>2. SUFFICES ASSUME NEW d \in connMap', link'[d] = "up", ~panicked', NEW a \in Caster,
                      NEW k \in since'[d][a] + 1 .. casts'[a],
                      k < casts'[a] \/ d \notin todo'[a]
               PROVE  Served(d, a, k)'
  BY <1>0 DEF CastsAccounted, Served
<1>3. /\ d \in Conn /\ since[d][a] \in Nat /\ since'[d][a] \in Nat
      /\ casts[a] \in Nat /\ casts'[a] \in Nat
  BY <1>0 DEF TypeOK
<1>4. ASSUME Served(d, a, k), Still, dropped[d] \subseteq dropped'[d] PROVE Served(d, a, k)'
  BY <1>2, <1>3, <1>4 DEF Served, Still, OnTheWay
<1>5. CASE Quiet
  <2>1. UNCHANGED <<connMap, todo, casts, since, dropped>> /\ Still
    BY <1>2, <1>5 DEF Quiet
  <2>2. link[d] = "up" /\ ~panicked
    BY <1>2, <1>3, <2>1 DEF Still
  <2> QED BY <1>1, <1>2, <1>4, <2>1, <2>2
<1>6. CASE HubStore /\ Still
  <2>1. link[d] = "up" /\ ~panicked
    BY <1>2, <1>3, <1>6 DEF Still
  <2>2. CASE d \in storing
    <3>1. since'[d] = casts /\ casts' = casts
      BY <1>3, <1>6, <2>2 DEF HubStore
    <3> QED BY <1>2, <1>3, <3>1
  <2>3. CASE d \notin storing
    <3>1. d \in connMap /\ since'[d] = since[d] /\ casts' = casts /\ dropped' = dropped
          /\ (d \in todo[a] => d \in todo'[a])
      BY <1>2, <1>3, <1>6, <2>3 DEF HubStore
    <3> QED BY <1>1, <1>2, <1>4, <1>6, <2>1, <3>1
  <2> QED BY <2>2, <2>3
<1>7. ASSUME NEW b \in Caster, CastStart(b), Still PROVE Served(d, a, k)'
  <2>1. link[d] = "up" /\ ~panicked
    BY <1>2, <1>3, <1>7 DEF Still
  <2>2. connMap' = connMap /\ UNCHANGED <<since, dropped>>
    BY <1>7 DEF CastStart, hubVars
  <2>3. CASE a = b
    <3>1. todo[a] = {} /\ todo'[a] = connMap /\ casts'[a] = casts[a] + 1
      BY <1>0, <1>7, <2>3 DEF CastStart, TypeOK
    <3>2. k \in since[d][a] + 1 .. casts[a]
      BY <1>2, <1>3, <2>2, <3>1
    <3> QED BY <1>1, <1>2, <1>4, <1>7, <2>1, <2>2, <3>1, <3>2
  <2>4. CASE a # b
    <3>1. todo'[a] = todo[a] /\ casts'[a] = casts[a]
      BY <1>0, <1>7, <2>4 DEF CastStart, TypeOK
    <3> QED BY <1>1, <1>2, <1>4, <1>7, <2>1, <2>2, <3>1
  <2> QED BY <2>3, <2>4
<1>8. ASSUME NEW c \in Conn, Answers(c) PROVE Served(d, a, k)'
  <2>1. link[d] = "up" /\ ~panicked /\ UNCHANGED <<connMap, todo, casts, since, dropped>>
    BY <1>2, <1>8 DEF Answers
  <2>2. Served(d, a, k)
    BY <1>1, <1>2, <2>1
  <2>3. OnTheWay(d, <<a, k>>) => OnTheWay(d, <<a, k>>)'
    BY <1>3, <1>8 DEF Answers, Gains, OnTheWay
  <2> QED BY <2>1, <2>2, <2>3 DEF Served
<1>9. ASSUME NEW b \in Caster, NEW c \in Conn, Casts(b, c) PROVE Served(d, a, k)'
  <2>1. link[d] = "up" /\ ~panicked /\ UNCHANGED <<connMap, casts, since, dropped>>
    BY <1>2, <1>9 DEF Casts
  <2>0. d \in todo[a] /\ d \notin todo'[a] => a = b /\ d = c
    BY <1>0, <1>9 DEF Casts, TypeOK
  <2>2. CASE k < casts[a] \/ d \notin todo[a]
    <3>1. Served(d, a, k)
      BY <1>1, <1>2, <2>1, <2>2
    <3>2. OnTheWay(d, <<a, k>>) => OnTheWay(d, <<a, k>>)'
      BY <1>3, <1>9 DEF Casts, Gains, OnTheWay
    <3> QED BY <2>1, <3>1, <3>2 DEF Served
  <2>3. CASE ~(k < casts[a]) /\ d \in todo[a]
    <3>1. a = b /\ d = c /\ k = casts[a]
      BY <1>2, <1>3, <2>0, <2>1, <2>3
    <3>2. OnTheWay(d, <<a, k>>)'
      BY <1>9, <3>1 DEF Casts, Gains
    <3> QED BY <3>2 DEF Served
  <2> QED BY <2>2, <2>3
<1>10. ASSUME NEW b \in Caster, NEW c \in Conn, Turns(b, c) PROVE Served(d, a, k)'
  <2>1. Still /\ UNCHANGED <<connMap, casts, since>>
        /\ dropped' = [dropped EXCEPT ![c] = @ \cup {<<b, casts[b]>>}]
    BY <1>10 DEF Turns
  <2>0. d \in todo[a] /\ d \notin todo'[a] => a = b /\ d = c
    BY <1>0, <1>10 DEF Turns, TypeOK
  <2>2. dropped[d] \subseteq dropped'[d] /\ <<b, casts[b]>> \in dropped'[c]
    BY <1>0, <1>3, <2>1 DEF TypeOK
  <2>3. link[d] = "up" /\ ~panicked
    BY <1>2, <1>3, <2>1 DEF Still
  <2>4. CASE k < casts[a] \/ d \notin todo[a]
    BY <1>1, <1>2, <1>4, <2>1, <2>2, <2>3, <2>4
  <2>5. CASE ~(k < casts[a]) /\ d \in todo[a]
    <3>1. a = b /\ d = c /\ k = casts[a]
      BY <1>2, <1>3, <2>0, <2>1, <2>5
    <3> QED BY <2>2, <3>1 DEF Served
  <2> QED BY <2>4, <2>5
<1> QED BY <1>5, <1>6, <1>7, <1>8, <1>9, <1>10, PipeCases

-----------------------------------------------------------------------------
(* The theorems *)

LEMMA InvInit == Init => Inv
<1> SUFFICES ASSUME Init PROVE Inv
  OBVIOUS
<1>1. TypeOK
  <2>1. <<>> \in Seq(Message) /\ Len(<<>>) = 0
    BY EmptySeq
  <2>2. /\ wsClosed \in [Conn -> BOOLEAN] /\ closed \in [Conn -> BOOLEAN]
        /\ panicked \in BOOLEAN
    BY DEF Init
  <2>3. 0 \in 0..MaxInputs /\ 0 <= SendCap
    BY SendCapAssumption, BoundsAssumption
  <2>4. /\ sent \in [Conn -> 0..MaxInputs] /\ got \in [Conn -> 0..MaxInputs]
        /\ since \in [Conn -> [Caster -> Nat]] /\ casts \in [Caster -> Nat]
    BY <2>3 DEF Init
  <2>5. /\ send \in [Conn -> Seq(Message)] /\ received \in [Conn -> Seq(Message)]
        /\ \A c \in Conn : Len(send[c]) <= SendCap
    BY <2>1, <2>3 DEF Init
  <2>6. /\ phase \in [Conn -> {"none", "offered", "running"}]
        /\ link \in [Conn -> {"up", "over", "down"}]
        /\ reader \in [Conn -> PumpState \cup {"read", "handle"}]
        /\ writer \in [Conn -> PumpState \cup {"select", "write"}]
        /\ holding \in [Conn -> Message \cup {None}]
        /\ dropped \in [Conn -> SUBSET Cast]
    BY DEF Init, PumpState
  <2>7. storing \subseteq Conn /\ connMap \subseteq Conn /\ todo \in [Caster -> SUBSET Conn]
    BY DEF Init
  <2> QED BY <2>2, <2>4, <2>5, <2>6, <2>7 DEF TypeOK
<1>2. Healthy /\ Hands /\ Stored /\ PanicNeedsFailure
  BY DEF Init, Healthy, Hands, Stored, PanicNeedsFailure
<1>3. \A c \in Conn : Pipeline(c) = <<>> /\ Handled(c) = 0
  BY ConcatEmptySeq DEF Init, Pipeline, Handled
<1>4. \A c \in Conn : DOMAIN Pipeline(c) = {} /\ \A m : ~OnTheWay(c, m)
  BY <1>3 DEF OnTheWay, ToSet
<1>5. Fresh
  BY <1>4 DEF Fresh
<1>6. AnswersExact
  BY <1>3, <1>4 DEF AnswersExact
<1>7. CastsAccounted
  BY <1>1 DEF CastsAccounted, Init
<1> QED BY <1>2, <1>5, <1>6, <1>7 DEF Inv

LEMMA InvStutter ==
  ASSUME Inv, UNCHANGED vars
  PROVE  Inv'
<1>1. \A c \in Conn : Pipeline(c)' = Pipeline(c) /\ Handled(c)' = Handled(c)
  BY DEF vars, netVars, Pipeline, Handled
<1>2. \A c \in Conn : \A m : OnTheWay(c, m)' <=> OnTheWay(c, m)
  BY <1>1 DEF OnTheWay
<1>3. Healthy' /\ Hands' /\ Stored' /\ PanicNeedsFailure'
  BY DEF Inv, Healthy, Hands, Stored, PanicNeedsFailure, vars, hubVars, netVars, castVars
<1>4. TypeOK'
  BY DEF Inv, CastsAccounted, TypeOK, vars, hubVars, netVars, castVars
<1>5. Fresh'
  BY <1>2 DEF Inv, Fresh, vars, hubVars, netVars, castVars
<1>6. AnswersExact'
  BY <1>1, <1>2 DEF Inv, AnswersExact, vars, netVars
<1>7. CastsAccounted'
  <2>1. \A c \in connMap : c \in Conn
    BY DEF Inv, CastsAccounted, TypeOK
  <2> QED BY <1>2, <1>4, <2>1 DEF Inv, CastsAccounted, vars, hubVars, netVars, castVars
<1> QED BY <1>3, <1>5, <1>6, <1>7 DEF Inv

\* The invariant of the hub and the pumps holds in every reachable state.
THEOREM Invariance == Spec => []Inv
<1>1. Inv /\ [Next]_vars => Inv'
  <2>1. ASSUME Inv, Next PROVE Inv'
    BY <2>1, HealthyStep, HandsStep, StoredStep, PanicStep, AnswersExactStep, FreshStep,
       CastsAccountedStep DEF Inv
  <2> QED BY <2>1, InvStutter
<1> QED BY <1>1, InvInit, PTL DEF Spec

\* Until a panic, a client whose link is up and who keeps to the read limit gets exactly
\* one answer to every input that ReadPump has handled, in order, and the broadcasts of
\* each goroutine in the order of its calls of Hub.Broadcast, although the calls of
\* several goroutines overlap and push into the same Send channel.
THEOREM AnswersAreExact == Spec => []AnswersExact
<1>1. Inv => AnswersExact
  BY DEF Inv
<1> QED BY <1>1, Invariance, PTL

\* Until a panic, a broadcast reaches every stored connection whose link is up,
\* or its select found that connection's Send full, also when broadcasts overlap.
THEOREM CastsAreAccounted == Spec => []CastsAccounted
<1>1. Inv => CastsAccounted
  BY DEF Inv
<1> QED BY <1>1, Invariance, PTL

\* The double close and the send on a closed channel need a failed link or a client
\* that has exceeded the read limit of conn.go:36.
THEOREM PanicsNeedFailures == Spec => []PanicNeedsFailure
<1>1. Inv => PanicNeedsFailure
  BY DEF Inv
<1> QED BY <1>1, Invariance, PTL

=============================================================================
