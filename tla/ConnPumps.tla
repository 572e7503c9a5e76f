------------------------------ MODULE ConnPumps ------------------------------
(***************************************************************************)
(* The WebSocket side of the gateway (server/conn.go, server/server.go):   *)
(* the hub goroutine that stores connections, the two pump goroutines of   *)
(* every connection joined by its Send channel, and Hub.Broadcast.         *)
(*                                                                         *)
(* A message is an input the client sent, <<"in", i>>, answered on the     *)
(* same connection, or the k-th broadcast of a goroutine b, <<b, k>>: the  *)
(* router's output frames and slow warnings and the maintenance frames of  *)
(* the signal loop.  Hub.Broadcast takes no lock, so the broadcasts of two *)
(* goroutines overlap.  What the risk check makes of an input is one       *)
(* answer to it, and nothing here depends on its bytes.  A panic of any    *)
(* goroutine ends the process.                                             *)
(***************************************************************************)
EXTENDS Naturals, Sequences, SequencesExt

CONSTANTS Conn,       \* connections
          Fragile,    \* those whose link or client may misbehave
          Talker,     \* bound: those whose client sends inputs
          Caster,     \* goroutines that call Hub.Broadcast
          SendCap,    \* capacity of Conn.Send (256 in the code)
          MaxInputs,  \* bound: inputs a client sends
          MaxCasts    \* bound: how often each goroutine broadcasts, one or more cases

ASSUME SendCapAssumption == SendCap \in Nat \ {0}
ASSUME FragileAssumption == Fragile \subseteq Conn /\ Talker \subseteq Conn
ASSUME CasterAssumption == "in" \notin Caster /\ "none" \notin Caster
ASSUME BoundsAssumption == MaxInputs \in Nat /\ MaxCasts \subseteq [Caster -> Nat]

VARIABLES phase,    \* HandleWS: none, offered (blocked on Register), running
          storing,  \* connections Hub.Run has received and not yet stored
          connMap,  \* Hub.ConnMap
          link,     \* the network and the peer: up, over (up, but the client has
                    \* sent a message beyond the read limit), down
          wsClosed, \* WS.Close was called on this side
          sent,     \* inputs the client has sent
          reader,   \* ReadPump: off, read, handle, defer, close, done
          got,      \* inputs ReadMessage has returned
          writer,   \* WritePump: off, select, write, defer, close, done
          holding,  \* the message WritePump is writing
          send,     \* the buffered messages of Conn.Send
          closed,   \* Conn.Send is closed
          todo,     \* connections each running Broadcast has still to visit
          casts,    \* broadcasts each goroutine has started
          panicked, \* a goroutine has panicked
          received, \* history: what the client has received
          dropped,  \* history: broadcasts a full Send turned away
          since     \* history: casts when the hub stored it

hubVars == <<phase, storing, connMap>>
netVars == <<link, sent, received>>
castVars == <<todo, casts, dropped, since>>
vars == <<hubVars, netVars, wsClosed, reader, got, writer, holding, send,
          closed, castVars, panicked>>

None == <<"none", 0>>

\* What is broadcast: a frame of aggregate or sendSlowWarning, or of BroadcastMaintenance.
Cast == Caster \X (Nat \ {0})
Message == ({"in"} \X (1..MaxInputs)) \cup Cast
PumpState == {"off", "defer", "close", "done"}

TypeOK == /\ phase \in [Conn -> {"none", "offered", "running"}]
          /\ storing \subseteq Conn /\ connMap \subseteq Conn
          /\ link \in [Conn -> {"up", "over", "down"}]
          /\ wsClosed \in [Conn -> BOOLEAN]
          /\ sent \in [Conn -> 0..MaxInputs] /\ got \in [Conn -> 0..MaxInputs]
          /\ reader \in [Conn -> PumpState \cup {"read", "handle"}]
          /\ writer \in [Conn -> PumpState \cup {"select", "write"}]
          /\ holding \in [Conn -> Message \cup {None}]
          /\ send \in [Conn -> Seq(Message)]
          /\ \A c \in Conn : Len(send[c]) <= SendCap
          /\ closed \in [Conn -> BOOLEAN]
          /\ todo \in [Caster -> SUBSET Conn] /\ casts \in [Caster -> Nat]
          /\ panicked \in BOOLEAN
          /\ received \in [Conn -> Seq(Message)]
          /\ dropped \in [Conn -> SUBSET Cast]
          /\ since \in [Conn -> [Caster -> Nat]]

Init == /\ phase = [c \in Conn |-> "none"]
        /\ storing = {} /\ connMap = {}
        /\ link = [c \in Conn |-> "up"]
        /\ wsClosed = [c \in Conn |-> FALSE]
        /\ sent = [c \in Conn |-> 0] /\ got = [c \in Conn |-> 0]
        /\ reader = [c \in Conn |-> "off"] /\ writer = [c \in Conn |-> "off"]
        /\ holding = [c \in Conn |-> None]
        /\ send = [c \in Conn |-> <<>>]
        /\ closed = [c \in Conn |-> FALSE]
        /\ todo = [b \in Caster |-> {}] /\ casts = [b \in Caster |-> 0]
        /\ panicked = FALSE
        /\ received = [c \in Conn |-> <<>>]
        /\ dropped = [c \in Conn |-> {}]
        /\ since = [c \in Conn |-> [b \in Caster |-> 0]]

-----------------------------------------------------------------------------
(* The client and the network *)

ClientSends(c) == /\ ~panicked /\ phase[c] # "none" /\ link[c] = "up" /\ ~wsClosed[c]
                  /\ c \in Talker /\ sent[c] < MaxInputs
                  /\ sent' = [sent EXCEPT ![c] = @ + 1]
                  /\ UNCHANGED <<hubVars, link, received, wsClosed, reader, got,
                                 writer, holding, send, closed, castVars, panicked>>

\* The peer disappears, closes, or stops answering pings.
LinkFails(c) == /\ ~panicked /\ c \in Fragile
                /\ phase[c] # "none" /\ link[c] = "up"
                /\ link' = [link EXCEPT ![c] = "down"]
                /\ UNCHANGED <<hubVars, sent, received, wsClosed, reader, got,
                               writer, holding, send, closed, castVars, panicked>>

\* The client sends a message of more than 65535 bytes, its last one that matters.
\* (That its link may go down as well adds nothing: the connection is ending.)
ClientOversize(c) == /\ ~panicked /\ c \in Fragile
                     /\ phase[c] # "none" /\ link[c] = "up" /\ ~wsClosed[c]
                     /\ link' = [link EXCEPT ![c] = "over"]
                     /\ UNCHANGED <<hubVars, sent, received, wsClosed, reader, got,
                                    writer, holding, send, closed, castVars, panicked>>

-----------------------------------------------------------------------------
(* HandleWS and the hub *)

\* The upgrade succeeded; HandleWS blocks in Register <- conn.
Offer(c) == /\ ~panicked /\ phase[c] = "none"
            /\ phase' = [phase EXCEPT ![c] = "offered"]
            /\ UNCHANGED <<storing, connMap, netVars, wsClosed, reader, got,
                           writer, holding, send, closed, castVars, panicked>>

\* Hub.Run takes the connection; HandleWS goes on and starts both pumps before
\* or after the hub has stored it.
HubReceive(c) == /\ ~panicked /\ phase[c] = "offered" /\ storing = {}
                 /\ storing' = {c}
                 /\ phase' = [phase EXCEPT ![c] = "running"]
                 /\ reader' = [reader EXCEPT ![c] = "read"]
                 /\ writer' = [writer EXCEPT ![c] = "select"]
                 /\ UNCHANGED <<connMap, netVars, wsClosed, got, holding, send,
                                closed, castVars, panicked>>

\* The rest of the Register case: the entry appears in ConnMap.  Every Range that
\* is under way may or may not reach it.
HubStore == /\ ~panicked /\ storing # {}
            /\ connMap' = connMap \cup storing
            /\ storing' = {}
            /\ \E B \in SUBSET {b \in Caster : todo[b] # {}} :
                 todo' = [b \in Caster |-> IF b \in B THEN todo[b] \cup storing ELSE todo[b]]
            /\ since' = [c \in Conn |-> IF c \in storing THEN casts ELSE since[c]]
            /\ UNCHANGED <<phase, netVars, wsClosed, reader, got, writer, holding,
                           send, closed, casts, dropped, panicked>>

\* Goroutine b calls Hub.Broadcast, which starts its Range, whatever other
\* goroutines are broadcasting.
CastStart(b) == /\ ~panicked /\ todo[b] = {} /\ connMap # {}
                /\ \E m \in MaxCasts : casts[b] < m[b] /\ \A a \in Caster : casts[a] <= m[a]
                /\ casts' = [casts EXCEPT ![b] = @ + 1]
                /\ todo' = [todo EXCEPT ![b] = connMap]
                /\ UNCHANGED <<hubVars, netVars, wsClosed, reader, got, writer, holding,
                               send, closed, dropped, since, panicked>>

\* Faulty variant of CastVisit: a full channel loses its oldest message.
CastVisit_DropOldest(b, c) ==
  /\ ~panicked /\ c \in todo[b]
  /\ todo' = [todo EXCEPT ![b] = @ \ {c}]
  /\ \/ /\ closed[c]
        /\ panicked' = TRUE
        /\ UNCHANGED <<send, dropped>>
     \/ /\ ~closed[c]
        /\ send' = [send EXCEPT ![c] =
                      Append(IF Len(@) < SendCap THEN @ ELSE Tail(@), <<b, casts[b]>>)]
        /\ UNCHANGED <<dropped, panicked>>
  /\ UNCHANGED <<hubVars, netVars, wsClosed, reader, got, writer, holding, closed, casts,
                 since>>

\* select with default: send if there is room, drop if not, and panic if the
\* channel is closed.
CastVisit(b, c) ==
  /\ ~panicked /\ c \in todo[b]
  /\ todo' = [todo EXCEPT ![b] = @ \ {c}]
  /\ \/ /\ closed[c]
        /\ panicked' = TRUE
        /\ UNCHANGED <<send, dropped>>
     \/ /\ ~closed[c] /\ Len(send[c]) < SendCap
        /\ send' = [send EXCEPT ![c] = Append(@, <<b, casts[b]>>)]
        /\ UNCHANGED <<dropped, panicked>>
     \/ /\ ~closed[c] /\ Len(send[c]) = SendCap
        /\ dropped' = [dropped EXCEPT ![c] = @ \cup {<<b, casts[b]>>}]
        /\ UNCHANGED <<send, panicked>>
  /\ UNCHANGED <<hubVars, netVars, wsClosed, reader, got, writer, holding, closed, casts,
                 since>>

-----------------------------------------------------------------------------
(* ReadPump *)

ReadMessage(c) == /\ ~panicked /\ reader[c] = "read"
                  /\ ~wsClosed[c] /\ got[c] < sent[c]
                  /\ got' = [got EXCEPT ![c] = @ + 1]
                  /\ reader' = [reader EXCEPT ![c] = "handle"]
                  /\ UNCHANGED <<hubVars, netVars, wsClosed, writer, holding, send,
                                 closed, castVars, panicked>>

\* Faulty variant of Handle: the answer is dropped when the channel is full.
Handle_NonBlocking(c) ==
  /\ ~panicked /\ reader[c] = "handle"
  /\ \/ /\ closed[c]
        /\ panicked' = TRUE
        /\ UNCHANGED <<reader, send>>
     \/ /\ ~closed[c]
        /\ send' = [send EXCEPT ![c] = IF Len(@) < SendCap
                                         THEN Append(@, <<"in", got[c]>>) ELSE @]
        /\ reader' = [reader EXCEPT ![c] = "read"]
        /\ UNCHANGED panicked
  /\ UNCHANGED <<hubVars, netVars, wsClosed, got, writer, holding, closed, castVars>>

\* The handler answers with conn.Send <- output: it blocks while the channel is
\* full and panics when it is closed.
Handle(c) == /\ ~panicked /\ reader[c] = "handle"
             /\ \/ /\ closed[c]
                   /\ panicked' = TRUE
                   /\ UNCHANGED <<reader, send>>
                \/ /\ ~closed[c] /\ Len(send[c]) < SendCap
                   /\ send' = [send EXCEPT ![c] = Append(@, <<"in", got[c]>>)]
                   /\ reader' = [reader EXCEPT ![c] = "read"]
                   /\ UNCHANGED panicked
             /\ UNCHANGED <<hubVars, netVars, wsClosed, got, writer, holding, closed,
                            castVars>>

\* Faulty variant of ReadFails: an idle client is taken for a dead one.
ReadFails_Idle(c) == /\ ~panicked /\ reader[c] = "read"
                     /\ (link[c] = "down" \/ wsClosed[c] \/ got[c] = sent[c])
                     /\ reader' = [reader EXCEPT ![c] = "defer"]
                     /\ UNCHANGED <<hubVars, netVars, wsClosed, got, writer, holding,
                                    send, closed, castVars, panicked>>

\* ReadMessage returns an error: the link is down, the socket closed, or the next
\* message is one beyond the limit that SetReadLimit has set.
ReadFails(c) == /\ ~panicked /\ reader[c] = "read"
                /\ \/ link[c] = "down" \/ wsClosed[c]
                   \/ link[c] = "over" /\ got[c] = sent[c]
                /\ reader' = [reader EXCEPT ![c] = "defer"]
                /\ UNCHANGED <<hubVars, netVars, wsClosed, got, writer, holding,
                               send, closed, castVars, panicked>>

-----------------------------------------------------------------------------
(* WritePump *)

\* Faulty variant of TakeMessage: a lock that the handler holds while it sends.
TakeMessage_Locked(c) ==
  /\ ~panicked /\ writer[c] = "select" /\ send[c] # <<>> /\ reader[c] # "handle"
  /\ holding' = [holding EXCEPT ![c] = Head(send[c])]
  /\ send' = [send EXCEPT ![c] = Tail(@)]
  /\ writer' = [writer EXCEPT ![c] = "write"]
  /\ UNCHANGED <<hubVars, netVars, wsClosed, reader, got, closed, castVars, panicked>>

TakeMessage(c) == /\ ~panicked /\ writer[c] = "select" /\ send[c] # <<>>
                  /\ holding' = [holding EXCEPT ![c] = Head(send[c])]
                  /\ send' = [send EXCEPT ![c] = Tail(@)]
                  /\ writer' = [writer EXCEPT ![c] = "write"]
                  /\ UNCHANGED <<hubVars, netVars, wsClosed, reader, got, closed,
                                 castVars, panicked>>

\* A write to a link that is down may still be taken by the kernel, and is lost.
WriteMessage(c) == /\ ~panicked /\ writer[c] = "write" /\ ~wsClosed[c]
                   /\ writer' = [writer EXCEPT ![c] = "select"]
                   /\ received' = IF link[c] # "down"
                                    THEN [received EXCEPT ![c] = Append(@, holding[c])]
                                    ELSE received
                   /\ holding' = [holding EXCEPT ![c] = None]
                   /\ UNCHANGED <<hubVars, link, sent, wsClosed, reader, got, send,
                                  closed, castVars, panicked>>

\* The library has answered an oversize message with a close message of its own,
\* after which writes fail (unless it could not send it in time).
CloseSent(c) == link[c] = "over" /\ reader[c] \in {"defer", "close", "done"}

\* A failed write, a failed ping, or a closed channel ends the loop.
WriteFails(c) == /\ ~panicked
                 /\ \/ writer[c] \in {"select", "write"}
                       /\ (link[c] = "down" \/ wsClosed[c] \/ CloseSent(c))
                    \/ writer[c] = "select" /\ send[c] = <<>> /\ closed[c]
                 /\ writer' = [writer EXCEPT ![c] = "defer"]
                 /\ holding' = [holding EXCEPT ![c] = None]
                 /\ UNCHANGED <<hubVars, netVars, wsClosed, reader, got, send, closed,
                                castVars, panicked>>

-----------------------------------------------------------------------------
(* The deferred functions of both pumps: WS.Close, then close(c.Send) *)

ReaderClosesWS(c) == /\ ~panicked /\ reader[c] = "defer"
                     /\ wsClosed' = [wsClosed EXCEPT ![c] = TRUE]
                     /\ reader' = [reader EXCEPT ![c] = "close"]
                     /\ UNCHANGED <<hubVars, netVars, got, writer, holding, send,
                                    closed, castVars, panicked>>

WriterClosesWS(c) == /\ ~panicked /\ writer[c] = "defer"
                     /\ wsClosed' = [wsClosed EXCEPT ![c] = TRUE]
                     /\ writer' = [writer EXCEPT ![c] = "close"]
                     /\ UNCHANGED <<hubVars, netVars, reader, got, holding, send,
                                    closed, castVars, panicked>>

\* close of a closed channel panics.
CloseSend(c) == \/ /\ closed[c]
                   /\ panicked' = TRUE
                   /\ UNCHANGED closed
                \/ /\ ~closed[c]
                   /\ closed' = [closed EXCEPT ![c] = TRUE]
                   /\ UNCHANGED panicked

ReaderClosesSend(c) == /\ ~panicked /\ reader[c] = "close"
                       /\ CloseSend(c)
                       /\ reader' = [reader EXCEPT ![c] = "done"]
                       /\ UNCHANGED <<hubVars, netVars, wsClosed, got, writer, holding,
                                      send, castVars>>

WriterClosesSend(c) == /\ ~panicked /\ writer[c] = "close"
                       /\ CloseSend(c)
                       /\ writer' = [writer EXCEPT ![c] = "done"]
                       /\ UNCHANGED <<hubVars, netVars, wsClosed, reader, got, holding,
                                      send, castVars>>

ReadPump(c) == \/ ReadMessage(c) \/ Handle(c) \/ ReadFails(c)
               \/ ReaderClosesWS(c) \/ ReaderClosesSend(c)
WritePump(c) == \/ TakeMessage(c) \/ WriteMessage(c) \/ WriteFails(c)
                \/ WriterClosesWS(c) \/ WriterClosesSend(c)
Hub == HubStore \/ \E c \in Conn : HubReceive(c)

Next == \/ \E c \in Conn : \/ ClientSends(c) \/ ClientOversize(c) \/ LinkFails(c)
                           \/ Offer(c) \/ ReadPump(c) \/ WritePump(c)
        \/ \E b \in Caster : CastStart(b) \/ \E c \in Conn : CastVisit(b, c)
        \/ Hub

Spec == Init /\ [][Next]_vars

\* The goroutines of the gateway are scheduled; clients owe nothing.
FairSpec == /\ Spec
            /\ WF_vars(Hub)
            /\ \A c \in Conn : /\ WF_vars(ReadPump(c)) /\ WF_vars(WritePump(c))
                               /\ \A b \in Caster : WF_vars(CastVisit(b, c))

-----------------------------------------------------------------------------
(* Properties *)

\* Everything on its way to the client of c, oldest first.
Pipeline(c) == received[c]
                 \o (IF holding[c] = None THEN <<>> ELSE <<holding[c]>>)
                 \o send[c]

OnTheWay(c, m) == m \in ToSet(Pipeline(c))

\* The inputs that the handler is done with.
Handled(c) == IF reader[c] = "handle" THEN got[c] - 1 ELSE got[c]

\* On a connection whose link is up and whose client keeps to the read limit, and until
\* a panic, every input that was handled is answered once and in order, although
\* broadcasts are pushed into the same channel by other goroutines; and the broadcasts of
\* one goroutine arrive at most once each and in the order of its calls.  Nothing is
\* said of the broadcasts of two goroutines: server.go:70-79 has no lock, so they may
\* reach two connections in different orders.
AnswersExact ==
  \A c \in Conn : link[c] = "up" /\ ~panicked =>
    /\ \A i, j \in DOMAIN Pipeline(c) :
         i < j /\ Pipeline(c)[i][1] = Pipeline(c)[j][1] => Pipeline(c)[i][2] < Pipeline(c)[j][2]
    /\ \A n \in 1..MaxInputs : OnTheWay(c, <<"in", n>>) <=> n <= Handled(c)

\* A connection the hub has stored gets every later broadcast, unless its own
\* channel was full when the broadcast came by: there is no third outcome while
\* the link is up, also when broadcasts overlap.  The variables have their types.
CastsAccounted ==
  /\ TypeOK
  /\ \A c \in connMap : link[c] = "up" /\ ~panicked =>
       \A b \in Caster : \A k \in since[c][b] + 1 .. casts[b] :
         k < casts[b] \/ c \notin todo[b]
           => OnTheWay(c, <<b, k>>) \/ <<b, k>> \in dropped[c]

\* The gateway panics only after a link has failed or a client has exceeded the read
\* limit (conn.go:36): as long as all links are up and all messages short enough, no
\* interleaving of pumps and broadcasts closes a Send channel.
PanicNeedsFailure == panicked => \E c \in Conn : link[c] # "up"

\* Every input of a client whose link stays up, and who keeps to the read limit, is
\* answered, unless the process dies: the pumps never wait for each other for ever,
\* full channels included.
InputsAnswered ==
  \A c \in Conn : \A i \in 1..MaxInputs :
    (sent[c] >= i /\ link[c] = "up")
      ~> (<<"in", i>> \in ToSet(received[c]) \/ link[c] # "up" \/ panicked)
=============================================================================
