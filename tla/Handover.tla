------------------------------ MODULE Handover ------------------------------
(***************************************************************************)
(* Signals and graceful restart (cmd/server/main.go, server/graceful.go).  *)
(* SIGUSR2 makes the main goroutine broadcast a maintenance message, take  *)
(* a snapshot of the connections, save it in a file and offer it on a Unix *)
(* socket, where one goroutine per listener hands it to the first process  *)
(* that connects.  Meanwhile connections arrive, further signals come, the *)
(* process may crash at any point and be started again.                    *)
(*                                                                         *)
(* A round is one run of HandleUSR2Signal that gets to its snapshot; the   *)
(* rounds are numbered, also across restarts, and a listener has the       *)
(* number of the round that opened it.  What Hub.Broadcast does with the   *)
(* message is in ConnPumps.                                                *)
(***************************************************************************)
EXTENDS Naturals, Sequences, FiniteSets

CONSTANTS Conn,       \* client connections
          Peer,       \* new processes that connect to the socket
          MaxSignals, \* bound: signals sent
          MaxFaults   \* bound: crashes and failing system calls

ASSUME BoundsAssumption == MaxSignals \in Nat /\ MaxFaults \in Nat

VARIABLES running,  \* the process runs
          connMap,  \* Hub.ConnMap
          sigChan,  \* the channel of signal.Notify, of capacity 1
          main,     \* run(): wait, cast, scan, collect, write, close, listen
          state,    \* gm.state: its round and its connections
          listener, \* gm.listener, 0 for nil
          open,     \* the listeners that are open
          server,   \* of a listener: its goroutine, off, accept, send, done
          path,     \* the socket file: the listener that made it, 0 when there is none
          file,     \* the state file: its round, 0 when it is missing or cut short
          peer,     \* of a new process: new, queued, accepted, served, reset
          got,      \* what it was sent
          at,       \* the listener it connected to
          round,    \* history: the number of the last round
          base,     \* history: connections stored when a round began to collect
          failed,   \* history: a system call of the last round has failed
          fileAt,   \* history: the state file when a new process connected
          sent,     \* signals sent
          faults    \* crashes and failures

memVars == <<connMap, sigChan, main, state, listener, open, server>>
diskVars == <<path, file>>
peerVars == <<peer, got, at, fileAt>>
roundVars == <<round, base, failed>>
handoverVars == <<running, memVars, diskVars, peerVars, roundVars, sent, faults>>

Round == 1..MaxSignals
Snapshot == [round : 0..MaxSignals, conns : SUBSET Conn]
NoState == [round |-> 0, conns |-> {}]

HandoverTypeOK == /\ running \in BOOLEAN /\ connMap \subseteq Conn
                  /\ sigChan \in Seq({"USR2", "TERM"}) /\ Len(sigChan) <= 1
                  /\ main \in {"wait", "cast", "scan", "collect", "write", "close", "listen"}
                  /\ state \in Snapshot
                  /\ listener \in 0..MaxSignals /\ open \subseteq Round
                  /\ server \in [Round -> {"off", "accept", "send", "done"}]
                  /\ path \in 0..MaxSignals /\ file \in 0..MaxSignals
                  /\ peer \in [Peer -> {"new", "queued", "accepted", "served", "reset"}]
                  /\ got \in [Peer -> Snapshot]
                  /\ at \in [Peer -> 0..MaxSignals] /\ fileAt \in [Peer -> 0..MaxSignals]
                  /\ round \in 0..MaxSignals
                  /\ base \in [Round -> SUBSET Conn] /\ failed \in BOOLEAN
                  /\ sent \in 0..MaxSignals /\ faults \in 0..MaxFaults

HandoverInit == /\ running = TRUE /\ connMap = {}
                /\ sigChan = <<>> /\ main = "wait" /\ state = NoState
                /\ listener = 0 /\ open = {} /\ server = [l \in Round |-> "off"]
                /\ path = 0 /\ file = 0
                /\ peer = [p \in Peer |-> "new"] /\ got = [p \in Peer |-> NoState]
                /\ at = [p \in Peer |-> 0] /\ fileAt = [p \in Peer |-> 0]
                /\ round = 0 /\ base = [r \in Round |-> {}] /\ failed = FALSE
                /\ sent = 0 /\ faults = 0

-----------------------------------------------------------------------------
(* The hub, the system and the new processes *)

\* Hub.Run stores a connection; nothing ever takes one out.
Store(c) == /\ running /\ c \notin connMap
            /\ connMap' = connMap \cup {c}
            /\ UNCHANGED <<running, sigChan, main, state, listener, open, server, diskVars,
                           peerVars, roundVars, sent, faults>>

\* signal.Notify does not block: a signal that finds the channel full is lost.
Signal(sig) ==
  /\ running /\ sent < MaxSignals
  /\ sent' = sent + 1
  /\ sigChan' = IF sigChan = <<>> THEN <<sig>> ELSE sigChan
  /\ UNCHANGED <<running, connMap, main, state, listener, open, server, diskVars, peerVars,
                 roundVars, faults>>

\* Connections in one of these states are reset when the other end goes away.
ResetPeers(states, listeners) ==
  peer' = [p \in Peer |-> IF peer[p] \in states /\ at[p] \in listeners THEN "reset" ELSE peer[p]]

\* The process dies: a panic, log.Fatalf of the HTTP server's goroutine, a kill.  The
\* socket file stays behind, and so does a state file that is half written.
Crash == /\ running /\ faults < MaxFaults
         /\ running' = FALSE
         /\ faults' = faults + 1
         /\ connMap' = {} /\ sigChan' = <<>> /\ main' = "wait" /\ state' = NoState
         /\ listener' = 0 /\ open' = {} /\ server' = [l \in Round |-> "off"]
         /\ file' = IF main = "write" THEN 0 ELSE file
         /\ ResetPeers({"queued", "accepted"}, Round)
         /\ UNCHANGED <<path, got, at, fileAt, roundVars, sent>>

\* run() begins with nothing in memory; the state file is not read.
Start == /\ ~running
         /\ running' = TRUE
         /\ UNCHANGED <<memVars, diskVars, peerVars, roundVars, sent, faults>>

\* A new process connects to the socket.
Connect(p) == /\ peer[p] = "new" /\ path \in open
              /\ peer' = [peer EXCEPT ![p] = "queued"]
              /\ at' = [at EXCEPT ![p] = path]
              /\ fileAt' = [fileAt EXCEPT ![p] = file]
              /\ UNCHANGED <<running, memVars, diskVars, got, roundVars, sent, faults>>

-----------------------------------------------------------------------------
(* The loop of run(), and HandleUSR2Signal *)

\* A signal other than SIGUSR2 cancels a context that nobody watches; break leaves the
\* switch, and the loop goes on.
TakeSignal == /\ running /\ main = "wait" /\ sigChan # <<>>
              /\ sigChan' = Tail(sigChan)
              /\ main' = IF Head(sigChan) = "USR2" THEN "cast" ELSE "wait"
              /\ failed' = FALSE
              /\ UNCHANGED <<running, connMap, state, listener, open, server, diskVars, peerVars,
                             round, base, sent, faults>>

BroadcastMaintenance ==
  /\ running /\ main = "cast"
  /\ main' = "scan"
  /\ UNCHANGED <<running, connMap, sigChan, state, listener, open, server, diskVars, peerVars,
                 roundVars, sent, faults>>

\* PrepareForGracefulShutdown starts its Range over ConnMap.
RangeStart ==
  /\ running /\ main = "scan"
  /\ round' = round + 1
  /\ base' = [base EXCEPT ![round + 1] = connMap]
  /\ main' = "collect"
  /\ UNCHANGED <<running, connMap, sigChan, state, listener, open, server, diskVars, peerVars,
                 failed, sent, faults>>

\* The Range ends and gm.state is set; what was stored while it ran may be missing.
RangeEnd ==
  /\ running /\ main = "collect"
  /\ \E late \in SUBSET (connMap \ base[round]) :
       state' = [round |-> round, conns |-> base[round] \cup late]
  /\ main' = "write"
  /\ UNCHANGED <<running, connMap, sigChan, listener, open, server, diskVars, peerVars, roundVars,
                 sent, faults>>

\* os.WriteFile, which truncates first.  When it fails the round is given up, although
\* gm.state is set and an earlier listener is still open.
WriteFile ==
  /\ running /\ main = "write"
  /\ \/ /\ file' = state.round
        /\ main' = "close"
        /\ UNCHANGED <<failed, faults>>
     \/ /\ faults < MaxFaults /\ faults' = faults + 1
        /\ file' \in {file, 0}
        /\ main' = "wait" /\ failed' = TRUE
  /\ UNCHANGED <<running, connMap, sigChan, state, listener, open, server, path, peerVars, round,
                 base, sent>>

-----------------------------------------------------------------------------
(* startHandoffListener *)

\* Faulty variant of CloseListener: the listener of the round before stays open.
CloseListener_Forget ==
  /\ running /\ main = "close"
  /\ path' = 0
  /\ main' = "listen"
  /\ UNCHANGED <<running, connMap, sigChan, state, listener, open, server, file, peerVars,
                 roundVars, sent, faults>>

\* Faulty variant of CloseListener: a socket file without a listener is left there.
CloseListener_KeepFile ==
  /\ running /\ main = "close"
  /\ open' = open \ {listener}
  /\ server' = [l \in Round |-> IF l = listener /\ server[l] = "accept" THEN "done" ELSE server[l]]
  /\ ResetPeers({"queued"}, {listener})
  /\ path' = IF path \in open THEN 0 ELSE path
  /\ main' = "listen"
  /\ UNCHANGED <<running, connMap, sigChan, state, listener, file, got, at, fileAt, roundVars, sent,
                 faults>>

\* gm.listener is closed, if there is one: Accept of its goroutine fails and the
\* processes that wait there are turned away.  Then the socket file is removed.
CloseListener ==
  /\ running /\ main = "close"
  /\ open' = open \ {listener}
  /\ server' = [l \in Round |-> IF l = listener /\ server[l] = "accept" THEN "done" ELSE server[l]]
  /\ ResetPeers({"queued"}, {listener})
  /\ path' = 0
  /\ main' = "listen"
  /\ UNCHANGED <<running, connMap, sigChan, state, listener, file, got, at, fileAt, roundVars, sent,
                 faults>>

\* Faulty variant of Listen: the goroutine is started for the first listener only.
Listen_OneServer ==
  /\ running /\ main = "listen" /\ path = 0
  /\ listener' = round /\ open' = open \cup {round} /\ path' = round
  /\ server' = IF listener = 0 THEN [server EXCEPT ![round] = "accept"] ELSE server
  /\ main' = "wait"
  /\ UNCHANGED <<running, connMap, sigChan, state, file, peerVars, roundVars, sent, faults>>

\* net.Listen, which succeeds only when there is no socket file; when it fails,
\* gm.listener stays the closed one of an earlier round.
Listen ==
  /\ running /\ main = "listen"
  /\ \/ /\ path = 0
        /\ listener' = round /\ open' = open \cup {round} /\ path' = round
        /\ server' = [server EXCEPT ![round] = "accept"]
        /\ UNCHANGED <<failed, faults>>
     \/ /\ faults < MaxFaults /\ faults' = faults + 1
        /\ failed' = TRUE
        /\ UNCHANGED <<listener, open, path, server>>
  /\ main' = "wait"
  /\ UNCHANGED <<running, connMap, sigChan, state, file, peerVars, round, base, sent>>

\* The goroutine of listener l accepts one connection, and never another.
Accept(l) ==
  /\ server[l] = "accept" /\ l \in open
  /\ \E p \in Peer : /\ peer[p] = "queued" /\ at[p] = l
                     /\ peer' = [peer EXCEPT ![p] = "accepted"]
  /\ server' = [server EXCEPT ![l] = "send"]
  /\ UNCHANGED <<running, connMap, sigChan, main, state, listener, open, diskVars, got, at, fileAt,
                 roundVars, sent, faults>>

\* Faulty variant of SendState: what gm.state had when the connection was accepted.
SendState_Captured(l) ==
  /\ server[l] = "send"
  /\ \E p \in Peer :
       /\ peer[p] = "accepted" /\ at[p] = l
       /\ peer' = [peer EXCEPT ![p] = "served"]
       /\ got' = [got EXCEPT ![p] = [round |-> l, conns |-> base[l]]]
  /\ server' = [server EXCEPT ![l] = "done"]
  /\ UNCHANGED <<running, connMap, sigChan, main, state, listener, open, diskVars, at, fileAt,
                 roundVars, sent, faults>>

\* It sends what gm.state points to by now, perhaps that of a later round, and closes.
SendState(l) ==
  /\ server[l] = "send"
  /\ \E p \in Peer :
       /\ peer[p] = "accepted" /\ at[p] = l
       /\ peer' = [peer EXCEPT ![p] = "served"]
       /\ got' = [got EXCEPT ![p] = state]
  /\ server' = [server EXCEPT ![l] = "done"]
  /\ UNCHANGED <<running, connMap, sigChan, main, state, listener, open, diskVars, at, fileAt,
                 roundVars, sent, faults>>

-----------------------------------------------------------------------------
startHandoffListener == CloseListener \/ Listen
HandleUSR2Signal == \/ BroadcastMaintenance \/ RangeStart \/ RangeEnd \/ WriteFile
                    \/ startHandoffListener
Main == TakeSignal \/ HandleUSR2Signal
Serve(l) == Accept(l) \/ SendState(l)

HandoverNext == \/ Main \/ Crash \/ Start
                \/ \E c \in Conn : Store(c)
                \/ \E sig \in {"USR2", "TERM"} : Signal(sig)
                \/ \E p \in Peer : Connect(p)
                \/ \E l \in Round : Serve(l)

HandoverSpec == HandoverInit /\ [][HandoverNext]_handoverVars

\* The goroutines of a running process are scheduled; the system owes nothing.
FairHandoverSpec == /\ HandoverSpec /\ WF_handoverVars(Main)
                    /\ \A l \in Round : WF_handoverVars(Serve(l))

-----------------------------------------------------------------------------
(* Properties *)

\* A new process is told of every connection that was stored when the round that opened
\* the socket began to collect, although later rounds may replace or give up the
\* snapshot while the process is served; and what it gets is never older than what the
\* state file had when it connected.
HandedComplete ==
  \A p \in Peer : peer[p] = "served" =>
    /\ got[p].round >= at[p] /\ base[at[p]] \subseteq got[p].conns
    /\ got[p].round >= fileAt[p]

\* However often the signal comes and whatever fails, no listener leaks: the one that is
\* open is gm.listener, the socket file leads to it, and only it is accepted from.  The
\* variables have their types.
OneListener == /\ HandoverTypeOK
               /\ open \subseteq {listener}
               /\ open # {} => path = listener
               /\ \A l \in Round : server[l] = "accept" => l \in open

\* A SIGUSR2 in the channel leads to the socket of a later round, after a crash that
\* left a socket file behind too, unless a system call fails or the process dies.
UpdateOffered ==
  \A r \in 0..MaxSignals :
    (running /\ sigChan = <<"USR2">> /\ round = r)
      ~> (failed \/ ~running \/ \E l \in open : l > r)

\* The first process that comes to a socket is not left waiting: it is served, or turned
\* away by the next round or a crash.
FirstServed ==
  \A l \in Round :
    (l \in open /\ \E p \in Peer : at[p] = l)
      ~> (l \notin open \/ \E p \in Peer : at[p] = l /\ peer[p] = "served")

\* A SIGTERM that the loop of run() gets ends the process, as the message "shutting down"
\* that it logs says.  It does not: break ends the switch only, nothing closes sigChan,
\* and what follows the loop, server.Shutdown, is never reached.
TermShutsDown == (running /\ sigChan = <<"TERM">>) ~> ~running
=============================================================================
