------------------------------ MODULE EchoLock ------------------------------
(***************************************************************************)
(* The worker of the frontend (frontend/src/workers/ws.worker.ts): its     *)
(* WebSocket, and the echo lock that an input puts on its sessions for     *)
(* 50 ms.  A handler of the worker's event loop is one action.  Timers all *)
(* have the same delay, so that they fire in the order in which they were  *)
(* set, at any moment relative to the other events.                        *)
(*                                                                         *)
(* A block of output is known by the number of its frame; what a frame     *)
(* holds is in Page.  send and resize change nothing here.                 *)
(***************************************************************************)
EXTENDS Naturals, Sequences, SequencesExt

CONSTANTS Session,    \* sessions
          MaxSockets, \* bound: connect messages
          MaxFrames,  \* bound: frames that arrive
          MaxInputs   \* bound: input messages

ASSUME BoundsAssumption == MaxSockets \in Nat /\ MaxFrames \in Nat /\ MaxInputs \in Nat

VARIABLES ws,        \* the current socket, 0 for null
          sock,      \* of a socket: unused, connecting, open, closing, closed
          locked,    \* echoLockSessions
          pending,   \* pendingEchoFrames; a missing entry is an empty one
          timers,    \* the sessions of the timers that are set, oldest first
          frames,    \* frames that have arrived
          inputs,    \* input messages handled
          shown,     \* history: of a session, blocks posted with their frame, at once
          queued,    \* history: of a session, blocks that were queued
          replayed,  \* history: of a session, blocks posted as output by a timer, in order
          discarded  \* history: of a session, queued blocks that an input threw away

sockVars == <<ws, sock>>
lockVars == <<locked, pending, timers>>
histVars == <<shown, queued, replayed, discarded>>
vars == <<sockVars, lockVars, frames, inputs, histVars>>

Socket == 1..MaxSockets
Frame == 1..MaxFrames

TypeOK == /\ ws \in 0..MaxSockets
          /\ sock \in [Socket -> {"unused", "connecting", "open", "closing", "closed"}]
          /\ ws # 0 => sock[ws] # "unused"
          /\ locked \subseteq Session
          /\ pending \in [Session -> Seq(Frame)]
          /\ timers \in Seq(SUBSET Session) /\ Len(timers) <= MaxInputs
          /\ frames \in 0..MaxFrames /\ inputs \in 0..MaxInputs
          /\ shown \in [Session -> SUBSET Frame] /\ queued \in [Session -> SUBSET Frame]
          /\ replayed \in [Session -> Seq(Frame)]
          /\ discarded \in [Session -> SUBSET Frame]

Init == /\ ws = 0 /\ sock = [k \in Socket |-> "unused"]
        /\ locked = {} /\ pending = [s \in Session |-> <<>>] /\ timers = <<>>
        /\ frames = 0 /\ inputs = 0
        /\ shown = [s \in Session |-> {}] /\ queued = [s \in Session |-> {}]
        /\ replayed = [s \in Session |-> <<>>]
        /\ discarded = [s \in Session |-> {}]

-----------------------------------------------------------------------------
(* The socket *)

\* connect: a socket that is there already is neither closed nor detached.
Connect(k) == /\ sock[k] = "unused" /\ \A j \in 1..k-1 : sock[j] # "unused"
              /\ ws' = k
              /\ sock' = [sock EXCEPT ![k] = "connecting"]
              /\ UNCHANGED <<lockVars, frames, inputs, histVars>>

Opened(k) == /\ sock[k] = "connecting"
             /\ sock' = [sock EXCEPT ![k] = "open"]
             /\ UNCHANGED <<ws, lockVars, frames, inputs, histVars>>

Disconnect == /\ ws # 0
              /\ sock' = [sock EXCEPT ![ws] = IF @ = "closed" THEN "closed" ELSE "closing"]
              /\ ws' = 0
              /\ UNCHANGED <<lockVars, frames, inputs, histVars>>

\* onclose, for whatever reason; ws still refers to the socket.
Closed(k) == /\ sock[k] \in {"connecting", "open", "closing"}
             /\ sock' = [sock EXCEPT ![k] = "closed"]
             /\ UNCHANGED <<ws, lockVars, frames, inputs, histVars>>

-----------------------------------------------------------------------------
(* The echo lock *)

\* onmessage with terminal output of the sessions S: blocks of locked sessions are
\* queued, and the frame is posted to the page all the same, with these blocks in it.
Output(k, S) ==
  /\ sock[k] = "open" /\ frames < MaxFrames
  /\ frames' = frames + 1
  /\ pending' = [s \in Session |-> IF s \in S \cap locked THEN Append(pending[s], frames + 1)
                                   ELSE pending[s]]
  /\ queued' = [s \in Session |-> IF s \in S \cap locked THEN queued[s] \cup {frames + 1}
                                  ELSE queued[s]]
  /\ shown' = [s \in Session |-> IF s \in S THEN shown[s] \cup {frames + 1} ELSE shown[s]]
  /\ UNCHANGED <<sockVars, locked, timers, inputs, replayed, discarded>>

\* onmessage with a confirmation request: it goes to the page as such.
Confirm(k) == /\ sock[k] = "open" /\ frames < MaxFrames
              /\ frames' = frames + 1
              /\ UNCHANGED <<sockVars, lockVars, inputs, histVars>>

\* The lock of handleInput: what is queued for these sessions is thrown away.
Lock(S) == /\ inputs < MaxInputs /\ inputs' = inputs + 1
           /\ locked' = locked \cup S
           /\ discarded' = [s \in Session |-> IF s \in S THEN discarded[s] \cup ToSet(pending[s])
                                              ELSE discarded[s]]
           /\ pending' = [s \in Session |-> IF s \in S THEN <<>> ELSE pending[s]]
           /\ UNCHANGED <<sockVars, frames, shown, queued, replayed>>

\* Faulty variant of Input: an input replaces the timer of the one before.
Input_OneTimer(S) == Lock(S) /\ timers' = <<S>>

\* input: the lock is set and its timer started, whether or not the socket is open.
Input(S) == Lock(S) /\ timers' = Append(timers, S)

\* Faulty variant of Release: the newest block is posted first.
Release_Newest ==
  /\ timers # <<>>
  /\ timers' = Tail(timers)
  /\ locked' = locked \ Head(timers)
  /\ replayed' = [s \in Session |-> IF s \in Head(timers) THEN replayed[s] \o Reverse(pending[s])
                                    ELSE replayed[s]]
  /\ pending' = [s \in Session |-> IF s \in Head(timers) THEN <<>> ELSE pending[s]]
  /\ UNCHANGED <<sockVars, frames, inputs, shown, queued, discarded>>

\* The timer of an input: its sessions are unlocked, even if a later input has locked
\* them again, and what is queued for them is posted.
Release ==
  /\ timers # <<>>
  /\ timers' = Tail(timers)
  /\ locked' = locked \ Head(timers)
  /\ replayed' = [s \in Session |-> IF s \in Head(timers) THEN replayed[s] \o pending[s]
                                    ELSE replayed[s]]
  /\ pending' = [s \in Session |-> IF s \in Head(timers) THEN <<>> ELSE pending[s]]
  /\ UNCHANGED <<sockVars, frames, inputs, shown, queued, discarded>>

-----------------------------------------------------------------------------
Next == \/ Disconnect \/ Release
        \/ \E k \in Socket : \/ Connect(k) \/ Opened(k) \/ Closed(k) \/ Confirm(k)
                             \/ \E S \in SUBSET Session : Output(k, S)
        \/ \E S \in SUBSET Session : Input(S)

Spec == Init /\ [][Next]_vars

\* A timer that is set fires.
FairSpec == Spec /\ WF_vars(Release)

-----------------------------------------------------------------------------
(* Properties *)

\* The lock withholds nothing: a block that was queued has gone to the page with its
\* frame already.  It now waits to be posted a second time, has been, only once and in
\* order of arrival, or its second posting was given up by a later input to its session,
\* and only one of these.  Nothing waits for a session that is not locked, although timers
\* of earlier inputs release the locks of later ones.
ReplayAccounted ==
  \A s \in Session :
    LET line == replayed[s] \o pending[s]
    IN /\ \A i, j \in DOMAIN line : i < j => line[i] < line[j]
       /\ ToSet(line) \cap discarded[s] = {}
       /\ ToSet(line) \cup discarded[s] = queued[s] /\ queued[s] \subseteq shown[s]
       /\ pending[s] # <<>> => s \in locked

\* A locked session is unlocked again, whichever timers and inputs come in between.
LocksReleased == \A s \in Session : s \in locked ~> s \notin locked
=============================================================================
