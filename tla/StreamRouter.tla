----------------------------- MODULE StreamRouter -----------------------------
(***************************************************************************)
(* The stream router (router/router.go): a goroutine that every 20 ms      *)
(* walks over the output buffers of the sessions, flags and unflags slow   *)
(* sessions by the water marks of buffer.go, and collects the output of    *)
(* the others into one frame for Hub.Broadcast.                            *)
(*                                                                         *)
(* A buffer is the number of its unread bytes (RingBuffer has the bytes).  *)
(* RegisterBuffer replaces the entry of a session, so a session may have   *)
(* several buffer objects, and the router may be holding an old one.       *)
(* Shells write into their buffers at any time; only the router reads.     *)
(* sendSlowWarning tells the clients of a change of the flag by a          *)
(* Hub.Broadcast, which each of them may miss: that is a broadcast of      *)
(* ConnPumps, and the router keeps no record of it.                        *)
(***************************************************************************)
EXTENDS Naturals, FiniteSets

CONSTANTS Session,    \* session ids
          RingSize,   \* BufferSize of buffer.go
          MaxBuffers  \* bound: RegisterBuffer calls for every session

ASSUME RingSizeAssumption == RingSize \in Nat \ {0}
ASSUME MaxBuffersAssumption == MaxBuffers \in [Session -> Nat \ {0}]

VARIABLES known,    \* ids registered with the session manager
          slow,     \* s.IsSlow
          buffers,  \* r.buffers: the number of the session's buffer, 0 if none
          created,  \* RegisterBuffer calls so far
          pending,  \* unread bytes of every buffer object
          run,      \* the goroutine: select, range, low, gate, gone
          todo,     \* sessions the running Range has still to visit
          cur, rb,  \* the session and the buffer object in hand
          frame,    \* sessions with a block in the frame being built
          stopped,  \* Stop was called
          outputs,  \* history: sessions whose output was ever broadcast
          polled    \* history: the router has read the buffer in this round

regVars == <<known, buffers, created, stopped>>
routerVars == <<regVars, slow, pending, run, todo, cur, rb, frame, outputs, polled>>

WaterMarkHigh == (RingSize * 85) \div 100
WaterMarkLow == (RingSize * 50) \div 100
BufferNo(s) == 1..MaxBuffers[s]

RouterTypeOK == /\ known \subseteq Session /\ todo \subseteq Session
                /\ slow \in [Session -> BOOLEAN] /\ polled \in [Session -> BOOLEAN]
                /\ DOMAIN buffers = Session /\ DOMAIN created = Session /\ DOMAIN pending = Session
                /\ \A s \in Session : /\ buffers[s] \in BufferNo(s) \cup {0}
                                      /\ created[s] \in BufferNo(s) \cup {0}
                                      /\ pending[s] \in [BufferNo(s) -> 0..RingSize]
                /\ run \in {"select", "range", "low", "gate", "gone"}
                /\ cur \in Session /\ rb \in BufferNo(cur)
                /\ frame \subseteq Session /\ outputs \subseteq Session
                /\ stopped \in BOOLEAN

RouterInit == /\ known = {} /\ todo = {} /\ frame = {} /\ outputs = {}
              /\ slow = [s \in Session |-> FALSE] /\ polled = [s \in Session |-> FALSE]
              /\ buffers = [s \in Session |-> 0] /\ created = [s \in Session |-> 0]
              /\ pending = [s \in Session |-> [b \in BufferNo(s) |-> 0]]
              /\ run = "select" /\ cur \in Session /\ rb = 1
              /\ stopped = FALSE

-----------------------------------------------------------------------------
(* The rest of the gateway *)

\* Session ids are not used again: a session is registered before its buffers are.
RegisterSession(s) == /\ s \notin known /\ created[s] = 0
                      /\ known' = known \cup {s}
                      /\ UNCHANGED <<buffers, created, stopped, slow, pending, run, todo,
                                     cur, rb, frame, outputs, polled>>

UnregisterSession(s) == /\ s \in known
                        /\ known' = known \ {s}
                        /\ UNCHANGED <<buffers, created, stopped, slow, pending, run, todo,
                                       cur, rb, frame, outputs, polled>>

\* A fresh buffer replaces the old entry.  A Range under way may see it or not.
RegisterBuffer(s) ==
  /\ created[s] < MaxBuffers[s]
  /\ created' = [created EXCEPT ![s] = @ + 1]
  /\ buffers' = [buffers EXCEPT ![s] = created[s] + 1]
  /\ \/ todo' = todo
     \/ run \notin {"select", "gone"} /\ buffers[s] = 0 /\ todo' = todo \cup {s}
  /\ UNCHANGED <<known, stopped, slow, pending, run, cur, rb, frame, outputs, polled>>

UnregisterBuffer(s) ==
  /\ buffers[s] # 0
  /\ buffers' = [buffers EXCEPT ![s] = 0]
  /\ UNCHANGED <<known, created, stopped, slow, pending, run, todo, cur, rb, frame,
                 outputs, polled>>

\* The shell of s produces output; its goroutine keeps the buffer it was given.
ShellWrites(s, b) ==
  /\ b <= created[s] /\ pending[s][b] < RingSize
  /\ pending' = [pending EXCEPT ![s][b] = @ + 1]
  /\ UNCHANGED <<regVars, slow, run, todo, cur, rb, frame, outputs, polled>>

Stop == /\ ~stopped
        /\ stopped' = TRUE
        /\ UNCHANGED <<known, buffers, created, slow, pending, run, todo, cur, rb, frame,
                       outputs, polled>>

-----------------------------------------------------------------------------
(* The router goroutine *)

\* The ticker fires: aggregate starts an empty frame and a Range.
AggregateStart == /\ run = "select"
                  /\ run' = "range"
                  /\ todo' = {s \in Session : buffers[s] # 0}
                  /\ frame' = {}
                  /\ polled' = [s \in Session |-> FALSE]
                  /\ UNCHANGED <<regVars, slow, pending, cur, rb, outputs>>

\* Faulty variant of IsHigh: strictly above the mark.
IsHigh_Strict(avail) == avail > WaterMarkHigh

IsHigh(avail) == avail >= WaterMarkHigh

\* Faulty variant of IsLow: strictly below the mark.
IsLow_Strict(avail) == avail < WaterMarkLow

IsLow(avail) == avail <= WaterMarkLow

\* The callback for one entry, up to the test of the high mark.  An entry whose
\* session is gone is skipped.
VisitHigh(s) ==
  /\ run = "range" /\ s \in todo /\ buffers[s] # 0
  /\ todo' = todo \ {s}
  /\ \/ /\ s \notin known
        /\ UNCHANGED <<run, cur, rb, slow>>
     \/ /\ s \in known
        /\ cur' = s /\ rb' = buffers[s]
        /\ IF IsHigh(pending[s][buffers[s]]) /\ ~slow[s]
             THEN /\ slow' = [slow EXCEPT ![s] = TRUE]
                  /\ run' = "gate"
             ELSE /\ run' = "low"
                  /\ slow' = slow
  /\ UNCHANGED <<regVars, pending, frame, outputs, polled>>

\* The test of the low mark loads the cursors anew.
VisitLow ==
  /\ run = "low"
  /\ slow' = [slow EXCEPT ![cur] = @ /\ ~IsLow(pending[cur][rb])]
  /\ run' = "gate"
  /\ UNCHANGED <<regVars, pending, todo, cur, rb, frame, outputs, polled>>

\* Faulty variant of VisitRead: a slow session ends the Range.
VisitRead_StopAtSlow ==
  /\ run = "gate"
  /\ run' = "range"
  /\ todo' = IF slow[cur] THEN {} ELSE todo
  /\ polled' = IF slow[cur] THEN polled ELSE [polled EXCEPT ![cur] = TRUE]
  /\ UNCHANGED <<regVars, slow, pending, cur, rb, frame, outputs>>

\* pool.Get(4096) returns a slice of capacity 4096 and of length 0.
PoolGetLen(size) == 0

\* TryRead fills the slice as far as its length and the backlog allow.
ReadLen(avail) == IF avail <= PoolGetLen(4096) THEN avail ELSE PoolGetLen(4096)

\* A slow session is skipped; any other is read and what was read is framed.
VisitRead ==
  LET n == ReadLen(pending[cur][rb])
  IN /\ run = "gate"
     /\ run' = "range"
     /\ IF slow[cur]
          THEN UNCHANGED <<pending, frame, polled>>
          ELSE /\ pending' = [pending EXCEPT ![cur][rb] = @ - n]
               /\ frame' = IF n > 0 THEN frame \cup {cur} ELSE frame
               /\ polled' = [polled EXCEPT ![cur] = TRUE]
     /\ UNCHANGED <<regVars, slow, todo, cur, rb, outputs>>

\* Range has ended: a frame with at least one block is broadcast.
AggregateEnd == /\ run = "range"
                /\ \A s \in todo : buffers[s] = 0
                /\ run' = "select"
                /\ todo' = {}
                /\ outputs' = outputs \cup frame
                /\ UNCHANGED <<regVars, slow, pending, cur, rb, frame, polled>>

Exit == /\ run = "select" /\ stopped
        /\ run' = "gone"
        /\ UNCHANGED <<regVars, slow, pending, todo, cur, rb, frame, outputs, polled>>

Router == \/ AggregateStart \/ VisitLow \/ VisitRead \/ AggregateEnd \/ Exit
          \/ \E s \in Session : VisitHigh(s)

RouterNext == \/ \E s \in Session :
                   \/ RegisterSession(s) \/ UnregisterSession(s)
                   \/ RegisterBuffer(s) \/ UnregisterBuffer(s)
                   \/ \E b \in BufferNo(s) : ShellWrites(s, b)
              \/ Stop \/ Router

RouterSpec == RouterInit /\ [][RouterNext]_routerVars

\* The ticker keeps firing and no step of aggregate blocks.
FairRouterSpec == RouterSpec /\ WF_routerVars(Router)

-----------------------------------------------------------------------------
(* Properties *)

\* A session that the router should be reading.
Live(s) == s \in known /\ buffers[s] # 0 /\ ~slow[s]

\* A session that is neither slow nor gone is read again in some later round,
\* whatever state the other sessions are in: a slow one does not hold it up.
HealthyPolled ==
  \A s \in Session :
    (Live(s) /\ run = "select") ~> (polled[s] \/ ~Live(s) \/ stopped)

\* A session whose backlog has reached the high mark is flagged, unless its
\* buffer or the session itself goes away first.
HighFlagged ==
  \A s \in Session : \A b \in BufferNo(s) :
    (s \in known /\ buffers[s] = b /\ pending[s][b] >= WaterMarkHigh)
      ~> (slow[s] \/ s \notin known \/ buffers[s] # b \/ stopped)

\* A flagged session whose backlog is at or below the low mark is unflagged, although
\* the two marks are tested at different moments and on the buffer that the round found,
\* unless the backlog grows or the buffer or the session goes away first.  (A backlog
\* falls to that mark only by a replaced buffer: VisitRead skips a flagged session.)
LowUnflagged ==
  \A s \in Session : \A b \in BufferNo(s) :
    (s \in known /\ slow[s] /\ buffers[s] = b /\ pending[s][b] <= WaterMarkLow)
      ~> (~slow[s] \/ pending[s][b] > WaterMarkLow \/ s \notin known
            \/ buffers[s] # b \/ stopped)

\* Output that waits in the buffer of a session that is not slow is sent.
OutputSent ==
  \A s \in Session :
    (Live(s) /\ pending[s][buffers[s]] > 0) ~> (s \in outputs \/ ~Live(s) \/ stopped)
=============================================================================
