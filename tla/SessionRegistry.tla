--------------------------- MODULE SessionRegistry ---------------------------
(***************************************************************************)
(* The session registry of the gateway (session/manager.go), the detach    *)
(* and attach transitions of a session (session/reconnect.go) and the      *)
(* goroutines that use them at the same time: connection handlers that     *)
(* create, lose and reclaim sessions, and the background cleanup loop.     *)
(*                                                                         *)
(* Time is discrete.  age[s] is the time since s.LastActiveAt, saturated   *)
(* at TTL + 1 because the code only compares it with the TTL.  Each method *)
(* of Session is atomic (s.mu); HandleReconnect is a lookup and a later    *)
(* Attach, and cleanup reads the state, then the time stamp (without the   *)
(* lock), then the clock, and deletes last: four steps that anything may   *)
(* interleave.                                                             *)
(***************************************************************************)
EXTENDS Naturals, FiniteSets

CONSTANTS Session,  \* session ids
          Client,   \* connection handlers (HandleWS goroutines)
          TTL,      \* DefaultTTL = DefaultReconnectTTL, in clock ticks
          MaxPause, \* bound: ticks that pass while cleanup examines one session
          NoSession \* target of a handler that is not reconnecting

ASSUME TTLAssumption == TTL \in Nat \ {0}
\* One examination is a handful of instructions; the TTL is ten minutes.
ASSUME MaxPauseAssumption == MaxPause \in 0..TTL
ASSUME NoSessionAssumption == NoSession \notin Session

VARIABLES registered, \* m.sessions: ids present in the sync.Map
          state,      \* s.State, or "unborn" before NewSession
          age,        \* time since s.LastActiveAt
          target,     \* per handler: the session HandleReconnect looked up
          sweep,      \* where the cleanup loop is
          todo,       \* sessions the running Range has still to visit
          cur,        \* the session being examined
          seen,       \* age of the time stamp cleanup has loaded
          pause,      \* ticks since cleanup read the state of cur
          stopped,    \* Stop was called
          holders,    \* history: handlers that own the session
          late        \* history: cur was reclaimed in the last MaxPause ticks
                      \* of its TTL, during its examination

cleanupVars == <<sweep, todo, cur, seen, pause>>
sessionVars == <<registered, state, age>>
vars == <<sessionVars, target, cleanupVars, stopped, holders, late>>

State == {"unborn", "active", "detached", "expired", "closed"}
Examining == {"stamp", "clock", "delete"}

TypeOK == /\ registered \subseteq Session
          /\ state \in [Session -> State]
          /\ age \in [Session -> 0 .. TTL + 1]
          /\ target \in [Client -> Session \cup {NoSession}]
          /\ sweep \in {"idle", "range", "gone"} \cup Examining
          /\ todo \subseteq Session
          /\ cur \in Session \cup {NoSession}
          /\ sweep \in Examining => cur \in Session
          /\ seen \in 0 .. TTL + 1
          /\ pause \in 0 .. MaxPause
          /\ stopped \in BOOLEAN
          /\ holders \in [Session -> SUBSET Client]
          /\ late \in BOOLEAN

Init == /\ registered = {}
        /\ state = [s \in Session |-> "unborn"]
        /\ age = [s \in Session |-> 0]
        /\ target = [c \in Client |-> NoSession]
        /\ sweep = "idle" /\ todo = {} /\ cur = NoSession
        /\ seen = 0 /\ pause = 0
        /\ stopped = FALSE
        /\ holders = [s \in Session |-> {}]
        /\ late = FALSE

-----------------------------------------------------------------------------
(* Connection handlers *)

\* NewSession followed by Manager.Register.  A Range that is under way may or
\* may not reach a key stored while it runs.
Register(c, s) ==
  /\ state[s] = "unborn"
  /\ state' = [state EXCEPT ![s] = "active"]
  /\ age' = [age EXCEPT ![s] = 0]
  /\ registered' = registered \cup {s}
  /\ holders' = [holders EXCEPT ![s] = {c}]
  /\ \/ todo' = todo
     \/ sweep \notin {"idle", "gone"} /\ todo' = todo \cup {s}
  /\ UNCHANGED <<target, sweep, cur, seen, pause, stopped, late>>

\* Session.Detach, called for a session whose connection is lost.
Detach(c, s) ==
  /\ c \in holders[s]
  /\ state' = [state EXCEPT ![s] = "detached"]
  /\ age' = [age EXCEPT ![s] = 0]
  /\ holders' = [holders EXCEPT ![s] = @ \ {c}]
  /\ UNCHANGED <<registered, target, cleanupVars, stopped, late>>

\* Session.SetState(StateClosed), when the owner ends the session.
SetClosed(c, s) ==
  /\ c \in holders[s]
  /\ state' = [state EXCEPT ![s] = "closed"]
  /\ holders' = [holders EXCEPT ![s] = {}]
  /\ UNCHANGED <<registered, age, target, cleanupVars, stopped, late>>

\* Manager.Unregister.
Unregister(s) ==
  /\ s \in registered
  /\ registered' = registered \ {s}
  /\ UNCHANGED <<state, age, target, cleanupVars, stopped, holders, late>>

\* HandleReconnect, first half: Manager.Get.  A miss returns an error and
\* leaves everything as it was.
Get(c, s) ==
  /\ target[c] = NoSession
  /\ s \in registered
  /\ target' = [target EXCEPT ![c] = s]
  /\ UNCHANGED <<sessionVars, cleanupVars, stopped, holders, late>>

\* Session.CanReconnect and Session.IsExpired.
CanReconnect(s) == state[s] = "detached" /\ age[s] <= TTL
IsExpired(s) == state[s] = "detached" /\ age[s] > TTL

\* Faulty variant of Attach: whoever comes while the time stamp is fresh gets
\* the session.
Attach_AnyState(c) ==
  LET s == target[c]
  IN /\ s # NoSession
     /\ \/ /\ age[s] <= TTL
           /\ state' = [state EXCEPT ![s] = "active"]
           /\ age' = [age EXCEPT ![s] = 0]
           /\ holders' = [holders EXCEPT ![s] = @ \cup {c}]
           /\ late' = (late \/ (s = cur /\ sweep \in Examining /\ age[s] > TTL - MaxPause))
        \/ /\ age[s] > TTL
           /\ UNCHANGED <<state, age, holders, late>>
     /\ target' = [target EXCEPT ![c] = NoSession]
     /\ UNCHANGED <<registered, cleanupVars, stopped>>

\* HandleReconnect, second half: Session.Attach under s.mu.
Attach(c) ==
  LET s == target[c]
  IN /\ s # NoSession
     /\ \/ /\ CanReconnect(s)
           /\ state' = [state EXCEPT ![s] = "active"]
           /\ age' = [age EXCEPT ![s] = 0]
           /\ holders' = [holders EXCEPT ![s] = @ \cup {c}]
           /\ late' = (late \/ (s = cur /\ sweep \in Examining /\ age[s] > TTL - MaxPause))
        \/ /\ IsExpired(s)
           /\ state' = [state EXCEPT ![s] = "expired"]
           /\ UNCHANGED <<age, holders, late>>
        \/ /\ state[s] # "detached"
           /\ UNCHANGED <<state, age, holders, late>>
     /\ target' = [target EXCEPT ![c] = NoSession]
     /\ UNCHANGED <<registered, cleanupVars, stopped>>

-----------------------------------------------------------------------------
(* The cleanup loop *)

\* The ticker fires: cleanup starts its Range over the map.
CleanupStart ==
  /\ sweep = "idle"
  /\ sweep' = "range"
  /\ todo' = registered
  /\ UNCHANGED <<sessionVars, target, cur, seen, pause, stopped, holders, late>>

\* Faulty variant of CleanupVisit: the session is not taken from the map entry.
CleanupVisit_Nil(s) ==
  /\ sweep = "range"
  /\ s \in todo \cap registered
  /\ todo' = todo \ {s}
  /\ sweep' = IF state[s] = "detached" THEN "stamp" ELSE sweep
  /\ UNCHANGED <<sessionVars, target, cur, pause, late, seen, stopped, holders>>

\* Range calls back for one key and GetState is read.  Only a detached session
\* is examined further.
CleanupVisit(s) ==
  /\ sweep = "range"
  /\ s \in todo \cap registered
  /\ todo' = todo \ {s}
  /\ \/ /\ state[s] = "detached"
        /\ sweep' = "stamp"
        /\ cur' = s
        /\ pause' = 0
        /\ late' = FALSE
     \/ /\ state[s] # "detached"
        /\ UNCHANGED <<sweep, cur, pause, late>>
  /\ UNCHANGED <<sessionVars, target, seen, stopped, holders>>

\* The argument of time.Since is loaded, without s.mu.
CleanupLoadStamp ==
  /\ sweep = "stamp"
  /\ seen' = age[cur]
  /\ sweep' = "clock"
  /\ UNCHANGED <<sessionVars, target, todo, cur, pause, stopped, holders, late>>

\* Faulty variant of CleanupCompare: the comparison is off by one.
CleanupCompare_OneEarly ==
  /\ sweep = "clock"
  /\ sweep' = IF seen >= TTL THEN "delete" ELSE "range"
  /\ UNCHANGED <<sessionVars, target, todo, cur, seen, pause, stopped, holders, late>>

\* Faulty variant of CleanupCompare: nothing is ever old enough.
CleanupCompare_Never ==
  /\ sweep = "clock"
  /\ sweep' = IF seen > TTL + 1 THEN "delete" ELSE "range"
  /\ UNCHANGED <<sessionVars, target, todo, cur, seen, pause, stopped, holders, late>>

\* time.Since reads the clock; the age of the loaded stamp is compared.
CleanupCompare ==
  /\ sweep = "clock"
  /\ sweep' = IF seen > TTL THEN "delete" ELSE "range"
  /\ UNCHANGED <<sessionVars, target, todo, cur, seen, pause, stopped, holders, late>>

\* m.sessions.Delete(key).
CleanupDelete ==
  /\ sweep = "delete"
  /\ registered' = registered \ {cur}
  /\ sweep' = "range"
  /\ UNCHANGED <<state, age, target, todo, cur, seen, pause, stopped, holders, late>>

\* Range has visited every key that is still there.
CleanupEnd ==
  /\ sweep = "range"
  /\ todo \cap registered = {}
  /\ sweep' = "idle"
  /\ todo' = {}
  /\ UNCHANGED <<sessionVars, target, cur, seen, pause, stopped, holders, late>>

\* Manager.Stop closes the channel; the loop leaves at its next select.
Stop == /\ ~stopped
        /\ stopped' = TRUE
        /\ UNCHANGED <<sessionVars, target, cleanupVars, holders, late>>

CleanupExit == /\ stopped /\ sweep = "idle"
               /\ sweep' = "gone"
               /\ UNCHANGED <<sessionVars, target, todo, cur, seen, pause,
                              stopped, holders, late>>

Cleanup == \/ CleanupStart
           \/ \E s \in Session : CleanupVisit(s)
           \/ CleanupLoadStamp \/ CleanupCompare \/ CleanupDelete
           \/ CleanupEnd \/ CleanupExit

\* One tick of the clock.  Ages saturate; the loaded stamp grows old with them.
Older(a) == IF a <= TTL THEN a + 1 ELSE a

Tick == /\ sweep \in Examining => pause < MaxPause
        /\ age' = [s \in Session |-> Older(age[s])]
        /\ seen' = Older(seen)
        /\ pause' = IF sweep \in Examining THEN pause + 1 ELSE pause
        /\ UNCHANGED <<registered, state, target, sweep, todo, cur, stopped,
                       holders, late>>

Next == \/ \E c \in Client, s \in Session :
             Register(c, s) \/ Detach(c, s) \/ SetClosed(c, s) \/ Get(c, s)
        \/ \E c \in Client : Attach(c)
        \/ \E s \in Session : Unregister(s)
        \/ Cleanup \/ Stop \/ Tick

Spec == Init /\ [][Next]_vars

\* Time passes, and the cleanup goroutine keeps running: its ticker fires and
\* no step of cleanup blocks.  Clients owe nothing.
FairSpec == Spec /\ WF_vars(Cleanup) /\ WF_vars(Tick)

-----------------------------------------------------------------------------
(* Properties *)

\* Attach hands a detached session to one handler only, however many
\* HandleReconnect calls have looked it up: no two connections ever own the
\* same shell, and a session nobody owns is not active.
OneOwner == \A s \in Session :
              /\ \A c, d \in holders[s] : c = d
              /\ holders[s] # {} <=> state[s] = "active"

\* cleanup takes from the registry only sessions that are past their TTL at the
\* moment of the deletion, although it looks at state, stamp and clock one after
\* the other and without the session's lock.  The exception is the window the
\* code leaves open: a session reclaimed during its own examination in the last
\* MaxPause ticks of the TTL.
OnlyOverdueReaped ==
  [][CleanupDelete /\ ~late => age[cur] > TTL /\ state[cur] # "active"]_vars

\* A session that is detached and never reclaimed leaves the registry, unless
\* the cleanup loop was stopped: its TTL is enforced by cleanup alone.
AbandonedReaped ==
  \A s \in Session :
    (s \in registered /\ state[s] = "detached")
      ~> (s \notin registered \/ state[s] # "detached" \/ stopped)
=============================================================================
