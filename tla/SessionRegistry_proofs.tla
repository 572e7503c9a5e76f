----------------------- MODULE SessionRegistry_proofs -----------------------
(***************************************************************************)
(* Proofs about SessionRegistry for every set of sessions and handlers,    *)
(* every TTL and every MaxPause <= TTL.                                    *)
(***************************************************************************)
EXTENDS SessionRegistry, TLAPS

(***************************************************************************)
(* What cleanup knows of the session it examines.  The state was detached  *)
(* when the examination began; what may have happened since is a reclaim.  *)
(*  - Before the stamp is loaded, a reclaim has reset the age, and the age *)
(*    is at most the length of the examination so far.                     *)
(*  - Once it is loaded, either the session has not been reclaimed since   *)
(*    and its age is at least that of the stamp, or it was reclaimed while *)
(*    the stamp was at least MaxPause short of the TTL, so that it cannot  *)
(*    pass the TTL before the examination ends, or the reclaim was late.   *)
(*  - A session about to be deleted is overdue, or its reclaim was late.   *)
(***************************************************************************)
SweepInv ==
  /\ sweep \in Examining => state[cur] # "unborn"
  /\ sweep = "stamp" => state[cur] # "active" \/ age[cur] <= pause
  /\ sweep = "clock" => \/ late
                        \/ seen + MaxPause <= TTL + pause
                        \/ seen <= age[cur] /\ state[cur] # "active"
  /\ sweep = "delete" => late \/ (age[cur] > TTL /\ state[cur] # "active")

Inv == TypeOK /\ OneOwner /\ SweepInv

\* Ageing by one tick, with saturation.
LEMMA OlderProperties ==
  ASSUME NEW a \in 0 .. TTL + 1
  PROVE  /\ Older(a) \in 0 .. TTL + 1 /\ a <= Older(a) /\ Older(a) <= a + 1
         /\ \A b \in 0 .. TTL + 1 : a <= b => Older(a) <= Older(b)
  BY TTLAssumption DEF Older

LEMMA InitInv == Init => Inv
<1> SUFFICES ASSUME Init PROVE Inv
  OBVIOUS
<1>1. TypeOK
  <2>1. stopped \in BOOLEAN /\ late \in BOOLEAN
    BY Zenon DEF Init
  <2>2. 0 \in 0 .. TTL + 1 /\ 0 \in 0 .. MaxPause
    BY TTLAssumption, MaxPauseAssumption
  <2>3. /\ state \in [Session -> State] /\ age \in [Session -> 0 .. TTL + 1]
        /\ target \in [Client -> Session \cup {NoSession}]
        /\ holders \in [Session -> SUBSET Client]
    BY <2>2 DEF Init, State
  <2>4. sweep \in {"idle", "range", "gone"} \cup Examining /\ sweep \notin Examining
    BY DEF Init, Examining
  <2>5. QED
    BY <2>1, <2>2, <2>3, <2>4, Zenon DEF Init, TypeOK
<1>2. OneOwner
  BY DEF Init, OneOwner
<1>3. SweepInv
  BY DEF Init, SweepInv, Examining
<1>4. QED
  BY <1>1, <1>2, <1>3 DEF Inv

-----------------------------------------------------------------------------
(* Types *)

LEMMA TypeStep == TypeOK /\ [Next]_vars => TypeOK'
<1> SUFFICES ASSUME TypeOK, [Next]_vars PROVE TypeOK'
  OBVIOUS
<1> USE TTLAssumption, MaxPauseAssumption DEF sessionVars, cleanupVars
<1>1. ASSUME NEW c \in Client, NEW s \in Session, Register(c, s) PROVE TypeOK'
  BY <1>1 DEF TypeOK, Register, State, Examining
<1>2. ASSUME NEW c \in Client, NEW s \in Session, Detach(c, s) PROVE TypeOK'
  BY <1>2 DEF TypeOK, Detach, State, Examining
<1>3. ASSUME NEW c \in Client, NEW s \in Session, SetClosed(c, s) PROVE TypeOK'
  BY <1>3 DEF TypeOK, SetClosed, State, Examining
<1>4. ASSUME NEW c \in Client, NEW s \in Session, Get(c, s) PROVE TypeOK'
  BY <1>4 DEF TypeOK, Get, State, Examining
<1>5. ASSUME NEW c \in Client, Attach(c) PROVE TypeOK'
  <2>1. target[c] \in Session
    BY <1>5 DEF TypeOK, Attach
  <2>2. /\ state' \in [Session -> State] /\ age' \in [Session -> 0 .. TTL + 1]
        /\ holders' \in [Session -> SUBSET Client]
    BY <1>5, <2>1 DEF TypeOK, Attach, State
  <2>3. late' \in BOOLEAN
    BY <1>5, Zenon DEF TypeOK, Attach
  <2>4. target' \in [Client -> Session \cup {NoSession}]
    BY <1>5 DEF TypeOK, Attach
  <2>5. UNCHANGED <<registered, sweep, todo, cur, seen, pause, stopped>>
    BY <1>5 DEF Attach
  <2>6. QED
    BY <2>2, <2>3, <2>4, <2>5 DEF TypeOK
<1>6. ASSUME NEW s \in Session, Unregister(s) PROVE TypeOK'
  BY <1>6 DEF TypeOK, Unregister, State, Examining
<1>7. ASSUME Cleanup PROVE TypeOK'
  <2>1. CASE CleanupStart
    BY <2>1 DEF TypeOK, CleanupStart, Examining
  <2>2. ASSUME NEW s \in Session, CleanupVisit(s) PROVE TypeOK'
    <3>1. /\ UNCHANGED <<registered, state, age, target, seen, stopped, holders>>
          /\ todo' \subseteq Session
      BY <2>2 DEF CleanupVisit, TypeOK
    <3>2. CASE sweep' = "stamp" /\ cur' = s /\ pause' = 0 /\ late' = FALSE
      <4>1. late' \in BOOLEAN
        BY <3>2, Zenon
      <4>2. pause' \in 0 .. MaxPause
        BY <3>2
      <4>3. sweep' \in {"idle", "range", "gone"} \cup Examining /\ cur' \in Session
        BY <3>2 DEF Examining
      <4>4. QED
        BY <3>1, <4>1, <4>2, <4>3, Zenon DEF TypeOK
    <3>3. CASE UNCHANGED <<sweep, cur, pause, late>>
      BY <3>1, <3>3 DEF TypeOK, Examining
    <3>4. QED
      BY <2>2, <3>2, <3>3 DEF CleanupVisit
  <2>3. CASE CleanupLoadStamp
    BY <2>3 DEF TypeOK, CleanupLoadStamp, Examining
  <2>4. CASE CleanupCompare
    BY <2>4 DEF TypeOK, CleanupCompare, Examining
  <2>5. CASE CleanupDelete
    BY <2>5 DEF TypeOK, CleanupDelete, Examining
  <2>6. CASE CleanupEnd
    BY <2>6 DEF TypeOK, CleanupEnd, Examining
  <2>7. CASE CleanupExit
    BY <2>7 DEF TypeOK, CleanupExit, Examining
  <2>8. QED
    BY <1>7, <2>1, <2>2, <2>3, <2>4, <2>5, <2>6, <2>7 DEF Cleanup
<1>8. CASE Stop
  BY <1>8 DEF TypeOK, Stop, Examining
<1>9. CASE Tick
  <2>1. \A s \in Session : Older(age[s]) \in 0 .. TTL + 1
    BY OlderProperties DEF TypeOK
  <2>2. age' \in [Session -> 0 .. TTL + 1]
    BY <1>9, <2>1 DEF Tick
  <2>3. seen' \in 0 .. TTL + 1
    BY <1>9, OlderProperties DEF Tick, TypeOK
  <2>4. pause' \in 0 .. MaxPause
    BY <1>9 DEF Tick, TypeOK
  <2>5. UNCHANGED <<registered, state, target, sweep, todo, cur, stopped, holders, late>>
    BY <1>9 DEF Tick
  <2>6. QED
    BY <2>2, <2>3, <2>4, <2>5 DEF TypeOK
<1>10. CASE UNCHANGED vars
  BY <1>10 DEF TypeOK, vars
<1>11. QED
  BY <1>1, <1>2, <1>3, <1>4, <1>5, <1>6, <1>7, <1>8, <1>9, <1>10 DEF Next

-----------------------------------------------------------------------------
(* Ownership *)

\* Steps that touch neither the states nor the owners.
LEMMA OwnerUnchanged ==
  ASSUME OneOwner, UNCHANGED <<state, holders>>
  PROVE  OneOwner'
  BY DEF OneOwner

LEMMA OwnerStep == TypeOK /\ OneOwner /\ [Next]_vars => OneOwner'
<1> SUFFICES ASSUME TypeOK, OneOwner, [Next]_vars PROVE OneOwner'
  OBVIOUS
<1> USE DEF sessionVars, cleanupVars
<1>1. ASSUME NEW c \in Client, NEW s \in Session, Register(c, s) PROVE OneOwner'
  BY <1>1 DEF TypeOK, OneOwner, Register
<1>2. ASSUME NEW c \in Client, NEW s \in Session, Detach(c, s) PROVE OneOwner'
  BY <1>2 DEF TypeOK, OneOwner, Detach
<1>3. ASSUME NEW c \in Client, NEW s \in Session, SetClosed(c, s) PROVE OneOwner'
  BY <1>3 DEF TypeOK, OneOwner, SetClosed
<1>4. ASSUME NEW c \in Client, NEW s \in Session, Get(c, s) PROVE OneOwner'
  BY <1>4, OwnerUnchanged DEF Get
<1>5. ASSUME NEW c \in Client, Attach(c) PROVE OneOwner'
  <2> DEFINE s == target[c]
  <2>1. s \in Session
    BY <1>5 DEF TypeOK, Attach
  <2> HIDE DEF s
  <2>2. CASE /\ CanReconnect(s)
             /\ state' = [state EXCEPT ![s] = "active"]
             /\ holders' = [holders EXCEPT ![s] = @ \cup {c}]
    <3>1. holders[s] = {}
      BY <2>1, <2>2 DEF OneOwner, CanReconnect
    <3>2. QED
      BY <2>1, <2>2, <3>1 DEF TypeOK, OneOwner
  <2>3. CASE /\ IsExpired(s)
             /\ state' = [state EXCEPT ![s] = "expired"]
             /\ holders' = holders
    BY <2>1, <2>3 DEF TypeOK, OneOwner, IsExpired
  <2>4. CASE UNCHANGED <<state, holders>>
    BY <2>4, OwnerUnchanged
  <2>5. QED
    BY <1>5, <2>2, <2>3, <2>4 DEF Attach, s
<1>6. ASSUME NEW s \in Session, Unregister(s) PROVE OneOwner'
  BY <1>6, OwnerUnchanged DEF Unregister
<1>7. CASE Cleanup
  BY <1>7, OwnerUnchanged DEF Cleanup, CleanupStart, CleanupVisit, CleanupLoadStamp,
     CleanupCompare, CleanupDelete, CleanupEnd, CleanupExit
<1>8. CASE Stop
  BY <1>8, OwnerUnchanged DEF Stop
<1>9. CASE Tick
  BY <1>9, OwnerUnchanged DEF Tick
<1>10. CASE UNCHANGED vars
  BY <1>10, OwnerUnchanged DEF vars
<1>11. QED
  BY <1>1, <1>2, <1>3, <1>4, <1>5, <1>6, <1>7, <1>8, <1>9, <1>10 DEF Next

-----------------------------------------------------------------------------
(* The examination of a session by cleanup *)

\* Steps that touch nothing SweepInv speaks of.
LEMMA SweepUnchanged ==
  ASSUME SweepInv, UNCHANGED <<sweep, state, age, cur, seen, pause, late>>
  PROVE  SweepInv'
  BY DEF SweepInv

\* Registering, detaching and closing: the session under examination is none of
\* those it could be harmed by.
LEMMA HandlerSweep ==
  ASSUME TypeOK, OneOwner, SweepInv, NEW c \in Client, NEW s \in Session,
         Register(c, s) \/ Detach(c, s) \/ SetClosed(c, s)
  PROVE  SweepInv'
<1> USE TTLAssumption, MaxPauseAssumption DEF sessionVars, cleanupVars
<1>0. UNCHANGED <<sweep, cur, seen, pause, late>>
  BY DEF Register, Detach, SetClosed
<1>1. CASE s # cur \/ sweep \notin Examining
  <2>1. sweep \in Examining => state'[cur] = state[cur] /\ age'[cur] = age[cur]
    BY <1>1 DEF TypeOK, Register, Detach, SetClosed
  <2>2. QED
    BY <1>0, <2>1 DEF SweepInv, Examining
<1>2. CASE s = cur /\ sweep \in Examining
  <2>1. state[s] # "unborn"
    BY <1>2 DEF SweepInv
  <2>2. state[s] = "active" /\ (Detach(c, s) \/ SetClosed(c, s))
    BY <2>1 DEF Register, Detach, SetClosed, OneOwner
  <2>3. state'[s] \in {"detached", "closed"}
    BY <2>2 DEF Detach, SetClosed, TypeOK
  <2>4. sweep \in {"clock", "delete"} =>
          late \/ (sweep = "clock" /\ seen + MaxPause <= TTL + pause)
    BY <1>2, <2>2 DEF SweepInv
  <2>5. QED
    BY <1>0, <1>2, <2>3, <2>4 DEF SweepInv, Examining
<1>3. QED
  BY <1>1, <1>2

\* A reclaim of the session under examination: it resets the age, and once the
\* stamp is loaded it is either early enough or recorded as late.
LEMMA AttachSweep ==
  ASSUME TypeOK, SweepInv, NEW c \in Client, Attach(c)
  PROVE  SweepInv'
<1> USE TTLAssumption, MaxPauseAssumption DEF cleanupVars
<1> DEFINE s == target[c]
<1>1. s \in Session /\ UNCHANGED <<sweep, cur, seen, pause>>
  BY DEF TypeOK, Attach
<1> HIDE DEF s
<1>2. CASE UNCHANGED <<state, age, late>>
  BY <1>1, <1>2, SweepUnchanged
<1>3. CASE /\ IsExpired(s)
           /\ state' = [state EXCEPT ![s] = "expired"]
           /\ UNCHANGED <<age, late>>
  BY <1>1, <1>3 DEF SweepInv, TypeOK, Examining
<1>4. CASE /\ CanReconnect(s)
           /\ state' = [state EXCEPT ![s] = "active"]
           /\ age' = [age EXCEPT ![s] = 0]
           /\ late' = (late \/ (s = cur /\ sweep \in Examining /\ age[s] > TTL - MaxPause))
  <2>1. late => late'
    BY <1>4
  <2>2. CASE s # cur
    <3>1. sweep \in Examining => state'[cur] = state[cur] /\ age'[cur] = age[cur]
      BY <1>1, <1>4, <2>2 DEF TypeOK
    <3>2. QED
      BY <1>1, <2>1, <3>1 DEF SweepInv, Examining
  <2>3. CASE s = cur /\ sweep \in Examining
    <3>1. state'[cur] = "active" /\ age'[cur] = 0
      BY <1>1, <1>4, <2>3 DEF TypeOK
    <3>2. age[cur] \in 0 .. TTL /\ pause \in 0 .. MaxPause /\ seen \in 0 .. TTL + 1
      BY <1>1, <1>4, <2>3 DEF TypeOK, CanReconnect
    <3>3. CASE sweep = "stamp"
      BY <1>1, <3>1, <3>2, <3>3 DEF SweepInv, Examining
    <3>4. CASE sweep = "clock"
      <4>1. CASE age[cur] > TTL - MaxPause
        <5>1. late'
          BY <1>4, <2>3, <4>1
        <5>2. QED
          BY <1>1, <3>1, <3>4, <5>1 DEF SweepInv
      <4>2. CASE age[cur] <= TTL - MaxPause
        <5>1. late \/ seen + MaxPause <= TTL + pause
          BY <3>2, <3>4, <4>2 DEF SweepInv
        <5>2. QED
          BY <1>1, <2>1, <3>1, <3>4, <5>1 DEF SweepInv
      <4>3. QED
        BY <3>2, <4>1, <4>2
    <3>5. CASE sweep = "delete"
      <4>1. late
        BY <3>2, <3>5 DEF SweepInv
      <4>2. QED
        BY <1>1, <2>1, <3>1, <3>5, <4>1 DEF SweepInv
    <3>6. QED
      BY <2>3, <3>3, <3>4, <3>5 DEF Examining
  <2>4. CASE sweep \notin Examining
    BY <1>1, <2>4 DEF SweepInv, Examining
  <2>5. QED
    BY <2>2, <2>3, <2>4
<1>5. QED
  BY <1>2, <1>3, <1>4 DEF Attach, s

\* A tick ages the session, the loaded stamp and the examination together.
LEMMA TickSweep ==
  ASSUME TypeOK, SweepInv, Tick
  PROVE  SweepInv'
<1> USE TTLAssumption, MaxPauseAssumption
<1>1. UNCHANGED <<sweep, state, cur, late>>
  BY DEF Tick
<1>2. CASE sweep \notin Examining
  BY <1>1, <1>2 DEF SweepInv, Examining
<1>3. CASE sweep \in Examining
  <2>1. /\ cur \in Session /\ age[cur] \in 0 .. TTL + 1
        /\ seen \in 0 .. TTL + 1 /\ pause \in 0 .. MaxPause
    BY <1>3 DEF TypeOK
  <2>2. age'[cur] = Older(age[cur]) /\ seen' = Older(seen) /\ pause' = pause + 1
    BY <1>3, <2>1 DEF Tick
  <2>3. /\ age[cur] <= Older(age[cur]) /\ Older(age[cur]) <= age[cur] + 1
        /\ Older(seen) <= seen + 1
        /\ seen <= age[cur] => Older(seen) <= Older(age[cur])
        /\ Older(age[cur]) \in 0 .. TTL + 1 /\ Older(seen) \in 0 .. TTL + 1
    BY <2>1, OlderProperties
  <2>4. sweep = "stamp" => state'[cur] # "active" \/ age'[cur] <= pause'
    BY <1>1, <2>1, <2>2, <2>3 DEF SweepInv
  <2>5. sweep = "clock" => \/ late
                           \/ seen' + MaxPause <= TTL + pause'
                           \/ seen' <= age'[cur] /\ state'[cur] # "active"
    BY <1>1, <2>1, <2>2, <2>3 DEF SweepInv
  <2>6. sweep = "delete" => late \/ (age'[cur] > TTL /\ state'[cur] # "active")
    BY <1>1, <2>1, <2>2, <2>3 DEF SweepInv
  <2>7. QED
    BY <1>1, <2>4, <2>5, <2>6 DEF SweepInv
<1>4. QED
  BY <1>2, <1>3

\* The steps of the cleanup loop itself.
LEMMA CleanupSweep ==
  ASSUME TypeOK, SweepInv, Cleanup
  PROVE  SweepInv'
<1> USE TTLAssumption, MaxPauseAssumption DEF sessionVars
<1>1. CASE CleanupStart
  BY <1>1 DEF CleanupStart, SweepInv, Examining
<1>2. ASSUME NEW s \in Session, CleanupVisit(s) PROVE SweepInv'
  <2>1. CASE state[s] = "detached" /\ sweep' = "stamp" /\ cur' = s
    BY <1>2, <2>1 DEF CleanupVisit, SweepInv, Examining
  <2>2. CASE UNCHANGED <<sweep, cur, pause, late>>
    BY <1>2, <2>2 DEF CleanupVisit, SweepInv, Examining
  <2>3. QED
    BY <1>2, <2>1, <2>2 DEF CleanupVisit
<1>3. CASE CleanupLoadStamp
  <2>1. age[cur] \in 0 .. TTL + 1 /\ pause \in 0 .. MaxPause
    BY <1>3 DEF CleanupLoadStamp, TypeOK, Examining
  <2>2. UNCHANGED <<state, age, cur, pause, late>> /\ seen' = age[cur]
        /\ sweep = "stamp" /\ sweep' = "clock"
    BY <1>3 DEF CleanupLoadStamp
  <2>3. seen' + MaxPause <= TTL + pause' \/ (seen' <= age'[cur] /\ state'[cur] # "active")
    BY <2>1, <2>2 DEF SweepInv
  <2>4. QED
    BY <2>2, <2>3 DEF SweepInv, Examining
<1>4. CASE CleanupCompare
  <2>1. /\ age[cur] \in 0 .. TTL + 1 /\ pause \in 0 .. MaxPause
        /\ seen \in 0 .. TTL + 1
    BY <1>4 DEF CleanupCompare, TypeOK, Examining
  <2>2. /\ UNCHANGED <<state, age, cur, pause, late>> /\ sweep = "clock"
        /\ sweep' = IF seen > TTL THEN "delete" ELSE "range"
    BY <1>4 DEF CleanupCompare
  <2>3. seen > TTL => late \/ (age[cur] > TTL /\ state[cur] # "active")
    BY <2>1, <2>2 DEF SweepInv
  <2>4. QED
    BY <2>2, <2>3 DEF SweepInv, Examining
<1>5. CASE CleanupDelete
  BY <1>5 DEF CleanupDelete, SweepInv, Examining
<1>6. CASE CleanupEnd
  BY <1>6 DEF CleanupEnd, SweepInv, Examining
<1>7. CASE CleanupExit
  BY <1>7 DEF CleanupExit, SweepInv, Examining
<1>8. QED
  BY <1>1, <1>2, <1>3, <1>4, <1>5, <1>6, <1>7 DEF Cleanup

-----------------------------------------------------------------------------
(* The theorems *)

LEMMA NextInv == Inv /\ [Next]_vars => Inv'
<1> SUFFICES ASSUME Inv, [Next]_vars PROVE Inv'
  OBVIOUS
<1>1. TypeOK /\ OneOwner /\ SweepInv
  BY DEF Inv
<1>2. TypeOK' /\ OneOwner'
  BY <1>1, TypeStep, OwnerStep
<1>3. SweepInv'
  <2> USE DEF sessionVars, cleanupVars
  <2>1. ASSUME NEW c \in Client, NEW s \in Session,
               Register(c, s) \/ Detach(c, s) \/ SetClosed(c, s)
        PROVE  SweepInv'
    BY <1>1, <2>1, HandlerSweep
  <2>2. ASSUME NEW c \in Client, NEW s \in Session, Get(c, s) PROVE SweepInv'
    BY <1>1, <2>2, SweepUnchanged DEF Get
  <2>3. ASSUME NEW c \in Client, Attach(c) PROVE SweepInv'
    BY <1>1, <2>3, AttachSweep
  <2>4. ASSUME NEW s \in Session, Unregister(s) PROVE SweepInv'
    BY <1>1, <2>4, SweepUnchanged DEF Unregister
  <2>5. CASE Cleanup
    BY <1>1, <2>5, CleanupSweep
  <2>6. CASE Stop
    BY <1>1, <2>6, SweepUnchanged DEF Stop
  <2>7. CASE Tick
    BY <1>1, <2>7, TickSweep
  <2>8. CASE UNCHANGED vars
    BY <1>1, <2>8, SweepUnchanged DEF vars
  <2>9. QED
    BY <2>1, <2>2, <2>3, <2>4, <2>5, <2>6, <2>7, <2>8 DEF Next
<1>4. QED
  BY <1>2, <1>3 DEF Inv

\* The inductive invariant holds in every reachable state.
THEOREM InvHolds == Spec => []Inv
  BY InitInv, NextInv, PTL DEF Spec

\* Every variable keeps its type; cleanup always has a session in hand while it
\* examines one.
THEOREM TypeCorrect == Spec => []TypeOK
<1>1. Inv => TypeOK
  BY DEF Inv
<1>2. QED
  BY <1>1, InvHolds, PTL

\* However many handlers look a detached session up, Attach gives it to one.
THEOREM OneOwnerCorrect == Spec => []OneOwner
<1>1. Inv => OneOwner
  BY DEF Inv
<1>2. QED
  BY <1>1, InvHolds, PTL

\* The unlocked, four-step examination of cleanup removes overdue sessions
\* only, up to reclaims in the last MaxPause ticks of the TTL.
THEOREM CleanupCorrect == Spec => OnlyOverdueReaped
<1>1. Inv /\ [Next]_vars =>
        [CleanupDelete /\ ~late => age[cur] > TTL /\ state[cur] # "active"]_vars
  BY DEF Inv, SweepInv, CleanupDelete
<1>2. QED
  BY <1>1, InvHolds, PTL DEF Spec, OnlyOverdueReaped
=============================================================================
