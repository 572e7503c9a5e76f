--------------------------- MODULE Gateway_proofs ---------------------------
(***************************************************************************)
(* The process of the gateway, at its gate (Admission) and at its end      *)
(* (Handover).                                                             *)
(*                                                                         *)
(* The rate limiter keeps its promise for every window, every limit and    *)
(* every number of addresses and requests.  WindowBound is not inductive:  *)
(* the limiter has forgotten most grants.  What it has forgotten is too    *)
(* old to matter (ForgottenExpired), and the grants are in order.          *)
(*                                                                         *)
(* Graceful restart leaks no listener and tells a new process all that it  *)
(* must know, for every number of signals, crashes, connections and new    *)
(* processes.  HandedComplete is not inductive: it speaks of processes     *)
(* that have been served, and what they get is gm.state at that moment,    *)
(* perhaps of a later round.  What the proof needs is that gm.state only   *)
(* grows within a process (Collected): a round begins to collect with all  *)
(* that the round before has found.  So whoever waits at a listener of     *)
(* this process will do with any later gm.state (Promised).                *)
(***************************************************************************)
EXTENDS Admission, Handover, FiniteSetTheorems, SequenceTheorems, TLAPS

\* What the limiter keeps are grants that were made.
KeptGranted == \A k \in Key : requests[k] \subseteq 1..Len(granted[k])

\* The grants of an address are in the order of time, and in the past.
InOrder == \A k \in Key :
             /\ \A i \in 1..Len(granted[k]) : granted[k][i] <= now
             /\ \A i, j \in 1..Len(granted[k]) : i <= j => granted[k][i] <= granted[k][j]

\* What the limiter has forgotten is out of the running window.
ForgottenExpired ==
  \A k \in Key : \A i \in 1..Len(granted[k]) :
    i \notin requests[k] => granted[k][i] <= now - Window

\* The request at the limiter has a key.
KeyKnown == \A r \in Request : pc[r] = "limit" => key[r] \in Key

Inv == TypeOK /\ KeptGranted /\ InOrder /\ ForgottenExpired /\ KeyKnown /\ WindowBound

-----------------------------------------------------------------------------
\* Filtering keeps a finite set of grants that are recent.
LEMMA ValidProperties ==
  ASSUME Inv, NEW k \in Key
  PROVE  /\ Valid(k) \subseteq requests[k]
         /\ Valid(k) \subseteq 1..Len(granted[k])
         /\ IsFiniteSet(Valid(k))
         /\ Cardinality(Valid(k)) \in Nat
         /\ \A i \in 1..Len(granted[k]) : i \notin Valid(k) => granted[k][i] <= now - Window
         /\ \A i \in Valid(k) : granted[k][i] > now - Window
<1>1. Len(granted[k]) \in Nat /\ granted[k] \in Seq(0..MaxTime)
  BY DEF Inv, TypeOK
<1>2. Valid(k) \subseteq requests[k] /\ Valid(k) \subseteq 1..Len(granted[k])
  BY DEF Inv, KeptGranted, Valid
<1>3. IsFiniteSet(1..Len(granted[k]))
  BY <1>1, FS_Interval
<1>4. IsFiniteSet(Valid(k)) /\ Cardinality(Valid(k)) \in Nat
  BY <1>2, <1>3, FS_Subset, FS_CardinalityType
<1>5. \A i \in 1..Len(granted[k]) : i \notin Valid(k) => granted[k][i] <= now - Window
  <2> SUFFICES ASSUME NEW i \in 1..Len(granted[k]), i \notin Valid(k)
               PROVE  granted[k][i] <= now - Window
    OBVIOUS
  <2>1. granted[k][i] \in Int /\ now - Window \in Int
    BY <1>1, WindowAssumption, MaxTimeAssumption DEF Inv, TypeOK
  <2>2. CASE i \in requests[k]
    BY <2>1, <2>2 DEF Valid
  <2>3. CASE i \notin requests[k]
    BY <2>3 DEF Inv, ForgottenExpired
  <2> QED BY <2>2, <2>3
<1>6. \A i \in Valid(k) : granted[k][i] > now - Window
  BY DEF Valid
<1> QED BY <1>2, <1>4, <1>5, <1>6

\* When fewer than Max grants are recent, the one Max places before the next is not.
LEMMA RoomInWindow ==
  ASSUME Inv, NEW k \in Key, Cardinality(Valid(k)) < Max, Len(granted[k]) >= Max
  PROVE  granted[k][Len(granted[k]) + 1 - Max] + Window <= now
<1> DEFINE n == Len(granted[k])
           S == (n + 1 - Max)..n
<1>1. n \in Nat /\ granted[k] \in Seq(0..MaxTime) /\ Max \in Nat /\ Max > 0 /\ Max <= n
  BY MaxAssumption DEF Inv, TypeOK
<1>2. IsFiniteSet(S) /\ Cardinality(S) = Max
  <2>1. n + 1 - Max \in Int /\ n \in Int
    BY <1>1
  <2>2. IsFiniteSet(S) /\ Cardinality(S) = IF n + 1 - Max > n THEN 0 ELSE n - (n + 1 - Max) + 1
    BY <2>1, FS_Interval
  <2> QED BY <1>1, <2>2
<1>3. ~(S \subseteq Valid(k))
  <2> SUFFICES ASSUME S \subseteq Valid(k) PROVE FALSE
    OBVIOUS
  <2>1. Cardinality(S) <= Cardinality(Valid(k))
    BY ValidProperties, FS_Subset
  <2> QED BY <2>1, <1>1, <1>2, ValidProperties
<1>4. PICK i \in S : i \notin Valid(k)
  BY <1>3
<1>5. i \in 1..n /\ n + 1 - Max \in 1..n /\ n + 1 - Max <= i
  BY <1>1, <1>4
<1>6. granted[k][i] <= now - Window
  BY <1>4, <1>5, ValidProperties
<1>7. granted[k][n + 1 - Max] <= granted[k][i]
  BY <1>5 DEF Inv, InOrder
<1>8. granted[k][i] \in Int /\ granted[k][n + 1 - Max] \in Int /\ now \in Int /\ Window \in Int
  <2>1. now \in Int /\ Window \in Int
    BY WindowAssumption, MaxTimeAssumption DEF Inv, TypeOK
  <2>2. granted[k][i] \in 0..MaxTime /\ granted[k][n + 1 - Max] \in 0..MaxTime
    BY <1>1, <1>5, ElementOfSeq
  <2> QED BY <2>1, <2>2, MaxTimeAssumption
<1> QED BY <1>6, <1>7, <1>8

-----------------------------------------------------------------------------
\* The invariant holds when the guard has been set up.
LEMMA InitInv == Init => Inv
<1> SUFFICES ASSUME Init PROVE Inv
  OBVIOUS
<1>1. TypeOK
  BY FDLimitAssumption, MaxTimeAssumption DEF Init, TypeOK
<1>2. \A k \in Key : Len(granted[k]) = 0 /\ requests[k] = {} /\ granted[k] = <<>>
  BY DEF Init
<1>3. KeptGranted /\ InOrder /\ ForgottenExpired
  BY <1>2 DEF KeptGranted, InOrder, ForgottenExpired
<1>4. KeyKnown
  BY DEF Init, KeyKnown
<1>5. WindowBound
  BY <1>2 DEF WindowBound
<1> QED BY <1>1, <1>3, <1>4, <1>5 DEF Inv

\* A grant keeps the invariant: the window has room for it.
LEMMA GrantedInv ==
  ASSUME Inv, NEW r \in Request, pc[r] = "limit",
         Cardinality(Valid(key[r])) < Max, Granted(r),
         UNCHANGED <<now, cbVars, key>>
  PROVE  Inv'
<1> DEFINE k == key[r]
           n == Len(granted[k])
<1>1. k \in Key
  BY DEF Inv, KeyKnown
<1>2. /\ n \in Nat /\ granted[k] \in Seq(0..MaxTime) /\ now \in 0..MaxTime
      /\ Max \in Nat /\ Max > 0 /\ Window \in Nat /\ Window > 0 /\ MaxTime \in Nat
  BY <1>1, MaxAssumption, WindowAssumption, MaxTimeAssumption DEF Inv, TypeOK
<1>3. /\ granted' = [granted EXCEPT ![k] = Append(granted[k], now)]
      /\ requests' = [requests EXCEPT ![k] = Valid(k) \cup {n + 1}]
      /\ pc' = [pc EXCEPT ![r] = "breaker"]
  BY DEF Granted
<1>4. /\ granted'[k] = Append(granted[k], now) /\ Len(granted'[k]) = n + 1
      /\ requests'[k] = Valid(k) \cup {n + 1}
      /\ \A i \in 1..n : granted'[k][i] = granted[k][i]
      /\ granted'[k][n + 1] = now
      /\ granted'[k] \in Seq(0..MaxTime)
  BY <1>1, <1>2, <1>3 DEF Inv, TypeOK
<1>a. \A i \in 1..n+1 : i = n + 1 \/ i \in 1..n
  <2>1. n \in Nat
    BY <1>2
  <2> HIDE DEF n
  <2> QED BY <2>1
<1>5. \A h \in Key : h # k => granted'[h] = granted[h] /\ requests'[h] = requests[h]
  BY <1>1, <1>3 DEF Inv, TypeOK
<1>6. TypeOK'
  <2>1. granted' \in [Key -> Seq(0..MaxTime)]
    BY <1>1, <1>3, <1>4 DEF Inv, TypeOK
  <2>2. requests' \in [Key -> SUBSET (Nat \ {0})]
    <3>1. Valid(k) \cup {n + 1} \in SUBSET (Nat \ {0})
      BY <1>1, <1>2, ValidProperties
    <3> QED BY <3>1, <1>1, <1>3 DEF Inv, TypeOK
  <2>3. pc' \in [Request -> {"new", "limit", "breaker", "429", "503", "upgrade"}]
    BY <1>3 DEF Inv, TypeOK
  <2> QED BY <2>1, <2>2, <2>3 DEF Inv, TypeOK, cbVars
<1>7. KeptGranted'
  <2> SUFFICES ASSUME NEW h \in Key PROVE requests'[h] \subseteq 1..Len(granted'[h])
    BY DEF KeptGranted
  <2>1. CASE h = k
    BY <2>1, <1>1, <1>2, <1>4, ValidProperties
  <2>2. CASE h # k
    BY <2>2, <1>5 DEF Inv, KeptGranted
  <2> QED BY <2>1, <2>2
<1>8. InOrder'
  <2> SUFFICES ASSUME NEW h \in Key
               PROVE  /\ \A i \in 1..Len(granted'[h]) : granted'[h][i] <= now
                      /\ \A i, j \in 1..Len(granted'[h]) :
                           i <= j => granted'[h][i] <= granted'[h][j]
    BY DEF InOrder
  <2>1. CASE h = k
    <3>1. \A i \in 1..n : granted[k][i] <= now /\ granted[k][i] \in Int
      BY <1>1, <1>2 DEF Inv, InOrder
    <3>2. ASSUME NEW i \in 1..n+1 PROVE granted'[k][i] <= now
      <4>1. CASE i = n + 1
        BY <4>1, <1>2, <1>4
      <4>2. CASE i \in 1..n
        BY <4>2, <3>1, <1>4
      <4> QED BY <4>1, <4>2, <1>a
    <3>3. ASSUME NEW i \in 1..n+1, NEW j \in 1..n+1, i <= j
          PROVE  granted'[k][i] <= granted'[k][j]
      <4>1. CASE j = n + 1
        BY <4>1, <3>2, <1>4
      <4>2. CASE j \in 1..n
        <5>1. i \in 1..n
          BY <4>2, <3>3, <1>2
        <5> QED BY <5>1, <4>2, <3>3, <1>1, <1>4 DEF Inv, InOrder
      <4> QED BY <4>1, <4>2, <1>a
    <3> QED BY <2>1, <3>2, <3>3, <1>4
  <2>2. CASE h # k
    BY <2>2, <1>5 DEF Inv, InOrder
  <2> QED BY <2>1, <2>2
<1>9. ForgottenExpired'
  <2> SUFFICES ASSUME NEW h \in Key, NEW i \in 1..Len(granted'[h]), i \notin requests'[h]
               PROVE  granted'[h][i] <= now - Window
    BY DEF ForgottenExpired
  <2>1. CASE h = k
    <3>1. i \in 1..n /\ i \notin Valid(k)
      BY <2>1, <1>2, <1>4
    <3> QED BY <3>1, <2>1, <1>1, <1>4, ValidProperties
  <2>2. CASE h # k
    BY <2>2, <1>5 DEF Inv, ForgottenExpired
  <2> QED BY <2>1, <2>2
<1>10. KeyKnown'
  BY <1>3 DEF Inv, KeyKnown, TypeOK
<1>11. WindowBound'
  <2> SUFFICES ASSUME NEW h \in Key, NEW i \in DOMAIN granted'[h], i > Max
               PROVE  granted'[h][i] >= granted'[h][i - Max] + Window
    BY DEF WindowBound
  <2>1. CASE h # k
    BY <2>1, <1>5 DEF Inv, WindowBound
  <2>2. CASE h = k
    <3>1. i \in 1..n+1
      BY <2>2, <1>2, <1>4
    <3>2. CASE i = n + 1
      <4>1. n >= Max /\ n + 1 - Max \in 1..n
        BY <3>2, <1>2
      <4>2. granted[k][n + 1 - Max] + Window <= now
        BY <4>1, <1>1, RoomInWindow
      <4>3. ASSUME NEW j \in 1..n
            PROVE  granted'[k][j] = granted[k][j] /\ granted[k][j] \in Int
        BY <4>3, <1>2, <1>4
      <4>4. granted'[k][n + 1 - Max] = granted[k][n + 1 - Max] /\ granted[k][n + 1 - Max] \in Int
        BY <4>1, <4>3
      <4> QED BY <4>2, <4>4, <3>2, <2>2, <1>2, <1>4
    <3>3. CASE i \in 1..n
      <4>1. i - Max \in 1..n
        BY <3>3, <1>2
      <4>2. granted[k][i] >= granted[k][i - Max] + Window
        BY <3>3, <4>1, <1>1, <1>2, SMTT(30) DEF Inv, WindowBound
      <4> QED BY <4>1, <4>2, <3>3, <2>2, <1>4
    <3> QED BY <3>1, <3>2, <3>3, <1>a
  <2> QED BY <2>1, <2>2
<1> QED BY <1>6, <1>7, <1>8, <1>9, <1>10, <1>11 DEF Inv

\* Dropping expired time stamps, of any of the addresses, keeps the invariant.
LEMMA FilterInv ==
  ASSUME Inv, TypeOK', UNCHANGED <<now, granted>>, KeyKnown',
         \A k \in Key : requests'[k] = requests[k] \/ requests'[k] = Valid(k)
  PROVE  Inv'
<1>1. KeptGranted'
  BY ValidProperties DEF Inv, KeptGranted
<1>2. InOrder' /\ WindowBound'
  BY DEF Inv, InOrder, WindowBound
<1>3. ForgottenExpired'
  BY ValidProperties DEF Inv, ForgottenExpired
<1> QED BY <1>1, <1>2, <1>3 DEF Inv

\* Steps that leave the limiter alone keep the invariant, the clock going forward.
LEMMA OtherInv ==
  ASSUME Inv, TypeOK', UNCHANGED limVars, now' >= now, KeyKnown'
  PROVE  Inv'
<1>1. now \in Int /\ now' \in Int /\ Window \in Int
  BY WindowAssumption, MaxTimeAssumption DEF Inv, TypeOK
<1>2. \A k \in Key : \A i \in 1..Len(granted[k]) : granted[k][i] \in Int
  BY MaxTimeAssumption DEF Inv, TypeOK
<1>3. KeptGranted' /\ WindowBound'
  BY DEF Inv, KeptGranted, WindowBound, limVars
<1>4. InOrder'
  BY <1>1, <1>2 DEF Inv, InOrder, limVars
<1>5. ForgottenExpired'
  BY <1>1, <1>2 DEF Inv, ForgottenExpired, limVars
<1> QED BY <1>3, <1>4, <1>5 DEF Inv

\* Every step keeps the invariant.
LEMMA NextInv == Inv /\ [Next]_vars => Inv'
<1> SUFFICES ASSUME Inv, [Next]_vars PROVE Inv'
  OBVIOUS
<1>0. now \in Int /\ MaxTime \in Nat /\ FDLimit \in Nat /\ TypeOK
  BY MaxTimeAssumption, FDLimitAssumption DEF Inv, TypeOK
<1>1. CASE Tick
  <2>1. TypeOK' /\ now' >= now
    BY <1>0, <1>1 DEF Tick, TypeOK, limVars, cbVars, reqVars
  <2>2. KeyKnown'
    BY <1>1 DEF Tick, Inv, KeyKnown, reqVars
  <2> QED BY <2>1, <2>2, <1>1, OtherInv DEF Tick
<1>2. CASE FdsChange
  <2>1. TypeOK' /\ now' >= now
    BY <1>0, <1>2 DEF FdsChange, TypeOK, limVars, reqVars
  <2>2. KeyKnown'
    BY <1>2 DEF FdsChange, Inv, KeyKnown, reqVars
  <2> QED BY <2>1, <2>2, <1>2, OtherInv DEF FdsChange
<1>3. CASE Cleanup
  <2>1. requests' \in [Key -> SUBSET (Nat \ {0})]
    BY <1>0, <1>3, ValidProperties DEF Cleanup, TypeOK
  <2>2. TypeOK'
    BY <1>0, <1>3, <2>1 DEF Cleanup, TypeOK, cbVars, reqVars
  <2>3. KeyKnown'
    BY <1>3 DEF Cleanup, Inv, KeyKnown, reqVars
  <2>4. \A k \in Key : requests'[k] = Valid(k)
    BY <1>3 DEF Cleanup
  <2> QED BY <2>2, <2>3, <2>4, <1>3, FilterInv DEF Cleanup
<1>4. CASE GetCurrentFDUsage
  <2>1. TypeOK' /\ now' >= now
    BY <1>0, <1>4 DEF GetCurrentFDUsage, TypeOK, limVars, reqVars
  <2>2. KeyKnown'
    BY <1>4 DEF GetCurrentFDUsage, Inv, KeyKnown, reqVars
  <2> QED BY <2>1, <2>2, <1>4, OtherInv DEF GetCurrentFDUsage
<1>5. CASE CheckAndUpdate
  <2>1. Level(sampled) \in {"normal", "warning", "open"}
    BY DEF Level
  <2>2. TypeOK' /\ now' >= now
    BY <1>0, <1>5, <2>1 DEF CheckAndUpdate, TypeOK, limVars, reqVars
  <2>3. KeyKnown'
    BY <1>5 DEF CheckAndUpdate, Inv, KeyKnown, reqVars
  <2> QED BY <2>2, <2>3, <1>5, OtherInv DEF CheckAndUpdate
<1>6. ASSUME NEW r \in Request, Arrive(r) PROVE Inv'
  <2>1. \A a \in Arrival : extractIP(a) \in Key
    BY ArrivalAssumption DEF extractIP, Key
  <2>2. TypeOK' /\ now' >= now
    BY <1>0, <1>6, <2>1 DEF Arrive, TypeOK, limVars, cbVars
  <2>3. KeyKnown'
    BY <1>0, <1>6, <2>1 DEF Arrive, Inv, KeyKnown, TypeOK
  <2> QED BY <2>2, <2>3, <1>6, OtherInv DEF Arrive
<1>7. ASSUME NEW r \in Request, Allow(r) PROVE Inv'
  <2>1. key[r] \in Key
    BY <1>7 DEF Allow, Inv, KeyKnown
  <2>2. Cardinality(Valid(key[r])) \in Nat
    BY <2>1, ValidProperties
  <2>3. CASE Cardinality(Valid(key[r])) >= Max
    <3>1. Refused(r) /\ UNCHANGED <<now, cbVars, key>>
      BY <1>7, <2>3 DEF Allow
    <3>2. requests' \in [Key -> SUBSET (Nat \ {0})]
      BY <1>0, <3>1, <2>1, ValidProperties DEF Refused, TypeOK
    <3>3. TypeOK'
      BY <1>0, <3>1, <3>2 DEF Refused, TypeOK, cbVars
    <3>4. KeyKnown'
      BY <1>0, <3>1 DEF Refused, Inv, KeyKnown, TypeOK
    <3>5. \A k \in Key : requests'[k] = requests[k] \/ requests'[k] = Valid(k)
      BY <1>0, <3>1 DEF Refused, TypeOK
    <3> QED BY <3>1, <3>3, <3>4, <3>5, FilterInv DEF Refused
  <2>4. CASE ~(Cardinality(Valid(key[r])) >= Max)
    <3>1. Granted(r) /\ UNCHANGED <<now, cbVars, key>> /\ pc[r] = "limit"
      BY <1>7, <2>4 DEF Allow
    <3>2. Cardinality(Valid(key[r])) < Max
      BY <2>2, <2>4, MaxAssumption
    <3> QED BY <3>1, <3>2, GrantedInv
  <2> QED BY <2>3, <2>4
<1>8. ASSUME NEW r \in Request, AllowConnection(r) PROVE Inv'
  <2>1. TypeOK' /\ now' >= now
    BY <1>0, <1>8 DEF AllowConnection, TypeOK, limVars, cbVars
  <2>2. KeyKnown'
    BY <1>0, <1>8 DEF AllowConnection, Inv, KeyKnown, TypeOK
  <2> QED BY <2>1, <2>2, <1>8, OtherInv DEF AllowConnection
<1>9. CASE UNCHANGED vars
  <2>1. TypeOK' /\ now' >= now
    BY <1>0, <1>9 DEF vars, TypeOK, limVars, cbVars, reqVars
  <2>2. KeyKnown'
    BY <1>9 DEF vars, Inv, KeyKnown, reqVars
  <2> QED BY <2>1, <2>2, <1>9, OtherInv DEF vars
<1> QED BY <1>1, <1>2, <1>3, <1>4, <1>5, <1>6, <1>7, <1>8, <1>9 DEF Next, Monitor

\* A request that goes from the limiter to 429 has found the running window full.
LEMMA RefusedStep ==
  ASSUME Inv, [Next]_vars, NEW r \in Request, pc[r] = "limit", pc'[r] = "429"
  PROVE  Cardinality(Recent(key[r])) >= Max
<1> DEFINE k == key[r]
<1>1. k \in Key /\ pc \in [Request -> {"new", "limit", "breaker", "429", "503", "upgrade"}]
  BY DEF Inv, KeyKnown, TypeOK
<1>2. Allow(r)
  <2>1. pc' # pc
    OBVIOUS
  <2>2. ASSUME NEW q \in Request, Arrive(q) \/ Allow(q) \/ AllowConnection(q)
        PROVE  q = r /\ Allow(r)
    BY <1>1, <2>2 DEF Arrive, Allow, AllowConnection, Granted, Refused
  <2> QED BY <2>1, <2>2 DEF Next, Monitor, vars, Tick, FdsChange, Cleanup,
                          GetCurrentFDUsage, CheckAndUpdate, reqVars
<1>3. Cardinality(Valid(k)) >= Max
  BY <1>1, <1>2 DEF Allow, Granted
<1>4. Len(granted[k]) \in Nat /\ DOMAIN granted[k] = 1..Len(granted[k])
  BY <1>1 DEF Inv, TypeOK
<1>5. Recent(k) \subseteq 1..Len(granted[k]) /\ Valid(k) \subseteq Recent(k)
  BY <1>1, <1>4, ValidProperties DEF Recent
<1>6. IsFiniteSet(Recent(k))
  <2>1. ASSUME NEW m \in Nat PROVE IsFiniteSet(1..m)
    BY <2>1, FS_Interval
  <2>2. IsFiniteSet(1..Len(granted[k]))
    BY <1>4, <2>1
  <2> QED BY <2>2, <1>5, FS_Subset
<1>7. Cardinality(Valid(k)) <= Cardinality(Recent(k))
  BY <1>5, <1>6, FS_Subset
<1>8. Cardinality(Valid(k)) \in Nat /\ Cardinality(Recent(k)) \in Nat /\ Max \in Nat
  BY <1>1, <1>6, ValidProperties, FS_CardinalityType, MaxAssumption
<1> QED BY <1>3, <1>7, <1>8

-----------------------------------------------------------------------------
\* The inductive invariant of the gate.
THEOREM InvHolds == Spec => []Inv
BY InitInv, NextInv, PTL DEF Spec

\* The variables of the rate limiter, the breaker and the requests keep their types.
THEOREM TypeCorrect == Spec => []TypeOK
<1>1. Inv => TypeOK
  BY DEF Inv
<1> QED BY <1>1, InvHolds, PTL

\* RateLimiter.Allow never grants more than Max requests of an address within any
\* window, whatever the window, the limit and the interleaving with Cleanup.
THEOREM WindowCorrect == Spec => []WindowBound
<1>1. Inv => WindowBound
  BY DEF Inv
<1> QED BY <1>1, InvHolds, PTL

\* RateLimiter.Allow refuses an address only while Max of its grants are in the window.
THEOREM RefusalCorrect == Spec => RefusedOnlyWhenFull
<1> DEFINE Step == \A r \in Request :
             (pc[r] = "limit" /\ pc'[r] = "429") => Cardinality(Recent(key[r])) >= Max
<1>1. Inv /\ [Next]_vars => [Step]_vars
  BY RefusedStep
<1> QED BY <1>1, InvHolds, PTL DEF Spec, RefusedOnlyWhenFull

-----------------------------------------------------------------------------
(* Graceful restart *)

\* A round takes a signal: those to come are in the channel or on their way to the Range.
SignalsPay == round + Len(sigChan) + (IF main \in {"cast", "scan"} THEN 1 ELSE 0) <= sent

\* No listener, snapshot, file or process is ahead of the rounds, and a round under way
\* has a number.
Numbered == /\ listener <= round /\ state.round <= round /\ file <= round
            /\ main \in {"collect", "write", "close", "listen"} => round \in Round
            /\ \A p \in Peer : peer[p] # "new" => at[p] \in Round /\ at[p] <= round

\* The snapshot is of connections in the map, and a round begins with all of the snapshot
\* before; from then on gm.state is that of the round.
Collected == /\ state.conns \subseteq connMap
             /\ main = "collect" =>
                  state.conns \subseteq base[round] /\ base[round] \subseteq connMap
             /\ main \in {"write", "close", "listen"} =>
                  state.round = round /\ base[round] \subseteq state.conns

\* A process that waits would be served well with the present gm.state.
Waiting == {"queued", "accepted"}
Promised == /\ \A l \in open : l <= state.round /\ base[l] \subseteq state.conns
            /\ open # {} => file <= state.round
            /\ \A p \in Peer : peer[p] \in Waiting =>
                 /\ at[p] <= state.round /\ base[at[p]] \subseteq state.conns
                 /\ fileAt[p] <= state.round

\* OneListener without the types; a round opens its listener when the last is closed.
Listeners == /\ open \subseteq {listener}
             /\ open # {} => path = listener
             /\ \A l \in Round : server[l] = "accept" => l \in open
             /\ main = "listen" => open = {}

RestartInv == /\ HandoverTypeOK /\ SignalsPay /\ Numbered /\ Collected /\ Promised /\ Listeners
              /\ HandedComplete

-----------------------------------------------------------------------------
\* The fields of gm.state, and those of none.
LEMMA StateFields ==
  ASSUME RestartInv
  PROVE  /\ state.round \in Nat /\ state.round \in 0..MaxSignals /\ state.conns \subseteq Conn
         /\ NoState.round = 0 /\ NoState.conns = {} /\ NoState \in Snapshot
<1>1. state \in Snapshot
  BY DEF RestartInv, HandoverTypeOK
<1>2. state.round \in 0..MaxSignals /\ state.conns \in SUBSET Conn
  BY <1>1 DEF Snapshot
<1>3. NoState.round = 0 /\ NoState.conns = {} /\ NoState \in Snapshot
  BY BoundsAssumption DEF NoState, Snapshot
<1> QED BY <1>2, <1>3

\* The numbers are natural numbers.
LEMMA Numbers ==
  ASSUME RestartInv
  PROVE  /\ round \in Nat /\ sent \in Nat /\ sent <= MaxSignals /\ file \in Nat
         /\ Len(sigChan) \in Nat /\ listener \in Nat
         /\ \A p \in Peer : at[p] \in Nat /\ fileAt[p] \in Nat
<1>1. Len(sigChan) \in Nat
  BY LenProperties
<1> QED BY <1>1 DEF RestartInv, HandoverTypeOK

\* There is a number for the round that begins to collect, and it is new.
LEMMA NextRound ==
  ASSUME RestartInv, main = "scan"
  PROVE  round + 1 \in Round /\ round + 1 \in 0..MaxSignals
<1>1. round + Len(sigChan) + 1 <= sent
  BY DEF RestartInv, SignalsPay
<1> QED BY <1>1, Numbers, BoundsAssumption DEF Round

\* The connections with which an earlier round began stay on record.
LEMMA BaseKept ==
  ASSUME RestartInv, RangeStart, NEW l \in Round, l <= round
  PROVE  base'[l] = base[l]
<1>1. l # round + 1
  BY Numbers DEF Round
<1>2. base' = [base EXCEPT ![round + 1] = connMap] /\ base \in [Round -> SUBSET Conn]
  BY DEF RangeStart, RestartInv, HandoverTypeOK
<1> QED BY <1>1, <1>2

\* A signal pays for one round at most, also when it is lost.
LEMMA SignalsPayStep ==
  ASSUME RestartInv, [HandoverNext]_handoverVars
  PROVE  SignalsPay'
<1>1. CASE UNCHANGED <<round, sigChan, main, sent>>
  BY <1>1 DEF SignalsPay, RestartInv
<1>2. ASSUME NEW sig \in {"USR2", "TERM"}, Signal(sig) PROVE SignalsPay'
  <2>1. round' = round /\ main' = main /\ sent' = sent + 1
    BY <1>2 DEF Signal, roundVars
  <2>2. Len(sigChan') \in Nat /\ Len(sigChan') <= Len(sigChan) + 1
    <3>1. CASE sigChan = <<>>
      BY <1>2, <3>1 DEF Signal
    <3>2. CASE sigChan # <<>>
      BY <1>2, <3>2, Numbers DEF Signal
    <3> QED BY <3>1, <3>2
  <2>3. round + Len(sigChan) + (IF main \in {"cast", "scan"} THEN 1 ELSE 0) <= sent
    BY DEF RestartInv, SignalsPay
  <2> QED BY <2>1, <2>2, <2>3, Numbers DEF SignalsPay
<1>3. CASE Crash
  BY <1>3 DEF Crash, ResetPeers, roundVars, SignalsPay, RestartInv, HandoverTypeOK
<1>4. CASE TakeSignal
  BY <1>4 DEF TakeSignal, SignalsPay, RestartInv, HandoverTypeOK
<1>5. CASE BroadcastMaintenance
  BY <1>5 DEF BroadcastMaintenance, roundVars, SignalsPay, RestartInv
<1>6. CASE RangeStart
  BY <1>6 DEF RangeStart, SignalsPay, RestartInv, HandoverTypeOK
<1>7. CASE RangeEnd
  BY <1>7 DEF RangeEnd, roundVars, SignalsPay, RestartInv
<1>8. CASE WriteFile
  BY <1>8 DEF WriteFile, SignalsPay, RestartInv
<1>9. CASE CloseListener
  BY <1>9 DEF CloseListener, ResetPeers, roundVars, SignalsPay, RestartInv
<1>10. CASE Listen
  BY <1>10 DEF Listen, SignalsPay, RestartInv
<1> QED BY <1>1, <1>2, <1>3, <1>4, <1>5, <1>6, <1>7, <1>8, <1>9, <1>10 DEF HandoverNext, Main,
   HandleUSR2Signal, startHandoffListener, Serve, handoverVars, memVars, Store, diskVars, peerVars,
   roundVars, Start, memVars, Connect, Accept, SendState

\* Listeners, snapshots and files get the number of the round that makes them.
LEMMA NumberedStep ==
  ASSUME RestartInv, [HandoverNext]_handoverVars
  PROVE  Numbered'
<1>1. CASE UNCHANGED <<listener, state, file, round, main, peer, at>>
  BY <1>1 DEF Numbered, RestartInv, Round
<1>2. CASE Crash
  <2>1. /\ round' = round /\ at' = at /\ state'.round = 0 /\ listener' = 0 /\ main' = "wait"
        /\ file' \in {file, 0}
    BY <1>2, StateFields DEF Crash, roundVars
  <2>2. \A p \in Peer : peer'[p] # "new" => peer[p] # "new"
    BY <1>2 DEF Crash, ResetPeers
  <2> QED BY <2>1, <2>2, Numbers DEF RestartInv, Numbered
<1>3. ASSUME NEW p \in Peer, Connect(p) PROVE Numbered'
  <2>1. path \in Round /\ path <= round
    BY <1>3, Numbers DEF Connect, RestartInv, HandoverTypeOK, Listeners, Numbered
  <2>2. UNCHANGED <<listener, state, file, main, round>>
    BY <1>3 DEF Connect, memVars, diskVars, roundVars
  <2>3. \A q \in Peer : q # p => peer'[q] = peer[q] /\ at'[q] = at[q]
    BY <1>3 DEF Connect
  <2>4. at'[p] = path
    BY <1>3 DEF Connect, RestartInv, HandoverTypeOK
  <2> QED BY <2>1, <2>2, <2>3, <2>4 DEF RestartInv, Numbered
<1>4. CASE TakeSignal
  BY <1>4 DEF TakeSignal, diskVars, peerVars, Numbered, RestartInv, Round
<1>5. CASE BroadcastMaintenance
  BY <1>5 DEF BroadcastMaintenance, diskVars, peerVars, roundVars, Numbered, RestartInv, Round
<1>6. CASE RangeStart
  <2>1. /\ round' = round + 1 /\ main' = "collect"
        /\ UNCHANGED <<listener, state, file, peer, at>>
    BY <1>6 DEF RangeStart, diskVars, peerVars
  <2>2. round + 1 \in Round
    BY <1>6, NextRound DEF RangeStart
  <2> QED BY <2>1, <2>2, Numbers, StateFields DEF RestartInv, Numbered
<1>7. CASE RangeEnd
  BY <1>7 DEF RangeEnd, diskVars, peerVars, roundVars, Numbered, RestartInv, Round
<1>8. CASE WriteFile
  BY <1>8 DEF WriteFile, peerVars, Numbered, RestartInv, Round
<1>9. CASE CloseListener
  BY <1>9 DEF CloseListener, ResetPeers, roundVars, Numbered, RestartInv, Round
<1>10. CASE Listen
  BY <1>10 DEF Listen, peerVars, Numbered, RestartInv, Round
<1>11. ASSUME NEW l \in Round, Accept(l) PROVE Numbered'
  BY <1>11 DEF Accept, diskVars, roundVars, Numbered, RestartInv, Round
<1>12. ASSUME NEW l \in Round, SendState(l) PROVE Numbered'
  BY <1>12 DEF SendState, diskVars, roundVars, Numbered, RestartInv, Round
<1> QED BY <1>1, <1>2, <1>3, <1>4, <1>5, <1>6, <1>7, <1>8, <1>9, <1>10, <1>11, <1>12
   DEF HandoverNext,
   Main, HandleUSR2Signal, startHandoffListener, Serve, handoverVars, memVars, Store, diskVars,
   peerVars, roundVars, Signal, Start, memVars

\* A round begins with all connections, and nothing takes one out of the map.
LEMMA CollectedStep ==
  ASSUME RestartInv, [HandoverNext]_handoverVars
  PROVE  Collected'
<1>1. CASE UNCHANGED <<state, connMap, main, round, base>>
  BY <1>1 DEF Collected, RestartInv
<1>2. ASSUME NEW c \in Conn, Store(c) PROVE Collected'
  BY <1>2 DEF Store, roundVars, Collected, RestartInv
<1>3. CASE Crash
  BY <1>3, StateFields DEF Crash, Collected
<1>4. CASE TakeSignal
  BY <1>4 DEF TakeSignal, Collected, RestartInv
<1>5. CASE BroadcastMaintenance
  BY <1>5 DEF BroadcastMaintenance, Collected, RestartInv
<1>6. CASE RangeStart
  <2>1. /\ round' = round + 1 /\ main' = "collect" /\ UNCHANGED <<state, connMap>>
        /\ base' = [base EXCEPT ![round + 1] = connMap]
    BY <1>6 DEF RangeStart
  <2>2. round + 1 \in Round
    BY <1>6, NextRound DEF RangeStart
  <2>3. base'[round'] = connMap
    BY <2>1, <2>2 DEF RestartInv, HandoverTypeOK
  <2> QED BY <2>1, <2>3 DEF RestartInv, Collected
<1>7. CASE RangeEnd
  <2>1. PICK late \in SUBSET (connMap \ base[round]) :
          state' = [round |-> round, conns |-> base[round] \cup late]
    BY <1>7 DEF RangeEnd
  <2>2. state'.round = round /\ state'.conns = base[round] \cup late
    BY <2>1
  <2>3. main = "collect" /\ main' = "write" /\ UNCHANGED <<connMap, round, base>>
    BY <1>7 DEF RangeEnd, roundVars
  <2> QED BY <2>2, <2>3 DEF RestartInv, Collected
<1>8. CASE WriteFile
  BY <1>8 DEF WriteFile, Collected, RestartInv
<1>9. CASE CloseListener
  BY <1>9 DEF CloseListener, ResetPeers, roundVars, Collected, RestartInv
<1>10. CASE Listen
  BY <1>10 DEF Listen, Collected, RestartInv
<1> QED BY <1>1, <1>2, <1>3, <1>4, <1>5, <1>6, <1>7, <1>8, <1>9, <1>10 DEF HandoverNext, Main,
   HandleUSR2Signal, startHandoffListener, Serve, handoverVars, memVars, Signal, diskVars, peerVars,
   roundVars, Start, memVars, Connect, Accept, SendState

\* A later snapshot of the same process does for all who wait; a crash turns them away.
LEMMA PromisedStep ==
  ASSUME RestartInv, [HandoverNext]_handoverVars
  PROVE  Promised'
<1>1. CASE UNCHANGED <<open, state, base, file, peer, at, fileAt>>
  BY <1>1 DEF Promised, Waiting, RestartInv
<1>2. CASE Crash
  <2>1. open' = {}
    BY <1>2 DEF Crash
  <2>2. \A p \in Peer : peer'[p] \notin Waiting
    BY <1>2 DEF Crash, ResetPeers, RestartInv, Numbered, Waiting
  <2> QED BY <2>1, <2>2 DEF Promised
<1>3. ASSUME NEW p \in Peer, Connect(p) PROVE Promised'
  BY <1>3 DEF Connect, memVars, diskVars, roundVars, Promised, Waiting, RestartInv, HandoverTypeOK
<1>4. CASE RangeStart
  <2>1. UNCHANGED <<open, state, file, peer, at, fileAt>>
    BY <1>4 DEF RangeStart, diskVars, peerVars
  <2>2. \A l \in open : l \in Round /\ l <= round
    BY DEF RestartInv, HandoverTypeOK, Listeners, Numbered
  <2>3. \A l \in open : base'[l] = base[l]
    BY <1>4, <2>2, BaseKept
  <2>4. \A p \in Peer : peer[p] \in Waiting => at[p] \in Round /\ at[p] <= round
    BY DEF RestartInv, Numbered, Waiting
  <2>5. \A p \in Peer : peer[p] \in Waiting => base'[at[p]] = base[at[p]]
    BY <1>4, <2>4, BaseKept
  <2> QED BY <2>1, <2>3, <2>5 DEF RestartInv, Promised
<1>5. CASE RangeEnd
  <2>1. state'.round = round /\ base[round] \subseteq state'.conns
    BY <1>5 DEF RangeEnd
  <2>2. state.round <= round /\ state.conns \subseteq base[round]
    BY <1>5 DEF RangeEnd, RestartInv, Numbered, Collected
  <2>3. UNCHANGED <<open, base, file, peer, at, fileAt>>
    BY <1>5 DEF RangeEnd, diskVars, peerVars, roundVars
  <2>4. state.conns \subseteq state'.conns /\ \A n \in Nat : n <= state.round => n <= state'.round
    BY <2>1, <2>2, StateFields, Numbers
  <2>5. \A l \in open : l \in Nat
    BY DEF RestartInv, HandoverTypeOK, Round
  <2> QED BY <2>3, <2>4, <2>5, Numbers DEF RestartInv, Promised
<1>6. CASE WriteFile
  <2>1. file' \in {state.round, file, 0} /\ UNCHANGED <<open, state, base, peer, at, fileAt>>
    BY <1>6 DEF WriteFile, peerVars
  <2> QED BY <2>1, StateFields DEF RestartInv, Promised
<1>7. CASE CloseListener
  BY <1>7 DEF CloseListener, ResetPeers, roundVars, Promised, Waiting, RestartInv
<1>8. CASE Listen
  <2>1. state.round = round /\ base[round] \subseteq state.conns /\ file <= round
    BY <1>8 DEF Listen, RestartInv, Collected, Numbered
  <2>2. open' \subseteq open \cup {round} /\ UNCHANGED <<state, base, file, peer, at, fileAt>>
    BY <1>8 DEF Listen, peerVars
  <2> QED BY <2>1, <2>2, Numbers DEF RestartInv, Promised
<1>9. ASSUME NEW l \in Round, Accept(l) PROVE Promised'
  BY <1>9 DEF Accept, diskVars, roundVars, Promised, Waiting, RestartInv
<1>10. ASSUME NEW l \in Round, SendState(l) PROVE Promised'
  BY <1>10 DEF SendState, diskVars, roundVars, Promised, Waiting, RestartInv
<1> QED BY <1>1, <1>2, <1>3, <1>4, <1>5, <1>6, <1>7, <1>8, <1>9, <1>10 DEF HandoverNext, Main,
   HandleUSR2Signal, startHandoffListener, Serve, handoverVars, memVars, Store, diskVars, peerVars,
   roundVars, Signal, Start, memVars, TakeSignal, BroadcastMaintenance

\* The old listener is closed and its file removed before the next is opened.
LEMMA ListenersStep ==
  ASSUME RestartInv, [HandoverNext]_handoverVars
  PROVE  Listeners'
<1>1. CASE UNCHANGED <<open, listener, path, server, main>>
  BY <1>1 DEF Listeners, RestartInv
<1>2. CASE Crash
  BY <1>2 DEF Crash, ResetPeers, Listeners
<1>3. CASE TakeSignal
  BY <1>3 DEF TakeSignal, diskVars, Listeners, RestartInv
<1>4. CASE BroadcastMaintenance
  BY <1>4 DEF BroadcastMaintenance, diskVars, Listeners, RestartInv
<1>5. CASE RangeStart
  BY <1>5 DEF RangeStart, diskVars, Listeners, RestartInv
<1>6. CASE RangeEnd
  BY <1>6 DEF RangeEnd, diskVars, Listeners, RestartInv
<1>7. CASE WriteFile
  BY <1>7 DEF WriteFile, Listeners, RestartInv
<1>8. CASE CloseListener
  BY <1>8 DEF CloseListener, ResetPeers, Listeners, RestartInv
<1>9. CASE Listen
  <2>1. open = {} /\ main' = "wait"
    BY <1>9 DEF Listen, RestartInv, Listeners
  <2>2. CASE UNCHANGED <<listener, open, path, server>>
    BY <2>1, <2>2 DEF RestartInv, Listeners
  <2>3. CASE /\ listener' = round /\ open' = open \cup {round} /\ path' = round
             /\ server' = [server EXCEPT ![round] = "accept"]
    <3>1. \A l \in Round : l # round => server'[l] # "accept"
      BY <2>1, <2>3 DEF RestartInv, Listeners
    <3> QED BY <2>1, <2>3, <3>1 DEF Listeners
  <2> QED BY <1>9, <2>2, <2>3 DEF Listen
<1>10. ASSUME NEW l \in Round, Accept(l) PROVE Listeners'
  BY <1>10 DEF Accept, diskVars, Listeners, RestartInv
<1>11. ASSUME NEW l \in Round, SendState(l) PROVE Listeners'
  BY <1>11 DEF SendState, diskVars, Listeners, RestartInv
<1> QED BY <1>1, <1>2, <1>3, <1>4, <1>5, <1>6, <1>7, <1>8, <1>9, <1>10, <1>11
   DEF HandoverNext, Main,
   HandleUSR2Signal, startHandoffListener, Serve, handoverVars, memVars, Store, diskVars, peerVars,
   roundVars, Signal, Start, memVars, Connect

\* A process is served with what it has been promised, and the record of its round stays.
LEMMA HandedStep ==
  ASSUME RestartInv, [HandoverNext]_handoverVars
  PROVE  HandedComplete'
<1>1. CASE UNCHANGED <<peer, got, at, base, fileAt>>
  BY <1>1 DEF HandedComplete, RestartInv
<1>2. CASE Crash
  BY <1>2 DEF Crash, ResetPeers, roundVars, HandedComplete, RestartInv
<1>3. ASSUME NEW p \in Peer, Connect(p) PROVE HandedComplete'
  BY <1>3 DEF Connect, memVars, roundVars, HandedComplete, RestartInv
<1>4. CASE RangeStart
  <2>1. UNCHANGED <<peer, got, at, fileAt>>
    BY <1>4 DEF RangeStart, peerVars
  <2>2. \A p \in Peer : peer[p] = "served" => at[p] \in Round /\ at[p] <= round
    BY DEF RestartInv, Numbered
  <2>3. \A p \in Peer : peer[p] = "served" => base'[at[p]] = base[at[p]]
    BY <1>4, <2>2, BaseKept
  <2> QED BY <2>1, <2>3 DEF RestartInv, HandedComplete
<1>5. CASE CloseListener
  BY <1>5 DEF CloseListener, ResetPeers, roundVars, HandedComplete, RestartInv
<1>6. ASSUME NEW l \in Round, Accept(l) PROVE HandedComplete'
  BY <1>6 DEF Accept, roundVars, HandedComplete, RestartInv
<1>7. ASSUME NEW l \in Round, SendState(l) PROVE HandedComplete'
  <2>1. PICK p \in Peer : /\ peer[p] = "accepted" /\ at[p] = l
                          /\ peer' = [peer EXCEPT ![p] = "served"]
                          /\ got' = [got EXCEPT ![p] = state]
    BY <1>7 DEF SendState
  <2>2. UNCHANGED <<at, base, fileAt>>
    BY <1>7 DEF SendState, roundVars
  <2>3. \A q \in Peer : q # p => peer'[q] = peer[q] /\ got'[q] = got[q]
    BY <2>1
  <2>4. got'[p] = state
    BY <2>1 DEF RestartInv, HandoverTypeOK
  <2>5. state.round >= at[p] /\ base[at[p]] \subseteq state.conns /\ state.round >= fileAt[p]
    BY <2>1, StateFields, Numbers DEF RestartInv, Promised, Waiting
  <2> QED BY <2>2, <2>3, <2>4, <2>5 DEF RestartInv, HandedComplete
<1> QED BY <1>1, <1>2, <1>3, <1>4, <1>5, <1>6, <1>7 DEF HandoverNext, Main, HandleUSR2Signal,
   startHandoffListener, Serve, handoverVars, memVars, Store, diskVars, peerVars, roundVars, Signal,
   Start, memVars, TakeSignal, BroadcastMaintenance, RangeEnd, WriteFile, Listen

\* The types are kept by every step.
LEMMA TypeStep ==
  ASSUME RestartInv, [HandoverNext]_handoverVars
  PROVE  HandoverTypeOK'
<1>1. CASE UNCHANGED <<running, connMap, sigChan, main, state, listener, open, server, path,
                      file, peer, got, at, fileAt, round, base, failed, sent, faults>>
  BY <1>1 DEF RestartInv, HandoverTypeOK
<1>2. ASSUME NEW c \in Conn, Store(c) PROVE HandoverTypeOK'
  BY <1>2 DEF Store, diskVars, peerVars, roundVars, RestartInv, HandoverTypeOK
<1>3. ASSUME NEW sig \in {"USR2", "TERM"}, Signal(sig) PROVE HandoverTypeOK'
  <2>1. sent' \in 0..MaxSignals
    BY <1>3, BoundsAssumption DEF Signal, RestartInv, HandoverTypeOK
  <2>2. sigChan' \in Seq({"USR2", "TERM"}) /\ Len(sigChan') <= 1
    <3>1. CASE sigChan = <<>>
      BY <1>3, <3>1 DEF Signal
    <3>2. CASE sigChan # <<>>
      BY <1>3, <3>2 DEF Signal, RestartInv, HandoverTypeOK
    <3> QED BY <3>1, <3>2
  <2> QED BY <1>3, <2>1, <2>2 DEF Signal, diskVars, peerVars, roundVars, RestartInv, HandoverTypeOK
<1>4. CASE Crash
  <2>1. peer' \in [Peer -> {"new", "queued", "accepted", "served", "reset"}]
    BY <1>4 DEF Crash, ResetPeers, RestartInv, HandoverTypeOK
  <2>2. faults' \in 0..MaxFaults /\ file' \in 0..MaxSignals /\ listener' \in 0..MaxSignals
    BY <1>4, BoundsAssumption DEF Crash, RestartInv, HandoverTypeOK
  <2>3. server' \in [Round -> {"off", "accept", "send", "done"}] /\ state' \in Snapshot
    BY <1>4, StateFields DEF Crash
  <2>4. sigChan' \in Seq({"USR2", "TERM"}) /\ Len(sigChan') <= 1
    BY <1>4 DEF Crash
  <2>5. running' \in BOOLEAN
    BY <1>4, Zenon DEF Crash
  <2>6. connMap' = {} /\ main' = "wait" /\ open' = {}
    BY <1>4 DEF Crash
  <2>7. UNCHANGED <<path, got, at, fileAt, round, base, failed, sent>>
    BY <1>4 DEF Crash, roundVars
  <2> QED BY <2>1, <2>2, <2>3, <2>4, <2>5, <2>6, <2>7 DEF RestartInv, HandoverTypeOK
<1>5. CASE Start
  BY <1>5 DEF Start, memVars, diskVars, peerVars, roundVars, RestartInv, HandoverTypeOK
<1>6. ASSUME NEW p \in Peer, Connect(p) PROVE HandoverTypeOK'
  BY <1>6 DEF Connect, memVars, diskVars, roundVars, RestartInv, HandoverTypeOK
<1>7. CASE TakeSignal
  <2>1. sigChan \in Seq({"USR2", "TERM"}) /\ sigChan # <<>> /\ Len(sigChan) <= 1
    BY <1>7 DEF TakeSignal, RestartInv, HandoverTypeOK
  <2>2. Tail(sigChan) \in Seq({"USR2", "TERM"}) /\ Len(Tail(sigChan)) <= 1
    BY <2>1, HeadTailProperties, LenProperties
  <2>3. failed' \in BOOLEAN
    BY <1>7, Zenon DEF TakeSignal
  <2> QED BY <1>7, <2>2, <2>3 DEF TakeSignal, diskVars, peerVars, RestartInv, HandoverTypeOK
<1>8. CASE BroadcastMaintenance
  BY <1>8 DEF BroadcastMaintenance, diskVars, peerVars, roundVars, RestartInv, HandoverTypeOK
<1>9. CASE RangeStart
  <2>1. round + 1 \in Round /\ round + 1 \in 0..MaxSignals
    BY <1>9, NextRound DEF RangeStart
  <2>2. base' \in [Round -> SUBSET Conn] /\ round' \in 0..MaxSignals
    BY <1>9, <2>1 DEF RangeStart, RestartInv, HandoverTypeOK
  <2> QED BY <1>9, <2>2 DEF RangeStart, diskVars, peerVars, RestartInv, HandoverTypeOK
<1>10. CASE RangeEnd
  <2>1. PICK late \in SUBSET (connMap \ base[round]) :
          state' = [round |-> round, conns |-> base[round] \cup late]
    BY <1>10 DEF RangeEnd
  <2>2. round \in 0..MaxSignals /\ base[round] \cup late \in SUBSET Conn
    BY <1>10, <2>1 DEF RangeEnd, RestartInv, HandoverTypeOK, Numbered
  <2>3. state' \in Snapshot
    BY <2>1, <2>2 DEF Snapshot
  <2> QED BY <1>10, <2>3 DEF RangeEnd, diskVars, peerVars, roundVars, RestartInv, HandoverTypeOK
<1>11. CASE WriteFile
  <2>1. file' \in 0..MaxSignals
    BY <1>11, StateFields, BoundsAssumption DEF WriteFile, RestartInv, HandoverTypeOK
  <2>2. faults' \in 0..MaxFaults
    BY <1>11, BoundsAssumption DEF WriteFile, RestartInv, HandoverTypeOK
  <2>3. failed' \in BOOLEAN
    BY <1>11, Zenon DEF WriteFile, RestartInv, HandoverTypeOK
  <2>4. /\ main' \in {"wait", "close"}
        /\ UNCHANGED <<running, connMap, sigChan, state, listener, open, server, path>>
        /\ UNCHANGED <<peer, got, at, fileAt, round, base, sent>>
    BY <1>11 DEF WriteFile, peerVars
  <2> QED BY <2>1, <2>2, <2>3, <2>4 DEF RestartInv, HandoverTypeOK
<1>12. CASE CloseListener
  BY <1>12, BoundsAssumption DEF CloseListener, ResetPeers, roundVars, RestartInv, HandoverTypeOK
<1>13. CASE Listen
  <2>1. round \in Round /\ round \in 0..MaxSignals
    BY <1>13 DEF Listen, RestartInv, HandoverTypeOK, Numbered
  <2>2. /\ listener' \in 0..MaxSignals /\ open' \subseteq Round /\ path' \in 0..MaxSignals
        /\ server' \in [Round -> {"off", "accept", "send", "done"}]
    BY <1>13, <2>1 DEF Listen, RestartInv, HandoverTypeOK
  <2>3. faults' \in 0..MaxFaults
    BY <1>13, BoundsAssumption DEF Listen, RestartInv, HandoverTypeOK
  <2>4. failed' \in BOOLEAN
    BY <1>13, Zenon DEF Listen, RestartInv, HandoverTypeOK
  <2>5. /\ main' = "wait" /\ UNCHANGED <<running, connMap, sigChan, state, file>>
        /\ UNCHANGED <<peer, got, at, fileAt, round, base, sent>>
    BY <1>13 DEF Listen, peerVars
  <2> QED BY <2>2, <2>3, <2>4, <2>5 DEF RestartInv, HandoverTypeOK
<1>14. ASSUME NEW l \in Round, Accept(l) PROVE HandoverTypeOK'
  BY <1>14 DEF Accept, diskVars, roundVars, RestartInv, HandoverTypeOK
<1>15. ASSUME NEW l \in Round, SendState(l) PROVE HandoverTypeOK'
  BY <1>15 DEF SendState, diskVars, roundVars, RestartInv, HandoverTypeOK
<1> QED BY <1>1, <1>2, <1>3, <1>4, <1>5, <1>6, <1>7, <1>8, <1>9, <1>10, <1>11, <1>12, <1>13,
   <1>14, <1>15 DEF HandoverNext, Main, HandleUSR2Signal, startHandoffListener, Serve,
   handoverVars, memVars,
   diskVars, peerVars, roundVars

-----------------------------------------------------------------------------
\* The invariant holds of a process that has just been installed.
LEMMA RestartInitInv == HandoverInit => RestartInv
<1> SUFFICES ASSUME HandoverInit PROVE RestartInv
  OBVIOUS
<1>1. HandoverTypeOK
  <2>1. 0 \in 0..MaxSignals /\ 0 \in 0..MaxFaults
    BY BoundsAssumption
  <2>2. NoState \in Snapshot
    BY <2>1 DEF NoState, Snapshot
  <2>3. running \in BOOLEAN /\ failed \in BOOLEAN
    BY Zenon DEF HandoverInit
  <2>4. sigChan \in Seq({"USR2", "TERM"}) /\ Len(sigChan) <= 1
    BY DEF HandoverInit
  <2> QED BY <2>1, <2>2, <2>3, <2>4 DEF HandoverInit, HandoverTypeOK
<1>2. SignalsPay
  BY DEF HandoverInit, SignalsPay
<1>3. Numbered /\ Collected
  BY DEF HandoverInit, Numbered, Collected, NoState
<1>4. Promised /\ Listeners /\ HandedComplete
  BY DEF HandoverInit, Promised, Waiting, Listeners, HandedComplete
<1> QED BY <1>1, <1>2, <1>3, <1>4 DEF RestartInv

\* The invariant is inductive.
LEMMA RestartNextInv == RestartInv /\ [HandoverNext]_handoverVars => RestartInv'
BY TypeStep, SignalsPayStep, NumberedStep, CollectedStep, PromisedStep, ListenersStep,
   HandedStep DEF RestartInv

\* The invariant holds throughout.
LEMMA Invariance == HandoverSpec => []RestartInv
BY RestartInitInv, RestartNextInv, PTL DEF HandoverSpec

\* For any number of signals, crashes and failing system calls: the only open listener is
\* gm.listener, the socket file leads to it, and its goroutine alone accepts.
THEOREM ListenersDoNotLeak == HandoverSpec => []OneListener
<1>1. RestartInv => OneListener
  BY DEF RestartInv, Listeners, OneListener
<1> QED BY <1>1, Invariance, PTL

\* For any interleaving of rounds, connections, crashes and new processes: a process that
\* was served knows every connection that was stored when its listener's round began.
THEOREM HandoffsComplete == HandoverSpec => []HandedComplete
<1>1. RestartInv => HandedComplete
  BY DEF RestartInv
<1> QED BY <1>1, Invariance, PTL
=============================================================================
