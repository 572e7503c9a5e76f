-------------------------- MODULE Multiexec_proofs --------------------------
(***************************************************************************)
(* The broadcast engine, for every set of sessions and callers, all lists  *)
(* of targets and any number of calls: every target of a call is written   *)
(* to once or reported (Accounted), and the inputs of BroadcastSync arrive *)
(* intact, in the order of their callers (FIFO) and in one order at all    *)
(* shells (SameOrder).                                                     *)
(*                                                                         *)
(* Accounted is a balance that every step keeps, given where the loops and *)
(* goroutines can be (Loops, Goroutines).  FIFO rests on who owns which    *)
(* call and which slice (Owners, Slices).  SameOrder is not inductive:     *)
(* what makes it so is that e.mu is held for a whole call (Mutex), so that *)
(* a call with an input before that of another one is over (Ended).        *)
(***************************************************************************)
EXTENDS Multiexec, FiniteSetTheorems, SequenceTheorems, TLAPS

\* One caller at most is between Lock and the return, and that one holds e.mu.
Mutex == /\ \A c \in Caller : c \in mu <=> pc[c] \notin {"idle", "lock"}
         /\ \A c, d \in mu : c = d

\* A caller is in its own latest call.
Owners == \A c \in Caller :
            /\ no[c] \in 0..Len(calls)
            /\ no[c] # 0 => calls[no[c]].by = c
            /\ pc[c] # "idle" => no[c] # 0
            /\ \A i \in DOMAIN calls : calls[i].by = c => i <= no[c]

\* The slice of a call is one that its caller has allocated.
Slices == \A i \in DOMAIN calls : /\ calls[i].slice \in DOMAIN calls
                                  /\ calls[calls[i].slice].by = calls[i].by

\* Until the call returns its slice holds its input.
InputsHeld == \A c \in Caller : pc[c] # "idle" => content[Mine(c).slice] = no[c]

\* The loop is at a target, or just past the last; what it looks up is not the
\* source, and what it writes itself is the input of a BroadcastSync.
Loops == \A c \in Caller :
           /\ pc[c] = "get" => pos[c] <= Len(Mine(c).targets) + 1
           /\ pc[c] \in {"state", "slow", "write"} =>
                pos[c] <= Len(Mine(c).targets) /\ Target(c) # Mine(c).source
           /\ pc[c] = "write" => Sync(no[c])

\* A goroutine is one of a Broadcast, for a target that its loop is done with.
Goroutines == /\ IsFiniteSet(threads)
              /\ \A t \in threads :
                   /\ t[1] \in DOMAIN calls /\ t[2] \in 1..Len(calls[t[1]].targets)
                   /\ calls[t[1]].targets[t[2]] # calls[t[1]].source
                   /\ ~Sync(t[1]) /\ t[2] <= Done(t[1])

\* Nothing is known of calls that have not been made.
Blank == /\ \A i \in CallNo \ DOMAIN calls, s \in Session : errors[i][s] = 0 /\ lost[i][s] = 0
         /\ \A s \in Session : \A j \in DOMAIN shell[s] : shell[s][j].of \in DOMAIN calls

\* Every target that the loop is done with is accounted for.
Balance == \A i \in DOMAIN calls, s \in Session :
             Arrived(i, s) + errors[i][s] + lost[i][s] + UnderWay(i, s) = Due(i, s, Done(i))

\* The call has returned.
Over(i) == \A c \in Caller : no[c] = i => pc[c] = "idle"

\* An input that has arrived is not one of a call that waits for e.mu.
Started == \A s \in Session : \A j \in DOMAIN shell[s] : \A c \in Caller :
             no[c] = shell[s][j].of => pc[c] # "lock"

\* A BroadcastSync whose input came before that of another one is over.
Ended == \A s \in Session : \A i, j \in DOMAIN shell[s] :
           i < j /\ shell[s][i].of # shell[s][j].of /\ Sync(shell[s][i].of) /\ Sync(shell[s][j].of)
             => Over(shell[s][i].of)

Inv == /\ TypeOK /\ Mutex /\ Owners /\ Slices /\ InputsHeld /\ Loops /\ Goroutines /\ Blank
       /\ Balance /\ Started /\ Ended /\ FIFO /\ SameOrder

-----------------------------------------------------------------------------
(* Counting *)

\* How often v is among the first n elements of f.
Occurs(f, n, v) == Cardinality({k \in 1..n : f[k] = v})

\* One more element is one more occurrence, or none.
LEMMA OccursMore ==
  ASSUME NEW f, NEW n \in Nat, NEW v
  PROVE  /\ Occurs(f, 0, v) = 0 /\ Occurs(f, n, v) \in Nat
         /\ Occurs(f, n + 1, v) = Occurs(f, n, v) + (IF f[n + 1] = v THEN 1 ELSE 0)
<1> DEFINE S == {k \in 1..n : f[k] = v}
<1>1. IsFiniteSet(S) /\ Cardinality(S) \in Nat
  <2>1. IsFiniteSet(1..n)
    BY FS_Interval
  <2>2. S \in SUBSET (1..n)
    OBVIOUS
  <2>3. IsFiniteSet(S)
    BY <2>1, <2>2, FS_Subset
  <2> QED BY <2>3, FS_CardinalityType
<1>2. n + 1 \notin S
  OBVIOUS
<1>3. Occurs(f, 0, v) = 0
  <2>1. {k \in 1..0 : f[k] = v} = {}
    OBVIOUS
  <2> QED BY <2>1, FS_EmptySet DEF Occurs
<1>4. CASE f[n + 1] = v
  <2>1. {k \in 1..n + 1 : f[k] = v} = S \cup {n + 1}
    BY <1>4
  <2>2. Cardinality(S \cup {n + 1}) = Cardinality(S) + 1
    BY <1>1, <1>2, FS_AddElement
  <2> QED BY <1>1, <1>3, <1>4, <2>1, <2>2 DEF Occurs
<1>5. CASE f[n + 1] # v
  <2>1. {k \in 1..n + 1 : f[k] = v} = S
    BY <1>5
  <2> QED BY <1>1, <1>3, <1>5, <2>1 DEF Occurs
<1> QED BY <1>4, <1>5

\* The count depends on the first n elements only.
LEMMA OccursSame ==
  ASSUME NEW f, NEW g, NEW n \in Nat, NEW v, \A k \in 1..n : f[k] = g[k]
  PROVE  Occurs(f, n, v) = Occurs(g, n, v)
<1>1. {k \in 1..n : f[k] = v} = {k \in 1..n : g[k] = v}
  OBVIOUS
<1> QED BY <1>1 DEF Occurs

\* What is due when the loop has done nothing, and one target more.
LEMMA DueMore ==
  ASSUME NEW i, NEW s, NEW n \in Nat
  PROVE  /\ Due(i, s, 0) = 0 /\ Due(i, s, n) \in Nat
         /\ Due(i, s, n + 1) = Due(i, s, n)
              + (IF calls[i].targets[n + 1] = s /\ s # calls[i].source THEN 1 ELSE 0)
<1> DEFINE f == calls[i].targets
<1>1. \A m : Due(i, s, m) = IF s = calls[i].source THEN 0 ELSE Occurs(f, m, s)
  BY DEF Due, Count, Occurs
<1> HIDE DEF f
<1>2. /\ Occurs(f, 0, s) = 0 /\ Occurs(f, n, s) \in Nat
      /\ Occurs(f, n + 1, s) = Occurs(f, n, s) + (IF f[n + 1] = s THEN 1 ELSE 0)
  BY OccursMore
<1> QED BY <1>1, <1>2 DEF f

-----------------------------------------------------------------------------
(* Where a caller is, and what a call adds *)

\* The call of c is at a target.
AtTarget(c) == /\ no[c] \in DOMAIN calls /\ no[c] \in CallNo
               /\ pos[c] \in 1..Len(Mine(c).targets) /\ Target(c) \in Session

LEMMA CallFacts ==
  ASSUME TypeOK, NEW i \in DOMAIN calls
  PROVE  /\ i \in 1..Len(calls) /\ i \in CallNo /\ calls[i] \in CallRecord
         /\ calls[i].targets \in Seq(Session) /\ Len(calls[i].targets) \in Nat
<1>1. DOMAIN calls = 1..Len(calls) /\ Len(calls) \in Nat
  BY LenProperties DEF TypeOK
<1>2. calls[i] \in CallRecord
  BY <1>1, ElementOfSeq DEF TypeOK
<1>3. calls[i].targets \in Seq(Session)
  BY <1>2, TargetsAssumption DEF CallRecord
<1>4. Len(calls[i].targets) \in Nat
  BY <1>3, LenProperties
<1> QED BY <1>1, <1>2, <1>3, <1>4, BoundsAssumption DEF TypeOK, CallNo

\* A caller that is not idle is in a call that exists.
LEMMA MineFacts ==
  ASSUME TypeOK, Owners, NEW c \in Caller, pc[c] # "idle"
  PROVE  /\ no[c] \in DOMAIN calls /\ no[c] \in CallNo /\ Mine(c).by = c
         /\ Mine(c) \in CallRecord /\ Len(Mine(c).targets) \in Nat
<1>1. DOMAIN calls = 1..Len(calls) /\ Len(calls) \in Nat
  BY LenProperties DEF TypeOK
<1>2. no[c] \in DOMAIN calls /\ Mine(c).by = c
  BY <1>1 DEF Owners, Mine
<1> QED BY <1>2, CallFacts DEF Mine

\* A caller whose index is not past the end is at a target.
LEMMA TargetFacts ==
  ASSUME TypeOK, Owners, NEW c \in Caller, pc[c] # "idle",
         pos[c] <= Len(Mine(c).targets)
  PROVE  AtTarget(c)
<1>1. no[c] \in DOMAIN calls /\ no[c] \in CallNo
  BY MineFacts
<1>2. pos[c] \in 1..Len(Mine(c).targets) /\ Mine(c).targets \in Seq(Session)
  <2>1. Mine(c).targets \in Seq(Session) /\ Len(Mine(c).targets) \in Nat
    BY <1>1, CallFacts DEF Mine
  <2>2. pos[c] \in Nat \ {0}
    BY DEF TypeOK
  <2> QED BY <2>1, <2>2
<1>3. Target(c) \in Session
  BY <1>2, ElementOfSeq DEF Target
<1> QED BY <1>1, <1>2, <1>3 DEF AtTarget

LEMMA LoopFacts ==
  ASSUME TypeOK, Owners, Loops, NEW c \in Caller, pc[c] \in {"state", "slow", "write"}
  PROVE  AtTarget(c) /\ Target(c) # Mine(c).source
BY TargetFacts DEF Loops

\* What Call does: the calls so far stay as they are.
Called(c, m, src, ts, i) ==
  /\ Len(calls) + 1 \in CallNo /\ i \in CallNo
  /\ DOMAIN calls = 1..Len(calls) /\ DOMAIN calls' = 1..Len(calls) + 1
  /\ Len(calls) \in Nat /\ Len(calls') = Len(calls) + 1
  /\ calls' \in Seq(CallRecord)
  /\ \A k \in DOMAIN calls : calls'[k] = calls[k]
  /\ calls'[Len(calls) + 1] = [by |-> c, mode |-> m, source |-> src, targets |-> ts, slice |-> i]
  /\ i = Len(calls) + 1 \/ (no[c] # 0 /\ i = calls[no[c]].slice)
  /\ content' = [content EXCEPT ![i] = Len(calls) + 1]
  /\ no' = [no EXCEPT ![c] = Len(calls) + 1]
  /\ pc[c] = "idle" /\ pc' = [pc EXCEPT ![c] = "lock"]
  /\ UNCHANGED <<mu, pos, outVars>>

LEMMA CallEffect ==
  ASSUME TypeOK, NEW c \in Caller, NEW m \in Mode, NEW src \in Source, NEW ts \in Targets,
         Call(c, m, src, ts)
  PROVE  \E i \in CallNo : Called(c, m, src, ts, i)
<1>1. PICK i \in CallNo :
        /\ i = Len(calls) + 1 \/ (ReuseSlices /\ no[c] # 0 /\ i = calls[no[c]].slice)
        /\ calls' = Append(calls, [by |-> c, mode |-> m, source |-> src, targets |-> ts,
                                   slice |-> i])
        /\ content' = [content EXCEPT ![i] = Len(calls) + 1]
        /\ no' = [no EXCEPT ![c] = Len(calls) + 1]
  BY DEF Call
<1> DEFINE r == [by |-> c, mode |-> m, source |-> src, targets |-> ts, slice |-> i]
<1>2. r \in CallRecord
  BY DEF CallRecord
<1>3. calls' = Append(calls, r)
  BY <1>1
<1>4. DOMAIN calls = 1..Len(calls) /\ Len(calls) \in Nat
  BY LenProperties DEF TypeOK
<1> HIDE DEF r
<1>5. /\ calls' \in Seq(CallRecord) /\ Len(calls') = Len(calls) + 1
      /\ \A k \in 1..Len(calls) : calls'[k] = calls[k]
      /\ calls'[Len(calls) + 1] = r
  BY <1>2, <1>3, AppendProperties DEF TypeOK
<1>6. DOMAIN calls' = 1..Len(calls) + 1
  BY <1>5, LenProperties
<1>7. Len(calls) + 1 \in CallNo
  BY <1>4, BoundsAssumption DEF Call, CallNo
<1>8. Called(c, m, src, ts, i)
  BY <1>1, <1>4, <1>5, <1>6, <1>7 DEF Called, Call, r
<1> QED BY <1>8

-----------------------------------------------------------------------------
(* Types *)

LEMMA DeliverType ==
  ASSUME TypeOK, NEW i \in DOMAIN calls, NEW s \in Session, Deliver(i, s),
         content[calls[i].slice] \in 0..MaxCalls
  PROVE  shell' \in [Session -> Seq([of : CallNo, content : 0..MaxCalls])]
<1> DEFINE e == [of |-> i, content |-> content[calls[i].slice]]
<1>1. e \in [of : CallNo, content : 0..MaxCalls]
  BY CallFacts
<1>2. shell[s] \in Seq([of : CallNo, content : 0..MaxCalls])
  BY DEF TypeOK
<1>3. shell' = [shell EXCEPT ![s] = Append(@, e)]
  BY DEF Deliver
<1> HIDE DEF e
<1>4. Append(shell[s], e) \in Seq([of : CallNo, content : 0..MaxCalls])
  BY <1>1, <1>2, AppendProperties
<1> QED BY <1>3, <1>4 DEF TypeOK

LEMMA SliceContent ==
  ASSUME TypeOK, NEW i \in DOMAIN calls
  PROVE  content[calls[i].slice] \in 0..MaxCalls
<1>1. calls[i].slice \in CallNo
  BY CallFacts DEF CallRecord
<1> QED BY <1>1 DEF TypeOK

LEMMA FailType ==
  ASSUME TypeOK, NEW c \in Caller, AtTarget(c), Fail(c)
  PROVE  errors' \in Counts
<1>1. errors[no[c]] \in [Session -> Nat] /\ errors[no[c]][Target(c)] + 1 \in Nat
  BY DEF TypeOK, Counts, AtTarget
<1> QED BY <1>1 DEF TypeOK, Counts, AtTarget, Fail

LEMMA NextTargetType ==
  ASSUME TypeOK, NEW c \in Caller, NextTarget(c)
  PROVE  pc' \in [Caller -> Where] /\ pos' \in [Caller -> Nat \ {0}]
BY DEF TypeOK, NextTarget, Where

\* The variables keep their types.
LEMMA TypeStep ==
  ASSUME Inv, Next
  PROVE  TypeOK'
<1> USE DEF Inv
<1>1. ASSUME NEW s \in Session, SessionChanges(s) PROVE TypeOK'
  <2>1. changes' \in 0..MaxChanges
    BY <1>1, BoundsAssumption DEF SessionChanges, TypeOK
  <2>2. /\ state' \in [Session -> {"active", "inactive", "gone"}]
        /\ link' \in [Session -> Link]
    BY <1>1 DEF SessionChanges, TypeOK
  <2>3. slow' \in [Session -> BOOLEAN]
    BY <1>1, Zenon DEF SessionChanges, TypeOK
  <2> QED BY <1>1, <2>1, <2>2, <2>3
        DEF SessionChanges, TypeOK, callVars, outVars
<1>2. ASSUME NEW c \in Caller, NEW m \in Mode, NEW src \in Source, NEW ts \in Targets,
             Call(c, m, src, ts)
      PROVE  TypeOK'
  <2>1. PICK i \in CallNo : Called(c, m, src, ts, i)
    BY <1>2, CallEffect
  <2>2. Len(calls) + 1 \in 0..MaxCalls
    BY <2>1, BoundsAssumption DEF Called, CallNo
  <2>3. calls' \in Seq(CallRecord) /\ Len(calls') <= MaxCalls
    BY <2>1, <2>2 DEF Called
  <2>4. content' \in [CallNo -> 0..MaxCalls] /\ no' \in [Caller -> 0..MaxCalls]
        /\ pc' \in [Caller -> Where]
    BY <2>1, <2>2 DEF Called, TypeOK, Where
  <2> QED BY <1>2, <2>3, <2>4 DEF Call, TypeOK, envVars, outVars
<1>3. ASSUME NEW c \in Caller, Lock(c) PROVE TypeOK'
  <2>1. pc' \in [Caller -> Where] /\ pos' \in [Caller -> Nat \ {0}] /\ mu' \subseteq Caller
    BY <1>3 DEF Lock, TypeOK, Where
  <2> QED BY <1>3, <2>1 DEF Lock, TypeOK, envVars, callVars, outVars
<1>4. ASSUME NEW c \in Caller, Get(c) PROVE TypeOK'
  <2>1. pos[c] \in Nat /\ Len(Mine(c).targets) \in Nat
    BY <1>4, MineFacts DEF Get, TypeOK
  <2>2. CASE pos[c] > Len(Mine(c).targets)
    <3>1. CASE /\ pc' = [pc EXCEPT ![c] = "idle"] /\ mu' = mu \ {c}
               /\ UNCHANGED <<pos, errors>>
      BY <1>4, <3>1 DEF Get, TypeOK, Where, envVars, callVars
    <3> QED BY <1>4, <2>1, <2>2, <3>1 DEF Get
  <2>3. CASE pos[c] <= Len(Mine(c).targets)
    <3>1. AtTarget(c)
      BY <1>4, <2>3, TargetFacts DEF Get
    <3>2. CASE NextTarget(c) /\ UNCHANGED <<mu, errors>>
      BY <1>4, <3>2, NextTargetType DEF Get, TypeOK, envVars, callVars
    <3>3. CASE NextTarget(c) /\ Fail(c) /\ UNCHANGED mu
      BY <1>4, <3>1, <3>3, NextTargetType, FailType DEF Get, TypeOK, envVars, callVars
    <3>4. CASE pc' = [pc EXCEPT ![c] = "state"] /\ UNCHANGED <<mu, pos, errors>>
      BY <1>4, <3>4 DEF Get, TypeOK, Where, envVars, callVars
    <3> QED BY <1>4, <2>1, <2>3, <3>2, <3>3, <3>4 DEF Get
  <2> QED BY <2>1, <2>2, <2>3
<1>5. ASSUME NEW c \in Caller, GetState(c) PROVE TypeOK'
  <2>1. AtTarget(c)
    BY <1>5, LoopFacts DEF GetState
  <2>2. CASE NextTarget(c) /\ Fail(c)
    BY <1>5, <2>1, <2>2, NextTargetType, FailType DEF GetState, TypeOK, envVars, callVars
  <2>3. CASE pc' = [pc EXCEPT ![c] = "slow"] /\ UNCHANGED <<pos, errors>>
    BY <1>5, <2>3 DEF GetState, TypeOK, Where, envVars, callVars
  <2> QED BY <1>5, <2>2, <2>3 DEF GetState
<1>6. ASSUME NEW c \in Caller, GetSlow(c) PROVE TypeOK'
  <2>1. AtTarget(c)
    BY <1>6, LoopFacts DEF GetSlow
  <2>2. CASE NextTarget(c) /\ Fail(c) /\ UNCHANGED threads
    BY <1>6, <2>1, <2>2, NextTargetType, FailType DEF GetSlow, TypeOK, envVars, callVars
  <2>3. CASE /\ NextTarget(c) /\ UNCHANGED errors
             /\ threads' = threads \cup {<<no[c], pos[c]>>}
    <3>1. <<no[c], pos[c]>> \in CallNo \X (Nat \ {0})
      BY <2>1 DEF AtTarget, TypeOK
    <3> QED BY <1>6, <2>3, <3>1, NextTargetType DEF GetSlow, TypeOK, envVars, callVars
  <2>4. CASE pc' = [pc EXCEPT ![c] = "write"] /\ UNCHANGED <<pos, errors, threads>>
    BY <1>6, <2>4 DEF GetSlow, TypeOK, Where, envVars, callVars
  <2> QED BY <1>6, <2>2, <2>3, <2>4 DEF GetSlow
<1>7. ASSUME NEW c \in Caller, Write(c) PROVE TypeOK'
  <2>1. AtTarget(c)
    BY <1>7, LoopFacts DEF Write
  <2>2. CASE Deliver(no[c], Target(c)) /\ UNCHANGED errors
    <3>1. shell' \in [Session -> Seq([of : CallNo, content : 0..MaxCalls])]
      BY <2>1, <2>2, DeliverType, SliceContent DEF AtTarget
    <3> QED BY <1>7, <2>2, <3>1, NextTargetType DEF Write, TypeOK, envVars, callVars
  <2>3. CASE Fail(c) /\ UNCHANGED shell
    BY <1>7, <2>1, <2>3, NextTargetType, FailType DEF Write, TypeOK, envVars, callVars
  <2> QED BY <1>7, <2>2, <2>3 DEF Write
<1>8. ASSUME NEW t \in threads, ThreadWrite(t) PROVE TypeOK'
  <2> DEFINE s == calls[t[1]].targets[t[2]]
  <2>1. t[1] \in DOMAIN calls /\ t[1] \in CallNo /\ s \in Session
    <3>1. t[1] \in DOMAIN calls /\ t[2] \in 1..Len(calls[t[1]].targets)
      BY DEF Goroutines
    <3>2. t[1] \in CallNo /\ calls[t[1]].targets \in Seq(Session)
      BY <3>1, CallFacts
    <3> QED BY <3>1, <3>2, ElementOfSeq
  <2> HIDE DEF s
  <2>2. CASE Deliver(t[1], s) /\ UNCHANGED lost
    <3>1. shell' \in [Session -> Seq([of : CallNo, content : 0..MaxCalls])]
      BY <2>1, <2>2, DeliverType, SliceContent
    <3> QED BY <1>8, <2>2, <3>1 DEF ThreadWrite, TypeOK, envVars, callVars
  <2>3. CASE lost' = [lost EXCEPT ![t[1]][s] = @ + 1] /\ UNCHANGED shell
    <3>1. lost[t[1]] \in [Session -> Nat] /\ lost[t[1]][s] + 1 \in Nat
      BY <2>1 DEF TypeOK, Counts
    <3>2. lost' \in Counts
      BY <2>1, <2>3, <3>1 DEF TypeOK, Counts
    <3> QED BY <1>8, <2>3, <3>2 DEF ThreadWrite, TypeOK, envVars, callVars
  <2> QED BY <1>8, <2>2, <2>3 DEF ThreadWrite, s
<1> QED BY <1>1, <1>2, <1>3, <1>4, <1>5, <1>6, <1>7, <1>8 DEF Next, Engine

-----------------------------------------------------------------------------
(* What a step of a loop or of a goroutine amounts to *)

InLoop(c) == pc[c] \in {"get", "state", "slow", "write"}

\* The call returns.
Returns(c) == /\ pc[c] = "get" /\ pos[c] = Len(Mine(c).targets) + 1
              /\ pc' = [pc EXCEPT ![c] = "idle"] /\ mu' = mu \ {c}
              /\ UNCHANGED <<callVars, no, pos, outVars>>

\* It goes past the source.
Skips(c) == /\ InLoop(c) /\ AtTarget(c) /\ Target(c) = Mine(c).source
            /\ NextTarget(c)
            /\ UNCHANGED <<callVars, mu, no, outVars>>

\* It stays at a target that has passed a check.
Checks(c) == /\ InLoop(c) /\ AtTarget(c) /\ Target(c) # Mine(c).source
             /\ \E p \in {"state", "slow", "write"} : /\ pc' = [pc EXCEPT ![c] = p]
                                                      /\ p = "write" => Sync(no[c])
             /\ UNCHANGED <<callVars, mu, no, pos, outVars>>

\* It reports a target.
Fails(c) == /\ InLoop(c) /\ AtTarget(c) /\ Target(c) # Mine(c).source
            /\ NextTarget(c) /\ Fail(c)
            /\ UNCHANGED <<callVars, mu, no, threads, lost, shell>>

\* It leaves a target to a goroutine.
Spawns(c) == /\ InLoop(c) /\ AtTarget(c) /\ Target(c) # Mine(c).source /\ ~Sync(no[c])
             /\ NextTarget(c) /\ threads' = threads \cup {<<no[c], pos[c]>>}
             /\ UNCHANGED <<callVars, mu, no, errors, lost, shell>>

\* It writes to a target.
Delivers(c) == /\ InLoop(c) /\ AtTarget(c) /\ Target(c) # Mine(c).source /\ Sync(no[c])
               /\ NextTarget(c) /\ Deliver(no[c], Target(c))
               /\ UNCHANGED <<callVars, mu, no, errors, threads, lost>>

\* The write of a goroutine goes through, or fails.
Lands(t) == /\ t \in threads /\ threads' = threads \ {t}
            /\ Deliver(t[1], calls[t[1]].targets[t[2]])
            /\ UNCHANGED <<callVars, mu, pc, no, pos, errors, lost>>

Drops(t) == /\ t \in threads /\ threads' = threads \ {t}
            /\ lost' = [lost EXCEPT ![t[1]][calls[t[1]].targets[t[2]]] = @ + 1]
            /\ UNCHANGED <<callVars, mu, pc, no, pos, errors, shell>>

Step == \/ UNCHANGED <<callVars, mu, pc, no, pos, outVars>>
        \/ \E c \in Caller, m \in Mode, src \in Source, ts \in Targets, i \in CallNo :
             Called(c, m, src, ts, i)
        \/ \E c \in Caller : Lock(c) \/ Returns(c) \/ Skips(c) \/ Checks(c)
        \/ \E c \in Caller : Fails(c) \/ Spawns(c) \/ Delivers(c)
        \/ \E t \in threads : Lands(t) \/ Drops(t)

\* Every step of the engine is one of these.
LEMMA StepCases ==
  ASSUME Inv, [Next]_vars
  PROVE  Step
<1> USE DEF Inv
<1>1. CASE UNCHANGED vars
  BY <1>1 DEF vars, Step
<1>2. ASSUME NEW s \in Session, SessionChanges(s) PROVE Step
  BY <1>2 DEF SessionChanges, Step
<1>3. ASSUME NEW c \in Caller, NEW m \in Mode, NEW src \in Source, NEW ts \in Targets,
             Call(c, m, src, ts)
      PROVE  Step
  BY <1>3, CallEffect DEF Step
<1>4. ASSUME NEW c \in Caller, Lock(c) PROVE Step
  BY <1>4 DEF Step
<1>5. ASSUME NEW c \in Caller, Get(c) PROVE Step
  <2>1. InLoop(c) /\ pc[c] # "idle"
    BY <1>5 DEF Get, InLoop
  <2>2. pos[c] \in Nat /\ Len(Mine(c).targets) \in Nat /\ pos[c] <= Len(Mine(c).targets) + 1
    BY <1>5, <2>1, MineFacts DEF Get, TypeOK, Loops
  <2>3. CASE pos[c] > Len(Mine(c).targets)
    <3>1. Returns(c)
      BY <1>5, <2>2, <2>3 DEF Get, Returns, outVars
    <3> QED BY <3>1 DEF Step
  <2>4. CASE pos[c] <= Len(Mine(c).targets)
    <3>1. AtTarget(c)
      BY <2>1, <2>4, TargetFacts
    <3>2. CASE Target(c) = Mine(c).source
      <4>1. Skips(c)
        BY <1>5, <2>1, <2>2, <2>4, <3>1, <3>2 DEF Get, Skips, outVars
      <4> QED BY <4>1 DEF Step
    <3>3. CASE Target(c) # Mine(c).source /\ state[Target(c)] = "gone"
      <4>1. Fails(c)
        BY <1>5, <2>1, <2>2, <2>4, <3>1, <3>3 DEF Get, Fails
      <4> QED BY <4>1 DEF Step
    <3>4. CASE Target(c) # Mine(c).source /\ state[Target(c)] # "gone"
      <4>1. Checks(c)
        BY <1>5, <2>1, <2>2, <2>4, <3>1, <3>4 DEF Get, Checks, outVars
      <4> QED BY <4>1 DEF Step
    <3> QED BY <3>2, <3>3, <3>4
  <2> QED BY <2>2, <2>3, <2>4
<1>6. ASSUME NEW c \in Caller, GetState(c) PROVE Step
  <2>1. InLoop(c) /\ AtTarget(c) /\ Target(c) # Mine(c).source
    BY <1>6, LoopFacts DEF GetState, InLoop
  <2>2. Fails(c) \/ Checks(c)
    BY <1>6, <2>1 DEF GetState, Fails, Checks, outVars
  <2> QED BY <2>2 DEF Step
<1>7. ASSUME NEW c \in Caller, GetSlow(c) PROVE Step
  <2>1. InLoop(c) /\ AtTarget(c) /\ Target(c) # Mine(c).source
    BY <1>7, LoopFacts DEF GetSlow, InLoop
  <2>2. Fails(c) \/ Spawns(c) \/ Checks(c)
    BY <1>7, <2>1 DEF GetSlow, Fails, Spawns, Checks, Sync, Mine, outVars
  <2> QED BY <2>2 DEF Step
<1>8. ASSUME NEW c \in Caller, Write(c) PROVE Step
  <2>1. InLoop(c) /\ AtTarget(c) /\ Target(c) # Mine(c).source /\ Sync(no[c])
    BY <1>8, LoopFacts DEF Write, InLoop, Loops
  <2>2. Fails(c) \/ Delivers(c)
    BY <1>8, <2>1 DEF Write, Fails, Delivers
  <2> QED BY <2>2 DEF Step
<1>9. ASSUME NEW t \in threads, ThreadWrite(t) PROVE Step
  <2>1. Lands(t) \/ Drops(t)
    BY <1>9 DEF ThreadWrite, Lands, Drops
  <2> QED BY <2>1 DEF Step
<1> QED BY <1>1, <1>2, <1>3, <1>4, <1>5, <1>6, <1>7, <1>8, <1>9 DEF Next, Engine

-----------------------------------------------------------------------------
(* The mutex, the calls and their slices *)

LEMMA MutexStep ==
  ASSUME Inv, Step
  PROVE  Mutex'
<1> USE DEF Inv
<1>1. CASE UNCHANGED <<mu, pc>>
  BY <1>1 DEF Mutex
<1>2. ASSUME NEW c \in Caller, NEW m \in Mode, NEW src \in Source, NEW ts \in Targets,
             NEW i \in CallNo, Called(c, m, src, ts, i)
      PROVE  Mutex'
  BY <1>2 DEF Called, Mutex, TypeOK
<1>3. ASSUME NEW c \in Caller, Lock(c) PROVE Mutex'
  BY <1>3 DEF Lock, Mutex, TypeOK
<1>4. ASSUME NEW c \in Caller, Returns(c) PROVE Mutex'
  BY <1>4 DEF Returns, Mutex, TypeOK
<1>5. ASSUME NEW c \in Caller, Checks(c) PROVE Mutex'
  BY <1>5 DEF Checks, InLoop, Mutex, TypeOK
<1>6. ASSUME NEW c \in Caller, InLoop(c), NextTarget(c), mu' = mu PROVE Mutex'
  BY <1>6 DEF InLoop, NextTarget, Mutex, TypeOK
<1> QED BY <1>1, <1>2, <1>3, <1>4, <1>5, <1>6
      DEF Step, Skips, Fails, Spawns, Delivers, Lands, Drops

LEMMA OwnersStep ==
  ASSUME Inv, Step
  PROVE  Owners'
<1> USE DEF Inv
<1>1. CASE UNCHANGED <<calls, no>> /\ \A d \in Caller : pc'[d] = pc[d] \/ pc[d] # "idle"
  BY <1>1 DEF Owners
<1>2. ASSUME NEW c \in Caller, NEW m \in Mode, NEW src \in Source, NEW ts \in Targets,
             NEW i \in CallNo, Called(c, m, src, ts, i)
      PROVE  Owners'
  <2> SUFFICES ASSUME NEW d \in Caller
               PROVE  /\ no'[d] \in 0..Len(calls')
                      /\ no'[d] # 0 => calls'[no'[d]].by = d
                      /\ pc'[d] # "idle" => no'[d] # 0
                      /\ \A k \in DOMAIN calls' : calls'[k].by = d => k <= no'[d]
    BY DEF Owners
  <2>1. CASE d = c
    BY <1>2, <2>1 DEF Called, TypeOK
  <2>2. CASE d # c
    <3>1. no'[d] = no[d] /\ pc'[d] = pc[d]
      BY <1>2, <2>2 DEF Called, TypeOK
    <3>2. no[d] \in 0..Len(calls) /\ Len(calls') = Len(calls) + 1 /\ Len(calls) \in Nat
      BY <1>2 DEF Called, Owners
    <3>3. no[d] # 0 => calls'[no[d]].by = d
      BY <1>2, <3>2 DEF Called, Owners
    <3>4. ASSUME NEW k \in DOMAIN calls', calls'[k].by = d PROVE k <= no[d]
      BY <1>2, <2>2, <3>4 DEF Called, Owners
    <3> QED BY <3>1, <3>2, <3>3, <3>4 DEF Owners
  <2> QED BY <2>1, <2>2
<1>3. ASSUME NEW c \in Caller, Lock(c) PROVE Owners'
  BY <1>1, <1>3 DEF Lock, TypeOK, callVars
<1>4. ASSUME NEW c \in Caller, Returns(c) PROVE Owners'
  BY <1>1, <1>4 DEF Returns, TypeOK, callVars
<1>5. ASSUME NEW c \in Caller, Checks(c) PROVE Owners'
  BY <1>1, <1>5 DEF Checks, InLoop, TypeOK, callVars
<1>6. ASSUME NEW c \in Caller, InLoop(c), NextTarget(c), UNCHANGED <<calls, no>> PROVE Owners'
  BY <1>1, <1>6 DEF InLoop, NextTarget, TypeOK
<1> QED BY <1>1, <1>2, <1>3, <1>4, <1>5, <1>6
      DEF Step, Skips, Fails, Spawns, Delivers, Lands, Drops, callVars

LEMMA SlicesStep ==
  ASSUME Inv, Step
  PROVE  Slices'
<1> USE DEF Inv
<1>1. CASE UNCHANGED calls
  BY <1>1 DEF Slices
<1>2. ASSUME NEW c \in Caller, NEW m \in Mode, NEW src \in Source, NEW ts \in Targets,
             NEW i \in CallNo, Called(c, m, src, ts, i)
      PROVE  Slices'
  <2>1. i \in DOMAIN calls' /\ calls'[i].by = c
    BY <1>2 DEF Called, Slices, Owners
  <2> QED BY <1>2, <2>1 DEF Called, Slices
<1> QED BY <1>1, <1>2
      DEF Step, Lock, Returns, Skips, Checks, Fails, Spawns, Delivers, Lands, Drops, callVars

LEMMA InputsHeldStep ==
  ASSUME Inv, Step
  PROVE  InputsHeld'
<1> USE DEF Inv
<1>1. CASE /\ UNCHANGED <<calls, content, no>>
           /\ \A d \in Caller : pc'[d] = pc[d] \/ pc[d] # "idle"
  BY <1>1 DEF InputsHeld, Mine
<1>2. ASSUME NEW c \in Caller, NEW m \in Mode, NEW src \in Source, NEW ts \in Targets,
             NEW i \in CallNo, Called(c, m, src, ts, i)
      PROVE  InputsHeld'
  <2> SUFFICES ASSUME NEW d \in Caller, pc'[d] # "idle"
               PROVE  content'[calls'[no'[d]].slice] = no'[d]
    BY DEF InputsHeld, Mine
  <2>1. CASE d = c
    BY <1>2, <2>1 DEF Called, TypeOK
  <2>2. CASE d # c
    <3>1. no'[d] = no[d] /\ pc[d] # "idle"
      BY <1>2, <2>2 DEF Called, TypeOK
    <3>2. no[d] \in DOMAIN calls /\ Mine(d).by = d
      BY <3>1, MineFacts
    <3>3. calls[no[d]].slice \in DOMAIN calls /\ calls[calls[no[d]].slice].by = d
      BY <3>2 DEF Slices, Mine
    <3>4. calls[no[d]].slice # i
      BY <1>2, <2>2, <3>3, SMTT(30) DEF Called, Slices, Owners
    <3>5. content[calls[no[d]].slice] = no[d]
      BY <3>1 DEF InputsHeld, Mine
    <3>6. calls'[no[d]] = calls[no[d]]
      BY <1>2, <3>2 DEF Called
    <3>7. content'[calls[no[d]].slice] = content[calls[no[d]].slice]
      BY <1>2, <3>4, <3>3 DEF Called, TypeOK
    <3> QED BY <3>1, <3>5, <3>6, <3>7
  <2> QED BY <2>1, <2>2
<1>3. ASSUME NEW c \in Caller, Lock(c) PROVE InputsHeld'
  BY <1>1, <1>3 DEF Lock, TypeOK, callVars
<1>4. ASSUME NEW c \in Caller, Returns(c) PROVE InputsHeld'
  BY <1>1, <1>4 DEF Returns, TypeOK, callVars
<1>5. ASSUME NEW c \in Caller, Checks(c) PROVE InputsHeld'
  BY <1>1, <1>5 DEF Checks, InLoop, TypeOK, callVars
<1>6. ASSUME NEW c \in Caller, InLoop(c), NextTarget(c), UNCHANGED <<callVars, no>>
      PROVE  InputsHeld'
  BY <1>1, <1>6 DEF InLoop, NextTarget, TypeOK, callVars
<1> QED BY <1>1, <1>2, <1>3, <1>4, <1>5, <1>6
      DEF Step, Skips, Fails, Spawns, Delivers, Lands, Drops, callVars

\* The loops stay within their lists of targets.
LEMMA LoopsStep ==
  ASSUME Inv, Step
  PROVE  Loops'
<1> USE DEF Inv
<1>1. CASE UNCHANGED <<calls, no, pc, pos>>
  BY <1>1 DEF Loops, Mine, Target, Sync
<1>2. ASSUME NEW c \in Caller, NEW m \in Mode, NEW src \in Source, NEW ts \in Targets,
             NEW i \in CallNo, Called(c, m, src, ts, i)
      PROVE  Loops'
  <2>1. ASSUME NEW d \in Caller, pc'[d] \notin {"idle", "lock"}
        PROVE  pc'[d] = pc[d] /\ pos'[d] = pos[d] /\ calls'[no'[d]] = calls[no[d]]
    <3>1. no'[d] = no[d] /\ pc'[d] = pc[d] /\ pos'[d] = pos[d]
      BY <1>2, <2>1 DEF Called, TypeOK
    <3>2. no[d] \in DOMAIN calls
      BY <2>1, <3>1, MineFacts
    <3> QED BY <1>2, <3>1, <3>2 DEF Called
  <2>2. ASSUME NEW d \in Caller
        PROVE  /\ pc'[d] = "get" => pos'[d] <= Len(calls'[no'[d]].targets) + 1
               /\ pc'[d] \in {"state", "slow", "write"} =>
                    /\ pos'[d] <= Len(calls'[no'[d]].targets)
                    /\ calls'[no'[d]].targets[pos'[d]] # calls'[no'[d]].source
               /\ pc'[d] = "write" => calls'[no'[d]].mode = "sync"
    <3>1. CASE pc'[d] \in {"idle", "lock"}
      BY <3>1
    <3>2. CASE pc'[d] \notin {"idle", "lock"}
      <4>1. pc'[d] = pc[d] /\ pos'[d] = pos[d] /\ calls'[no'[d]] = calls[no[d]]
        BY <2>1, <3>2
      <4> QED BY <4>1 DEF Loops, Mine, Target, Sync
    <3> QED BY <3>1, <3>2
  <2> QED BY <2>2 DEF Loops, Mine, Target, Sync
<1>3. ASSUME NEW c \in Caller, Lock(c) PROVE Loops'
  <2>1. Len(Mine(c).targets) \in Nat
    BY <1>3, MineFacts DEF Lock
  <2> QED BY <1>3, <2>1 DEF Lock, Loops, Mine, Target, Sync, TypeOK, callVars
<1>4. ASSUME NEW c \in Caller, Returns(c) PROVE Loops'
  BY <1>4 DEF Returns, Loops, Mine, Target, Sync, TypeOK, callVars
<1>5. ASSUME NEW c \in Caller, Checks(c) PROVE Loops'
  BY <1>5 DEF Checks, AtTarget, Loops, Mine, Target, Sync, TypeOK, callVars
<1>6. ASSUME NEW c \in Caller, AtTarget(c), NextTarget(c), UNCHANGED <<callVars, no>>
      PROVE  Loops'
  <2>1. pos[c] \in Nat /\ Len(Mine(c).targets) \in Nat /\ pos[c] <= Len(Mine(c).targets)
    BY <1>6, CallFacts DEF AtTarget, Mine, TypeOK
  <2> QED BY <1>6, <2>1 DEF NextTarget, Loops, Mine, Target, Sync, TypeOK, callVars
<1> QED BY <1>1, <1>2, <1>3, <1>4, <1>5, <1>6
      DEF Step, Skips, Fails, Spawns, Delivers, Lands, Drops, callVars

-----------------------------------------------------------------------------
(* How far the loops are *)

\* What Done says of a call: its caller tells, and past its return all is done.
DoneIs ==
  \A i \in DOMAIN calls :
    /\ \A c \in Caller : no[c] = i /\ pc[c] # "idle" =>
         Done(i) = IF pc[c] = "lock" THEN 0 ELSE pos[c] - 1
    /\ Over(i) => Done(i) = Len(calls[i].targets)

LEMMA DoneValue == TypeOK /\ Owners => DoneIs
<1> SUFFICES ASSUME TypeOK, Owners, NEW i \in DOMAIN calls
             PROVE  /\ \A c \in Caller : no[c] = i /\ pc[c] # "idle" =>
                         Done(i) = IF pc[c] = "lock" THEN 0 ELSE pos[c] - 1
                    /\ Over(i) => Done(i) = Len(calls[i].targets)
  BY DEF DoneIs
<1>1. ASSUME NEW c \in Caller, no[c] = i, pc[c] # "idle"
      PROVE  Done(i) = IF pc[c] = "lock" THEN 0 ELSE pos[c] - 1
  <2>1. i # 0
    BY CallFacts DEF CallNo
  <2>2. \A d \in Caller : no[d] = i => d = c
    BY <1>1, <2>1 DEF Owners
  <2>3. (CHOOSE d \in Caller : no[d] = i) = c
    BY <1>1, <2>2
  <2> QED BY <1>1, <2>3 DEF Done
<1>2. ASSUME Over(i) PROVE Done(i) = Len(calls[i].targets)
  BY <1>2 DEF Over, Done
<1> QED BY <1>1, <1>2

\* What a step does to it.
Steady == \A i \in DOMAIN calls : Done(i)' = Done(i)
Passes(c) == \A i \in DOMAIN calls : Done(i)' = Done(i) + (IF i = no[c] THEN 1 ELSE 0)

LEMMA DoneSame ==
  ASSUME UNCHANGED <<calls, no, pc, pos>>
  PROVE  Steady
BY DEF Steady, Done

LEMMA DoneType ==
  ASSUME TypeOK, Owners, NEW i \in DOMAIN calls
  PROVE  Done(i) \in Nat
<1>1. DoneIs
  BY DoneValue
<1>2. CASE Over(i)
  BY <1>1, <1>2, CallFacts DEF DoneIs
<1>3. CASE ~Over(i)
  <2>1. PICK c \in Caller : no[c] = i /\ pc[c] # "idle"
    BY <1>3 DEF Over
  <2>2. pos[c] - 1 \in Nat
    BY DEF TypeOK
  <2> QED BY <1>1, <2>1, <2>2 DEF DoneIs
<1> QED BY <1>2, <1>3

\* A call that is not the one of c is as far as before.
LEMMA DoneOthers ==
  ASSUME Inv, TypeOK', Owners', NEW c \in Caller, NEW i \in DOMAIN calls, no[c] # i,
         UNCHANGED <<calls, no>>,
         \A d \in Caller : d # c => pc'[d] = pc[d] /\ pos'[d] = pos[d]
  PROVE  Done(i)' = Done(i)
<1>1. DoneIs
  BY DoneValue DEF Inv
<1>2. DoneIs'
  BY DoneValue, PTL
<1>3. CASE Over(i)
  <2>1. Over(i)'
    BY <1>3 DEF Over
  <2> QED BY <1>1, <1>2, <1>3, <2>1 DEF DoneIs
<1>4. CASE ~Over(i)
  <2>1. PICK d \in Caller : no[d] = i /\ pc[d] # "idle"
    BY <1>4 DEF Over
  <2>2. d # c /\ no'[d] = i /\ pc'[d] = pc[d] /\ pos'[d] = pos[d]
    BY <2>1
  <2> QED BY <1>1, <1>2, <2>1, <2>2 DEF DoneIs
<1> QED BY <1>3, <1>4

LEMMA DoneReturns ==
  ASSUME Inv, TypeOK', Owners', NEW c \in Caller, Returns(c)
  PROVE  Steady
<1> USE DEF Inv
<1>1. DoneIs /\ DoneIs'
  BY DoneValue, PTL
<1>2. no[c] \in DOMAIN calls /\ Len(calls[no[c]].targets) \in Nat
  BY MineFacts DEF Returns, Mine
<1>3. Over(no[c])'
  <2> SUFFICES ASSUME NEW d \in Caller, no'[d] = no[c]
               PROVE  pc'[d] = "idle"
    BY DEF Over, Returns
  <2>1. d = c
    BY <1>2, CallFacts DEF Owners, Returns, CallNo
  <2> QED BY <2>1 DEF Returns, TypeOK
<1>4. Done(no[c])' = Len(calls[no[c]].targets)
  BY <1>1, <1>2, <1>3 DEF DoneIs, Returns, callVars
<1>5. Done(no[c]) = pos[c] - 1
  BY <1>1, <1>2 DEF DoneIs, Returns
<1>6. Done(no[c])' = Done(no[c])
  BY <1>2, <1>4, <1>5 DEF Returns, Mine
<1>7. \A d \in Caller : d # c => pc'[d] = pc[d] /\ pos'[d] = pos[d]
  BY DEF Returns, TypeOK
<1>8. UNCHANGED <<calls, no>>
  BY DEF Returns, callVars
<1> QED BY <1>6, <1>7, <1>8, DoneOthers DEF Steady

LEMMA DoneStays ==
  ASSUME Inv, TypeOK', Owners', NEW c \in Caller, Lock(c) \/ Checks(c)
  PROVE  Steady
<1> USE DEF Inv
<1>1. DoneIs /\ DoneIs'
  BY DoneValue, PTL
<1>2. no[c] \in DOMAIN calls /\ UNCHANGED <<calls, no>>
  BY MineFacts DEF Lock, Checks, AtTarget, callVars
<1>3. Done(no[c])' = Done(no[c])
  <2>1. CASE Lock(c)
    <3>1. pc'[c] = "get" /\ pos'[c] = 1
      BY <2>1 DEF Lock, TypeOK
    <3>2. Done(no[c])' = 0
      BY <1>1, <1>2, <3>1 DEF DoneIs
    <3>3. Done(no[c]) = 0
      BY <1>1, <1>2, <2>1 DEF DoneIs, Lock
    <3> QED BY <3>2, <3>3
  <2>2. CASE Checks(c)
    <3>1. pc'[c] \notin {"idle", "lock"} /\ pos'[c] = pos[c]
      BY <2>2 DEF Checks, TypeOK
    <3>2. Done(no[c])' = pos[c] - 1
      BY <1>1, <1>2, <3>1 DEF DoneIs
    <3>3. Done(no[c]) = pos[c] - 1
      BY <1>1, <1>2, <2>2 DEF DoneIs, Checks, InLoop
    <3> QED BY <3>2, <3>3
  <2> QED BY <2>1, <2>2
<1>4. \A d \in Caller : d # c => pc'[d] = pc[d] /\ pos'[d] = pos[d]
  BY DEF Lock, Checks, TypeOK
<1> QED BY <1>2, <1>3, <1>4, DoneOthers DEF Steady

LEMMA DonePasses ==
  ASSUME Inv, TypeOK', Owners', NEW c \in Caller, InLoop(c), AtTarget(c), NextTarget(c),
         UNCHANGED <<calls, no>>
  PROVE  Passes(c) /\ Done(no[c]) = pos[c] - 1
<1> USE DEF Inv
<1>1. DoneIs /\ DoneIs'
  BY DoneValue, PTL
<1>2. no[c] \in DOMAIN calls /\ pos[c] \in Nat
  BY DEF AtTarget, TypeOK
<1>3. pc'[c] = "get" /\ pos'[c] = pos[c] + 1
  BY DEF NextTarget, TypeOK
<1>4. Done(no[c])' = pos[c] + 1 - 1
  BY <1>1, <1>2, <1>3 DEF DoneIs
<1>5. Done(no[c]) = pos[c] - 1
  BY <1>1, <1>2 DEF DoneIs, InLoop
<1>6. Done(no[c])' = Done(no[c]) + 1
  BY <1>2, <1>4, <1>5
<1>7. \A d \in Caller : d # c => pc'[d] = pc[d] /\ pos'[d] = pos[d]
  BY DEF NextTarget, TypeOK
<1>8. \A i \in DOMAIN calls : i # no[c] => Done(i)' = Done(i)
  BY <1>7, DoneOthers
<1>9. \A i \in DOMAIN calls : Done(i) \in Nat
  BY DoneType
<1> QED BY <1>5, <1>6, <1>8, <1>9 DEF Passes

\* A new call has done nothing.
LEMMA DoneCalled ==
  ASSUME Inv, TypeOK', Owners', NEW c \in Caller, NEW m \in Mode, NEW src \in Source,
         NEW ts \in Targets, NEW i \in CallNo, Called(c, m, src, ts, i)
  PROVE  Steady /\ Done(Len(calls))' = 0
<1> USE DEF Inv
<1>1. DoneIs /\ DoneIs'
  BY DoneValue, PTL
<1>2. Done(Len(calls))' = 0
  <2>1. Len(calls') \in DOMAIN calls' /\ no'[c] = Len(calls') /\ pc'[c] = "lock"
    BY DEF Called, TypeOK
  <2> QED BY <1>1, <2>1 DEF DoneIs
<1>3. ASSUME NEW k \in DOMAIN calls PROVE Done(k)' = Done(k)
  <2>1. k \in DOMAIN calls' /\ k # Len(calls) + 1 /\ calls'[k] = calls[k]
    BY DEF Called
  <2>2. \A d \in Caller : pc[d] # "idle" => /\ no'[d] = no[d] /\ pc'[d] = pc[d]
                                            /\ pos'[d] = pos[d]
    BY DEF Called, TypeOK
  <2>3. CASE Over(k)
    <3>1. Over(k)'
      BY <2>1, <2>3 DEF Over, Called, TypeOK
    <3> QED BY <1>1, <2>1, <2>3, <3>1 DEF DoneIs
  <2>4. CASE ~Over(k)
    <3>1. PICK d \in Caller : no[d] = k /\ pc[d] # "idle"
      BY <2>4 DEF Over
    <3>2. no'[d] = k /\ pc'[d] = pc[d] /\ pos'[d] = pos[d]
      BY <2>2, <3>1
    <3> QED BY <1>1, <2>1, <3>1, <3>2 DEF DoneIs
  <2> QED BY <2>3, <2>4
<1> QED BY <1>2, <1>3 DEF Steady

-----------------------------------------------------------------------------
(* The goroutines and the shells *)

\* What Deliver does: one element more at one shell.
Grown(i, s) ==
  /\ \A u \in Session : u # s => shell'[u] = shell[u]
  /\ DOMAIN shell[s] = 1..Len(shell[s]) /\ Len(shell[s]) \in Nat
  /\ DOMAIN shell'[s] = 1..Len(shell[s]) + 1 /\ Len(shell'[s]) = Len(shell[s]) + 1
  /\ \A k \in DOMAIN shell[s] : shell'[s][k] = shell[s][k]
  /\ shell'[s][Len(shell[s]) + 1] = [of |-> i, content |-> content[calls[i].slice]]

LEMMA DeliverEffect ==
  ASSUME TypeOK, NEW i \in DOMAIN calls, NEW s \in Session, Deliver(i, s)
  PROVE  Grown(i, s)
<1> DEFINE E == [of : CallNo, content : 0..MaxCalls]
           e == [of |-> i, content |-> content[calls[i].slice]]
<1>1. e \in E
  BY CallFacts, SliceContent
<1>2. shell \in [Session -> Seq(E)] /\ shell[s] \in Seq(E)
  BY DEF TypeOK
<1>3. shell' = [shell EXCEPT ![s] = Append(@, e)]
  BY DEF Deliver
<1>4. shell'[s] = Append(shell[s], e) /\ \A u \in Session : u # s => shell'[u] = shell[u]
  BY <1>2, <1>3
<1> HIDE DEF e, E
<1>5. /\ Append(shell[s], e) \in Seq(E) /\ Len(Append(shell[s], e)) = Len(shell[s]) + 1
      /\ \A k \in 1..Len(shell[s]) : Append(shell[s], e)[k] = shell[s][k]
      /\ Append(shell[s], e)[Len(shell[s]) + 1] = e
  BY <1>1, <1>2, AppendProperties
<1>6. DOMAIN shell[s] = 1..Len(shell[s]) /\ Len(shell[s]) \in Nat
  BY <1>2, LenProperties
<1>7. DOMAIN Append(shell[s], e) = 1..Len(shell[s]) + 1
  BY <1>5, LenProperties
<1> QED BY <1>4, <1>5, <1>6, <1>7 DEF Grown, e

\* The target of a goroutine.
LEMMA ThreadFacts ==
  ASSUME Inv, NEW t \in threads
  PROVE  /\ t[1] \in DOMAIN calls /\ t[1] \in CallNo /\ t = <<t[1], t[2]>>
         /\ calls[t[1]].targets[t[2]] \in Session
<1>1. t[1] \in DOMAIN calls /\ t[2] \in 1..Len(calls[t[1]].targets)
  BY DEF Inv, Goroutines
<1>2. t[1] \in CallNo /\ calls[t[1]].targets \in Seq(Session)
  BY <1>1, CallFacts DEF Inv
<1>3. t = <<t[1], t[2]>>
  BY DEF Inv, TypeOK
<1> QED BY <1>1, <1>2, <1>3, ElementOfSeq

\* A goroutine is new: its loop was not past its target.
LEMMA ThreadNew ==
  ASSUME Inv, TypeOK', Owners', NEW c \in Caller, Spawns(c)
  PROVE  <<no[c], pos[c]>> \notin threads
<1>1. Done(no[c]) = pos[c] - 1
  BY DonePasses DEF Spawns, callVars
<1>2. pos[c] \in Nat
  BY DEF Inv, TypeOK
<1> QED BY <1>1, <1>2 DEF Inv, Goroutines

LEMMA GoroutinesStep ==
  ASSUME Inv, TypeOK', Owners', Step
  PROVE  Goroutines'
<1> USE DEF Inv
<1>0. \A i \in DOMAIN calls : Done(i) \in Nat
  BY DoneType
<1>1. ASSUME UNCHANGED calls, threads' \subseteq threads, Steady
      PROVE  Goroutines'
  <2>1. IsFiniteSet(threads')
    BY <1>1, FS_Subset DEF Goroutines
  <2> QED BY <1>1, <2>1 DEF Goroutines, Steady, Sync
<1>2. ASSUME NEW c \in Caller, UNCHANGED <<calls, threads>>, Passes(c)
      PROVE  Goroutines'
  <2> SUFFICES ASSUME NEW t \in threads
               PROVE  t[2] <= Done(t[1])'
    BY <1>2 DEF Goroutines, Sync
  <2>1. t[1] \in DOMAIN calls /\ t[2] <= Done(t[1]) /\ t[2] \in Nat
    BY DEF Goroutines, TypeOK
  <2>2. Done(t[1])' = Done(t[1]) \/ Done(t[1])' = Done(t[1]) + 1
    BY <1>0, <1>2, <2>1 DEF Passes
  <2> QED BY <1>0, <2>1, <2>2
<1>3. ASSUME NEW c \in Caller, NEW m \in Mode, NEW src \in Source, NEW ts \in Targets,
             NEW i \in CallNo, Called(c, m, src, ts, i)
      PROVE  Goroutines'
  <2>1. Steady
    BY <1>3, DoneCalled
  <2>2. UNCHANGED threads /\ \A k \in DOMAIN calls : k \in DOMAIN calls' /\ calls'[k] = calls[k]
    BY <1>3 DEF Called, outVars
  <2> QED BY <2>1, <2>2 DEF Goroutines, Steady, Sync
<1>4. ASSUME NEW c \in Caller, Spawns(c) PROVE Goroutines'
  <2>1. Passes(c) /\ Done(no[c]) = pos[c] - 1
    BY <1>4, DonePasses DEF Spawns, callVars
  <2>2. IsFiniteSet(threads')
    BY <1>4, FS_AddElement DEF Spawns, Goroutines
  <2> SUFFICES ASSUME NEW t \in threads'
               PROVE  /\ t[1] \in DOMAIN calls /\ t[2] \in 1..Len(calls[t[1]].targets)
                      /\ calls[t[1]].targets[t[2]] # calls[t[1]].source
                      /\ ~Sync(t[1]) /\ t[2] <= Done(t[1])'
    BY <1>4, <2>2 DEF Spawns, callVars, Goroutines, Sync
  <2>3. CASE t \in threads
    <3>1. t[1] \in DOMAIN calls /\ t[2] <= Done(t[1]) /\ t[2] \in Nat
      BY <2>3 DEF Goroutines, TypeOK
    <3>2. Done(t[1])' = Done(t[1]) \/ Done(t[1])' = Done(t[1]) + 1
      BY <1>0, <2>1, <3>1 DEF Passes
    <3>3. t[2] <= Done(t[1])'
      BY <1>0, <3>1, <3>2
    <3> QED BY <2>3, <3>3 DEF Goroutines
  <2>4. CASE t = <<no[c], pos[c]>>
    <3>1. t[1] = no[c] /\ t[2] = pos[c] /\ pos[c] \in Nat /\ no[c] \in DOMAIN calls
      BY <1>4, <2>4 DEF Spawns, AtTarget, TypeOK
    <3>2. Done(t[1])' = pos[c]
      BY <2>1, <3>1 DEF Passes
    <3> QED BY <1>4, <3>1, <3>2 DEF Spawns, AtTarget, Target, Mine
  <2> QED BY <1>4, <2>3, <2>4 DEF Spawns
<1>5. ASSUME NEW c \in Caller, Lock(c) \/ Checks(c) PROVE Goroutines'
  BY <1>1, <1>5, DoneStays DEF Lock, Checks, callVars, outVars
<1>6. ASSUME NEW c \in Caller, Returns(c) PROVE Goroutines'
  BY <1>1, <1>6, DoneReturns DEF Returns, callVars, outVars
<1>7. ASSUME NEW c \in Caller, Skips(c) \/ Fails(c) \/ Delivers(c) PROVE Goroutines'
  BY <1>2, <1>7, DonePasses DEF Skips, Fails, Delivers, callVars, outVars
<1>8. ASSUME NEW t \in threads, Lands(t) \/ Drops(t) PROVE Goroutines'
  BY <1>1, <1>8, DoneSame DEF Lands, Drops, callVars
<1>9. CASE UNCHANGED <<callVars, mu, pc, no, pos, outVars>>
  BY <1>1, <1>9, DoneSame DEF callVars, outVars
<1> QED BY <1>3, <1>4, <1>5, <1>6, <1>7, <1>8, <1>9 DEF Step

LEMMA BlankStep ==
  ASSUME Inv, Step
  PROVE  Blank'
<1> USE DEF Inv
<1>1. CASE UNCHANGED <<calls, errors, lost, shell>>
  BY <1>1 DEF Blank
<1>2. ASSUME NEW c \in Caller, NEW m \in Mode, NEW src \in Source, NEW ts \in Targets,
             NEW i \in CallNo, Called(c, m, src, ts, i)
      PROVE  Blank'
  BY <1>2 DEF Called, Blank, outVars
<1>3. ASSUME NEW c \in Caller, Fails(c) PROVE Blank'
  <2>1. \A i \in CallNo \ DOMAIN calls, s \in Session : errors'[i][s] = errors[i][s]
    BY <1>3 DEF Fails, Fail, AtTarget, TypeOK, Counts
  <2> QED BY <1>3, <2>1 DEF Fails, Blank, callVars
<1>4. ASSUME NEW t \in threads, Drops(t) PROVE Blank'
  <2>1. t[1] \in DOMAIN calls
    BY ThreadFacts
  <2>2. \A i \in CallNo \ DOMAIN calls, s \in Session : lost'[i][s] = lost[i][s]
    BY <1>4, <2>1 DEF Drops, TypeOK, Counts
  <2> QED BY <1>4, <2>2, SMTT(30) DEF Drops, Blank, callVars
<1>5. ASSUME NEW i \in DOMAIN calls, NEW s \in Session, Grown(i, s),
             UNCHANGED <<calls, errors, lost>>
      PROVE  Blank'
  BY <1>5 DEF Grown, Blank
<1>6. ASSUME NEW c \in Caller, Delivers(c) PROVE Blank'
  BY <1>5, <1>6, DeliverEffect DEF Delivers, AtTarget, callVars
<1>7. ASSUME NEW t \in threads, Lands(t) PROVE Blank'
  BY <1>5, <1>7, DeliverEffect, ThreadFacts DEF Lands, callVars
<1> QED BY <1>1, <1>2, <1>3, <1>4, <1>6, <1>7
      DEF Step, Lock, Returns, Skips, Checks, Spawns, callVars, outVars

-----------------------------------------------------------------------------
(* The balance *)

\* What is known of call i at session s.
Total(i, s) == Arrived(i, s) + errors[i][s] + lost[i][s] + UnderWay(i, s)

\* The calls whose inputs a shell has got.
Ofs(q) == [k \in DOMAIN q |-> q[k].of]

LEMMA ArrivedOccurs ==
  ASSUME NEW i, NEW q, NEW n \in Nat, DOMAIN q = 1..n
  PROVE  Cardinality({k \in 1..n : q[k].of = i}) = Occurs(Ofs(q), n, i)
<1>1. {k \in 1..n : q[k].of = i} = {k \in 1..n : Ofs(q)[k] = i}
  BY DEF Ofs
<1> QED BY <1>1 DEF Occurs

\* One write more has arrived.
LEMMA ArrivedMore ==
  ASSUME NEW i, NEW s \in Session, Grown(i, s), NEW j
  PROVE  Arrived(j, s)' = Arrived(j, s) + (IF j = i THEN 1 ELSE 0)
<1> DEFINE n == Len(shell[s])
           f == Ofs(shell[s])
           g == Ofs(shell'[s])
<1>1. /\ n \in Nat /\ n + 1 \in Nat /\ Len(shell'[s]) = n + 1
      /\ DOMAIN shell[s] = 1..n /\ DOMAIN shell'[s] = 1..n + 1
  BY DEF Grown
<1>2. (\A k \in 1..n : f[k] = g[k]) /\ g[n + 1] = i
  BY <1>1 DEF Grown, Ofs
<1>3. Cardinality({k \in 1..Len(shell[s]) : shell[s][k].of = j}) = Occurs(f, n, j)
  BY <1>1, ArrivedOccurs
<1>4. Cardinality({k \in 1..Len(shell'[s]) : shell'[s][k].of = j}) = Occurs(g, n + 1, j)
  <2> HIDE DEF n
  <2>1. Cardinality({k \in 1..n + 1 : shell'[s][k].of = j}) = Occurs(g, n + 1, j)
    BY <1>1, ArrivedOccurs
  <2> QED BY <1>1, <2>1
<1> HIDE DEF n, f, g
<1>5. Occurs(g, n + 1, j) = Occurs(g, n, j) + (IF g[n + 1] = j THEN 1 ELSE 0)
  <2>1. n \in Nat
    BY <1>1
  <2> QED BY <2>1, OccursMore
<1>6. Occurs(g, n, j) = Occurs(f, n, j)
  BY <1>1, <1>2, OccursSame
<1>7. Arrived(j, s)' = Occurs(g, n + 1, j) /\ Arrived(j, s) = Occurs(f, n, j)
  BY <1>3, <1>4 DEF Arrived, Count
<1> QED BY <1>2, <1>5, <1>6, <1>7

LEMMA ArrivedType ==
  ASSUME TypeOK, NEW i, NEW s \in Session
  PROVE  Arrived(i, s) \in Nat
<1>1. Len(shell[s]) \in Nat /\ DOMAIN shell[s] = 1..Len(shell[s])
  BY LenProperties DEF TypeOK
<1>2. Cardinality({k \in 1..Len(shell[s]) : shell[s][k].of = i})
        = Occurs(Ofs(shell[s]), Len(shell[s]), i)
  BY <1>1, ArrivedOccurs
<1>3. Occurs(Ofs(shell[s]), Len(shell[s]), i) \in Nat
  BY <1>1, OccursMore
<1> QED BY <1>2, <1>3 DEF Arrived, Count

\* The goroutines can be counted.
LEMMA SomeThreads ==
  ASSUME Goroutines, NEW T \in SUBSET threads
  PROVE  IsFiniteSet(T) /\ Cardinality(T) \in Nat
<1>1. IsFiniteSet(T)
  BY FS_Subset DEF Goroutines
<1> QED BY <1>1, FS_CardinalityType

LEMMA UnderWayType ==
  ASSUME Goroutines, NEW i, NEW s
  PROVE  UnderWay(i, s) \in Nat
<1> DEFINE T == {t \in threads : t[1] = i /\ calls[i].targets[t[2]] = s}
<1>1. T \in SUBSET threads
  OBVIOUS
<1>2. Cardinality(T) \in Nat
  BY <1>1, SomeThreads
<1> QED BY <1>2 DEF UnderWay

\* The four numbers are numbers.
LEMMA TotalTypes ==
  ASSUME Inv, NEW i \in DOMAIN calls, NEW s \in Session
  PROVE  /\ Arrived(i, s) \in Nat /\ errors[i][s] \in Nat /\ lost[i][s] \in Nat
         /\ UnderWay(i, s) \in Nat
<1>1. i \in CallNo
  BY CallFacts DEF Inv
<1>2. errors[i][s] \in Nat /\ lost[i][s] \in Nat
  BY <1>1 DEF Inv, TypeOK, Counts
<1> QED BY <1>2, ArrivedType, UnderWayType DEF Inv

\* One goroutine more is under way, or one less.
LEMMA UnderWayMore ==
  ASSUME Inv, UNCHANGED calls, NEW a, NEW b, <<a, b>> \notin threads,
         threads' = threads \cup {<<a, b>>}, NEW i, NEW s
  PROVE  UnderWay(i, s)' = UnderWay(i, s)
           + (IF i = a /\ s = calls[a].targets[b] THEN 1 ELSE 0)
<1> DEFINE T == {t \in threads : t[1] = i /\ calls[i].targets[t[2]] = s}
           U == {t \in threads' : t[1] = i /\ calls[i].targets[t[2]] = s}
<1>1. IsFiniteSet(T) /\ Cardinality(T) \in Nat
  <2>1. T \in SUBSET threads
    OBVIOUS
  <2> QED BY <2>1, SomeThreads DEF Inv
<1>2. UnderWay(i, s) = Cardinality(T) /\ UnderWay(i, s)' = Cardinality(U)
  BY DEF UnderWay
<1>3. CASE i = a /\ s = calls[a].targets[b]
  <2>1. U = T \cup {<<a, b>>} /\ <<a, b>> \notin T
    BY <1>3
  <2>2. Cardinality(U) = Cardinality(T) + 1
    BY <1>1, <2>1, FS_AddElement
  <2> QED BY <1>2, <1>3, <2>2
<1>4. CASE ~(i = a /\ s = calls[a].targets[b])
  <2>1. U = T
    BY <1>4
  <2> HIDE DEF T, U
  <2> QED BY <1>1, <1>2, <1>4, <2>1
<1> QED BY <1>3, <1>4

LEMMA UnderWayLess ==
  ASSUME Inv, UNCHANGED calls, NEW t \in threads, threads' = threads \ {t}, NEW i, NEW s
  PROVE  UnderWay(i, s) = UnderWay(i, s)'
           + (IF i = t[1] /\ s = calls[t[1]].targets[t[2]] THEN 1 ELSE 0)
<1> DEFINE T == {u \in threads : u[1] = i /\ calls[i].targets[u[2]] = s}
           U == {u \in threads' : u[1] = i /\ calls[i].targets[u[2]] = s}
<1>1. IsFiniteSet(T) /\ Cardinality(T) \in Nat
  <2>1. T \in SUBSET threads
    OBVIOUS
  <2> QED BY <2>1, SomeThreads DEF Inv
<1>2. UnderWay(i, s) = Cardinality(T) /\ UnderWay(i, s)' = Cardinality(U)
  BY DEF UnderWay
<1>3. CASE i = t[1] /\ s = calls[t[1]].targets[t[2]]
  <2>1. U = T \ {t} /\ t \in T
    BY <1>3
  <2>2. Cardinality(U) = Cardinality(T) - 1
    <3> HIDE DEF T, U
    <3> QED BY <1>1, <2>1, FS_RemoveElement
  <2> HIDE DEF T, U
  <2> QED BY <1>1, <1>2, <1>3, <2>2
<1>4. CASE ~(i = t[1] /\ s = calls[t[1]].targets[t[2]])
  <2>1. U = T
    BY <1>4
  <2> HIDE DEF T, U
  <2> QED BY <1>1, <1>2, <1>4, <2>1
<1> QED BY <1>3, <1>4

\* A step that leaves the account alone, or adds one to it.
Settled == \A j \in DOMAIN calls, u \in Session : Total(j, u)' = Total(j, u)
Adds(i, s) == \A j \in DOMAIN calls, u \in Session :
                Total(j, u)' = Total(j, u) + (IF j = i /\ u = s THEN 1 ELSE 0)

LEMMA FailsAdds ==
  ASSUME Inv, NEW c \in Caller, Fails(c)
  PROVE  Adds(no[c], Target(c))
<1> SUFFICES ASSUME NEW j \in DOMAIN calls, NEW u \in Session
             PROVE  Total(j, u)' = Total(j, u)
                      + (IF j = no[c] /\ u = Target(c) THEN 1 ELSE 0)
  BY DEF Adds
<1>1. Arrived(j, u)' = Arrived(j, u) /\ UnderWay(j, u)' = UnderWay(j, u) /\ lost' = lost
  BY DEF Fails, Arrived, Count, UnderWay, callVars
<1>2. j \in CallNo
  BY CallFacts DEF Inv
<1>3. errors'[j][u] = errors[j][u] + (IF j = no[c] /\ u = Target(c) THEN 1 ELSE 0)
  <2>1. errors \in [CallNo -> [Session -> Nat]] /\ no[c] \in CallNo /\ Target(c) \in Session
    BY DEF Inv, TypeOK, Counts, Fails, AtTarget
  <2>2. errors' = [errors EXCEPT ![no[c]][Target(c)] = @ + 1]
    BY DEF Fails, Fail
  <2> QED BY <1>2, <2>1, <2>2
<1> QED BY <1>1, <1>3, TotalTypes DEF Total

LEMMA DeliversAdds ==
  ASSUME Inv, NEW c \in Caller, Delivers(c)
  PROVE  Adds(no[c], Target(c))
<1> SUFFICES ASSUME NEW j \in DOMAIN calls, NEW u \in Session
             PROVE  Total(j, u)' = Total(j, u)
                      + (IF j = no[c] /\ u = Target(c) THEN 1 ELSE 0)
  BY DEF Adds
<1>1. UnderWay(j, u)' = UnderWay(j, u) /\ lost' = lost /\ errors' = errors
  BY DEF Delivers, UnderWay, callVars
<1>2. Grown(no[c], Target(c)) /\ Target(c) \in Session
  BY DeliverEffect DEF Inv, Delivers, AtTarget
<1>3. Arrived(j, u)' = Arrived(j, u) + (IF j = no[c] /\ u = Target(c) THEN 1 ELSE 0)
  <2>1. CASE u = Target(c)
    <3>1. Grown(no[c], u)
      BY <1>2, <2>1
    <3>2. Arrived(j, u)' = Arrived(j, u) + (IF j = no[c] THEN 1 ELSE 0)
      BY <3>1, ArrivedMore
    <3> QED BY <2>1, <3>2
  <2>2. CASE u # Target(c)
    <3>1. shell'[u] = shell[u]
      BY <1>2, <2>2 DEF Grown
    <3> QED BY <2>2, <3>1, TotalTypes DEF Arrived, Count
  <2> QED BY <2>1, <2>2
<1> QED BY <1>1, <1>3, TotalTypes DEF Total

LEMMA SpawnsAdds ==
  ASSUME Inv, TypeOK', Owners', NEW c \in Caller, Spawns(c)
  PROVE  Adds(no[c], Target(c))
<1> SUFFICES ASSUME NEW j \in DOMAIN calls, NEW u \in Session
             PROVE  Total(j, u)' = Total(j, u)
                      + (IF j = no[c] /\ u = Target(c) THEN 1 ELSE 0)
  BY DEF Adds
<1>1. Arrived(j, u)' = Arrived(j, u) /\ lost' = lost /\ errors' = errors
  BY DEF Spawns, Arrived, Count
<1>2. <<no[c], pos[c]>> \notin threads
  BY ThreadNew
<1>3. threads' = threads \cup {<<no[c], pos[c]>>} /\ UNCHANGED calls
  BY DEF Spawns, callVars
<1>4. UnderWay(j, u)' = UnderWay(j, u)
        + (IF j = no[c] /\ u = calls[no[c]].targets[pos[c]] THEN 1 ELSE 0)
  BY <1>2, <1>3, UnderWayMore
<1> QED BY <1>1, <1>4, TotalTypes DEF Total, Target, Mine

LEMMA ThreadSettles ==
  ASSUME Inv, NEW t \in threads, Lands(t) \/ Drops(t)
  PROVE  Settled
<1> SUFFICES ASSUME NEW j \in DOMAIN calls, NEW u \in Session
             PROVE  Total(j, u)' = Total(j, u)
  BY DEF Settled
<1> DEFINE s == calls[t[1]].targets[t[2]]
           d == IF j = t[1] /\ u = s THEN 1 ELSE 0
<1>1. t[1] \in DOMAIN calls /\ t[1] \in CallNo /\ s \in Session /\ j \in CallNo
  BY ThreadFacts, CallFacts DEF Inv
<1>2. UnderWay(j, u) = UnderWay(j, u)' + d
  BY UnderWayLess DEF Lands, Drops, callVars
<1>3. UnderWay(j, u)' \in Nat
  <2>1. threads' = threads \ {t} /\ UNCHANGED calls
    BY DEF Lands, Drops, callVars
  <2>2. IsFiniteSet({v \in threads' : v[1] = j /\ calls[j].targets[v[2]] = u})
    <3>1. {v \in threads' : v[1] = j /\ calls[j].targets[v[2]] = u} \in SUBSET threads
      BY <2>1
    <3> QED BY <3>1, FS_Subset DEF Inv, Goroutines
  <2> QED BY <2>1, <2>2, FS_CardinalityType DEF UnderWay
<1>4. errors' = errors
  BY DEF Lands, Drops
<1>5. CASE Lands(t)
  <2>1. Grown(t[1], s)
    BY <1>1, <1>5, DeliverEffect DEF Inv, Lands
  <2>2. Arrived(j, u)' = Arrived(j, u) + d
    <3>1. CASE u = s
      <4>1. Grown(t[1], u)
        BY <2>1, <3>1
      <4>2. Arrived(j, u)' = Arrived(j, u) + (IF j = t[1] THEN 1 ELSE 0)
        BY <4>1, ArrivedMore
      <4> QED BY <3>1, <4>2
    <3>2. CASE u # s
      <4>1. shell'[u] = shell[u]
        BY <2>1, <3>2 DEF Grown
      <4> QED BY <3>2, <4>1, TotalTypes DEF Arrived, Count
    <3> QED BY <3>1, <3>2
  <2>3. lost' = lost
    BY <1>5 DEF Lands
  <2> QED BY <1>2, <1>3, <1>4, <2>2, <2>3, TotalTypes DEF Total
<1>6. CASE Drops(t)
  <2>1. Arrived(j, u)' = Arrived(j, u)
    BY <1>6 DEF Drops, Arrived, Count
  <2>2. lost'[j][u] = lost[j][u] + d
    <3>1. lost \in [CallNo -> [Session -> Nat]]
      BY DEF Inv, TypeOK, Counts
    <3>2. lost' = [lost EXCEPT ![t[1]][s] = @ + 1]
      BY <1>6 DEF Drops
    <3> HIDE DEF s
    <3> QED BY <1>1, <3>1, <3>2
  <2> QED BY <1>2, <1>3, <1>4, <2>1, <2>2, TotalTypes DEF Total
<1> QED BY <1>5, <1>6

\* The account stays in balance.
LEMMA BalanceStep ==
  ASSUME Inv, TypeOK', Owners', Step
  PROVE  Balance'
<1> USE DEF Inv
<1>1. \A i \in DOMAIN calls, s \in Session : Total(i, s) = Due(i, s, Done(i)) /\ Done(i) \in Nat
  BY DoneType DEF Balance, Total
<1>2. ASSUME UNCHANGED calls,
             \A i \in DOMAIN calls, s \in Session : Total(i, s)' = Due(i, s, Done(i)')
      PROVE  Balance'
  BY <1>2 DEF Balance, Total, Due, Count
<1>3. ASSUME UNCHANGED calls, Settled, Steady PROVE Balance'
  BY <1>1, <1>2, <1>3 DEF Settled, Steady
<1>4. ASSUME UNCHANGED <<calls, errors, lost, threads, shell>> PROVE Settled
  BY <1>4 DEF Settled, Total, Arrived, Count, UnderWay
<1>5. ASSUME NEW c \in Caller, InLoop(c), AtTarget(c), NextTarget(c), UNCHANGED <<calls, no>>
      PROVE  \A i \in DOMAIN calls, s \in Session :
               Due(i, s, Done(i)') = Due(i, s, Done(i))
                 + (IF i = no[c] /\ s = Target(c) /\ s # Mine(c).source THEN 1 ELSE 0)
  <2> SUFFICES ASSUME NEW i \in DOMAIN calls, NEW s \in Session
               PROVE  Due(i, s, Done(i)') = Due(i, s, Done(i))
                        + (IF i = no[c] /\ s = Target(c) /\ s # Mine(c).source THEN 1 ELSE 0)
    OBVIOUS
  <2>1. Done(i)' = Done(i) + (IF i = no[c] THEN 1 ELSE 0) /\ Done(no[c]) = pos[c] - 1
    BY <1>5, DonePasses DEF Passes
  <2>2. Done(i) \in Nat /\ pos[c] \in Nat
    BY <1>1 DEF TypeOK
  <2>3. /\ Due(i, s, Done(i)) \in Nat
        /\ Due(i, s, Done(i) + 1) = Due(i, s, Done(i))
             + (IF calls[i].targets[Done(i) + 1] = s /\ s # calls[i].source THEN 1 ELSE 0)
    BY <2>2, DueMore
  <2>4. CASE i = no[c]
    <3>1. Done(i) + 1 = pos[c] /\ Done(i)' = Done(i) + 1
      BY <2>1, <2>2, <2>4
    <3> QED BY <2>3, <2>4, <3>1 DEF Target, Mine
  <2>5. CASE i # no[c]
    <3>1. Done(i)' = Done(i)
      BY <2>1, <2>2, <2>5
    <3> QED BY <2>3, <2>5, <3>1
  <2> QED BY <2>4, <2>5
<1>6. ASSUME NEW c \in Caller, InLoop(c), AtTarget(c), NextTarget(c), UNCHANGED <<calls, no>>,
             Target(c) # Mine(c).source, Adds(no[c], Target(c))
      PROVE  Balance'
  <2>1. \A i \in DOMAIN calls, s \in Session :
          Due(i, s, Done(i)') = Due(i, s, Done(i)) + (IF i = no[c] /\ s = Target(c) THEN 1 ELSE 0)
    BY <1>5, <1>6
  <2> QED BY <1>1, <1>2, <1>6, <2>1 DEF Adds
<1>7. ASSUME NEW c \in Caller, Skips(c) PROVE Balance'
  <2>1. InLoop(c) /\ AtTarget(c) /\ NextTarget(c) /\ UNCHANGED <<calls, no>>
    BY <1>7 DEF Skips, callVars
  <2>2. \A i \in DOMAIN calls, s \in Session : Due(i, s, Done(i)') = Due(i, s, Done(i)) + 0
    BY <1>5, <1>7, <2>1 DEF Skips
  <2>3. \A i \in DOMAIN calls, s \in Session : Due(i, s, Done(i)) \in Nat
    BY <1>1, DueMore
  <2>4. Settled
    BY <1>4, <1>7 DEF Skips, callVars, outVars
  <2> QED BY <1>1, <1>2, <2>1, <2>2, <2>3, <2>4 DEF Settled
<1>8. ASSUME NEW c \in Caller, Fails(c) PROVE Balance'
  BY <1>6, <1>8, FailsAdds DEF Fails, callVars
<1>9. ASSUME NEW c \in Caller, Spawns(c) PROVE Balance'
  BY <1>6, <1>9, SpawnsAdds DEF Spawns, callVars
<1>10. ASSUME NEW c \in Caller, Delivers(c) PROVE Balance'
  BY <1>6, <1>10, DeliversAdds DEF Delivers, callVars
<1>11. ASSUME NEW c \in Caller, Lock(c) \/ Checks(c) PROVE Balance'
  BY <1>3, <1>4, <1>11, DoneStays DEF Lock, Checks, callVars, outVars
<1>12. ASSUME NEW c \in Caller, Returns(c) PROVE Balance'
  BY <1>3, <1>4, <1>12, DoneReturns DEF Returns, callVars, outVars
<1>13. ASSUME NEW t \in threads, Lands(t) \/ Drops(t) PROVE Balance'
  BY <1>3, <1>13, DoneSame, ThreadSettles DEF Lands, Drops, callVars
<1>14. CASE UNCHANGED <<callVars, mu, pc, no, pos, outVars>>
  BY <1>3, <1>4, <1>14, DoneSame DEF callVars, outVars
<1>15. ASSUME NEW c \in Caller, NEW m \in Mode, NEW src \in Source, NEW ts \in Targets,
              NEW i \in CallNo, Called(c, m, src, ts, i)
       PROVE  Balance'
  <2> DEFINE new == Len(calls')
  <2>1. Steady /\ Done(Len(calls))' = 0
    BY <1>15, DoneCalled
  <2>2. /\ DOMAIN calls' = DOMAIN calls \cup {new} /\ new \in CallNo \ DOMAIN calls
        /\ \A k \in DOMAIN calls : calls'[k] = calls[k]
        /\ UNCHANGED <<errors, lost, threads, shell>>
    BY <1>15 DEF Called, outVars
  <2>3. ASSUME NEW k \in DOMAIN calls, NEW s \in Session
        PROVE  (Total(k, s) = Due(k, s, Done(k)))'
    <3>1. Total(k, s)' = Total(k, s)
      BY <2>2 DEF Total, Arrived, Count, UnderWay
    <3>2. Due(k, s, Done(k))' = Due(k, s, Done(k))
      BY <2>1, <2>2 DEF Due, Count, Steady
    <3> QED BY <1>1, <3>1, <3>2
  <2>4. ASSUME NEW s \in Session
        PROVE  (Total(Len(calls), s) = Due(Len(calls), s, Done(Len(calls))))'
    <3>1. Due(Len(calls), s, Done(Len(calls)))' = 0
      <4>1. (\A k : Due(k, s, 0) = 0)'
        <5>1. \A k : {l \in 1..0 : calls'[k].targets[l] = s} = {}
          OBVIOUS
        <5> QED BY <5>1, FS_EmptySet DEF Due, Count
      <4> QED BY <2>1, <4>1 DEF Due, Count
    <3>2. Arrived(Len(calls), s)' = 0
      <4>1. {k \in 1..Len(shell'[s]) : shell'[s][k].of = new} = {}
        <5>1. DOMAIN shell[s] = 1..Len(shell[s])
          BY LenProperties DEF TypeOK
        <5>2. \A k \in 1..Len(shell[s]) : shell[s][k].of \in DOMAIN calls
          BY <5>1 DEF Blank
        <5>3. new \notin DOMAIN calls /\ shell' = shell
          BY <2>2
        <5> HIDE DEF new
        <5> QED BY <5>2, <5>3
      <4> QED BY <4>1, FS_EmptySet DEF Arrived, Count
    <3>3. UnderWay(Len(calls), s)' = 0
      <4>1. {t \in threads' : t[1] = new /\ calls'[new].targets[t[2]] = s} = {}
        BY <2>2 DEF Goroutines
      <4> QED BY <4>1, FS_EmptySet DEF UnderWay
    <3>4. errors'[new][s] = 0 /\ lost'[new][s] = 0
      BY <2>2 DEF Blank
    <3> QED BY <3>1, <3>2, <3>3, <3>4 DEF Total
  <2> QED BY <2>2, <2>3, <2>4 DEF Balance, Total
<1> QED BY <1>7, <1>8, <1>9, <1>10, <1>11, <1>12, <1>13, <1>14, <1>15 DEF Step

-----------------------------------------------------------------------------
(* The order at the shells *)

\* The writer holds e.mu, and a goroutine belongs to a loop that has begun.
LEMMA StartedStep ==
  ASSUME Inv, Step
  PROVE  Started'
<1> USE DEF Inv
<1>1. ASSUME UNCHANGED <<no, shell>>, \A d \in Caller : pc'[d] = "lock" => pc[d] = "lock"
      PROVE  Started'
  BY <1>1 DEF Started
<1>2. ASSUME NEW c \in Caller, NEW m \in Mode, NEW src \in Source, NEW ts \in Targets,
             NEW i \in CallNo, Called(c, m, src, ts, i)
      PROVE  Started'
  <2> SUFFICES ASSUME NEW s \in Session, NEW j \in DOMAIN shell[s], NEW d \in Caller,
                      no'[d] = shell[s][j].of
               PROVE  pc'[d] # "lock"
    BY <1>2 DEF Started, Called, outVars
  <2>1. shell[s][j].of \in DOMAIN calls
    BY DEF Blank
  <2>2. d # c
    BY <1>2, <2>1, SMTT(30) DEF Called, TypeOK
  <2>3. no'[d] = no[d] /\ pc'[d] = pc[d]
    BY <1>2, <2>2 DEF Called, TypeOK
  <2> QED BY <2>3 DEF Started
<1>3. ASSUME NEW c \in Caller, Lock(c) PROVE Started'
  BY <1>1, <1>3 DEF Lock, TypeOK, outVars
<1>4. ASSUME NEW c \in Caller, Returns(c) PROVE Started'
  BY <1>1, <1>4 DEF Returns, TypeOK, outVars
<1>5. ASSUME NEW c \in Caller, Checks(c) PROVE Started'
  BY <1>1, <1>5 DEF Checks, TypeOK, outVars
<1>6. ASSUME NEW c \in Caller, NextTarget(c), UNCHANGED <<no, shell>> PROVE Started'
  BY <1>1, <1>6 DEF NextTarget, TypeOK
<1>7. ASSUME NEW i, NEW s \in Session, Grown(i, s), UNCHANGED no,
             \A d \in Caller : pc'[d] = "lock" => pc[d] = "lock",
             \A d \in Caller : no[d] = i => pc[d] # "lock"
      PROVE  Started'
  BY <1>7 DEF Grown, Started
<1>8. ASSUME NEW c \in Caller, Delivers(c) PROVE Started'
  <2>1. Grown(no[c], Target(c)) /\ Target(c) \in Session /\ UNCHANGED no
    BY <1>8, DeliverEffect DEF Delivers, AtTarget
  <2>2. \A d \in Caller : pc'[d] = "lock" => pc[d] = "lock"
    BY <1>8 DEF Delivers, NextTarget, TypeOK
  <2>3. \A d \in Caller : no[d] = no[c] => d = c
    BY <1>8, MineFacts DEF Delivers, InLoop, Owners, CallNo, Mine
  <2>4. \A d \in Caller : no[d] = no[c] => pc[d] # "lock"
    BY <1>8, <2>3 DEF Delivers, InLoop
  <2> QED BY <1>7, <2>1, <2>2, <2>4
<1>9. ASSUME NEW t \in threads, Lands(t) PROVE Started'
  <2> DEFINE s == calls[t[1]].targets[t[2]]
  <2>1. Grown(t[1], s) /\ s \in Session /\ UNCHANGED <<no, pc>>
    BY <1>9, DeliverEffect, ThreadFacts DEF Lands
  <2>2. \A d \in Caller : no[d] = t[1] => pc[d] # "lock"
    <3> SUFFICES ASSUME NEW d \in Caller, no[d] = t[1], pc[d] = "lock"
                 PROVE  FALSE
      OBVIOUS
    <3>1. t[1] \in DOMAIN calls /\ t[2] \in Nat \ {0} /\ t[2] <= Done(t[1])
      BY DEF Goroutines, TypeOK
    <3>2. Done(t[1]) = 0
      BY <3>1, DoneValue DEF DoneIs
    <3> QED BY <3>1, <3>2
  <2> HIDE DEF s
  <2> QED BY <1>7, <2>1, <2>2
<1>10. ASSUME NEW t \in threads, Drops(t) PROVE Started'
  BY <1>1, <1>10 DEF Drops
<1>11. CASE UNCHANGED <<callVars, mu, pc, no, pos, outVars>>
  BY <1>1, <1>11 DEF outVars
<1> QED BY <1>2, <1>3, <1>4, <1>5, <1>6, <1>8, <1>9, <1>10, <1>11
      DEF Step, Skips, Fails, Spawns, outVars

\* While a loop runs, every other call whose input has arrived is over.
LEMMA OthersOver ==
  ASSUME Inv, NEW c \in Caller, InLoop(c), NEW s \in Session, NEW j \in DOMAIN shell[s],
         shell[s][j].of # no[c]
  PROVE  Over(shell[s][j].of)
<1> SUFFICES ASSUME NEW d \in Caller, no[d] = shell[s][j].of, pc[d] # "idle"
             PROVE  FALSE
  BY DEF Over
<1>1. pc[d] # "lock"
  BY DEF Inv, Started
<1>2. d \in mu /\ c \in mu
  BY <1>1 DEF Inv, Mutex, InLoop
<1>3. d = c
  BY <1>2 DEF Inv, Mutex
<1> QED BY <1>3

\* A call that is over stays so.
LEMMA OverStays ==
  ASSUME Inv, Step, NEW i \in DOMAIN calls, Over(i)
  PROVE  Over(i)'
<1> USE DEF Inv
<1> SUFFICES ASSUME NEW d \in Caller, no'[d] = i
             PROVE  pc'[d] = "idle"
  BY DEF Over
<1>1. CASE UNCHANGED no
  <2>1. pc[d] = "idle"
    BY <1>1 DEF Over
  <2>2. ASSUME NEW c \in Caller, NEW p, pc[c] # "idle", pc' = [pc EXCEPT ![c] = p]
        PROVE  pc'[d] = "idle"
    BY <2>1, <2>2 DEF TypeOK
  <2>3. CASE UNCHANGED pc
    BY <2>1, <2>3
  <2>4. ASSUME NEW c \in Caller, NEW m \in Mode, NEW src \in Source, NEW ts \in Targets,
               NEW k \in CallNo, Called(c, m, src, ts, k)
        PROVE  FALSE
    <3>1. no'[c] = Len(calls) + 1 /\ no[c] \in 0..Len(calls) /\ Len(calls) \in Nat
      BY <2>4 DEF Called, Owners, TypeOK
    <3> QED BY <1>1, <3>1
  <2>5. \/ UNCHANGED pc
        \/ \E c \in Caller, p \in Where : pc[c] # "idle" /\ pc' = [pc EXCEPT ![c] = p]
    BY <2>4 DEF Step, Lock, Returns, Skips, Checks, Fails, Spawns, Delivers, Lands, Drops,
                InLoop, NextTarget, Where
  <2> QED BY <2>2, <2>3, <2>5
<1>2. ASSUME NEW c \in Caller, NEW m \in Mode, NEW src \in Source, NEW ts \in Targets,
             NEW k \in CallNo, Called(c, m, src, ts, k)
      PROVE  pc'[d] = "idle"
  <2>1. d # c
    BY <1>2 DEF Called, TypeOK
  <2>2. no'[d] = no[d] /\ pc'[d] = pc[d]
    BY <1>2, <2>1 DEF Called, TypeOK
  <2> QED BY <2>2 DEF Over
<1> QED BY <1>1, <1>2
      DEF Step, Lock, Returns, Skips, Checks, Fails, Spawns, Delivers, Lands, Drops

\* No step changes a call that has been made.
LEMMA CallsKept ==
  ASSUME Inv, Step, NEW i \in DOMAIN calls
  PROVE  i \in DOMAIN calls' /\ calls'[i] = calls[i]
<1>1. ASSUME NEW c \in Caller, NEW m \in Mode, NEW src \in Source, NEW ts \in Targets,
             NEW k \in CallNo, Called(c, m, src, ts, k)
      PROVE  i \in DOMAIN calls' /\ calls'[i] = calls[i]
  BY <1>1 DEF Called
<1> QED BY <1>1
      DEF Step, Lock, Returns, Skips, Checks, Fails, Spawns, Delivers, Lands, Drops, callVars

\* The input of call i arrives at shell s.  If it is one of BroadcastSync it is what the
\* caller gave, and the call is under way.
Arrives(i, s) ==
  /\ Grown(i, s)
  /\ Sync(i) => /\ content[calls[i].slice] = i
                /\ \E c \in Caller : no[c] = i /\ InLoop(c) /\ calls[i].by = c

LEMMA ShellCases ==
  ASSUME Inv, Step
  PROVE  UNCHANGED shell \/ \E i \in DOMAIN calls, s \in Session : Arrives(i, s)
<1> USE DEF Inv
<1>1. ASSUME NEW c \in Caller, Delivers(c)
      PROVE  \E i \in DOMAIN calls, s \in Session : Arrives(i, s)
  <2>1. no[c] \in DOMAIN calls /\ Target(c) \in Session /\ Grown(no[c], Target(c))
    BY <1>1, DeliverEffect DEF Delivers, AtTarget
  <2>2. pc[c] # "idle" /\ InLoop(c)
    BY <1>1 DEF Delivers, InLoop
  <2>3. content[calls[no[c]].slice] = no[c] /\ calls[no[c]].by = c
    BY <2>2, MineFacts DEF InputsHeld, Mine
  <2>4. Arrives(no[c], Target(c))
    BY <2>1, <2>2, <2>3 DEF Arrives
  <2> QED BY <2>1, <2>4
<1>2. ASSUME NEW t \in threads, Lands(t)
      PROVE  \E i \in DOMAIN calls, s \in Session : Arrives(i, s)
  <2> DEFINE s == calls[t[1]].targets[t[2]]
  <2>1. t[1] \in DOMAIN calls /\ s \in Session /\ Grown(t[1], s)
    BY <1>2, DeliverEffect, ThreadFacts DEF Lands
  <2>2. ~Sync(t[1])
    BY DEF Goroutines
  <2>3. Arrives(t[1], s)
    BY <2>1, <2>2 DEF Arrives
  <2> QED BY <2>1, <2>3
<1> QED BY <1>1, <1>2
      DEF Step, Called, Lock, Returns, Skips, Checks, Fails, Spawns, Drops, outVars

\* The inputs that were there are still there; a new one is the last, and of call a.
LEMMA OldOrNew ==
  ASSUME Inv, NEW a \in DOMAIN calls, NEW t \in Session, Arrives(a, t), NEW s \in Session
  PROVE  /\ \A k \in DOMAIN shell[s] : shell'[s][k] = shell[s][k]
         /\ \A k \in DOMAIN shell'[s] : k \notin DOMAIN shell[s] => s = t /\ shell'[s][k].of = a
         /\ \A i, j \in DOMAIN shell'[s] : i < j => i \in DOMAIN shell[s]
<1>1. CASE s = t
  BY <1>1 DEF Arrives, Grown
<1>2. CASE s # t
  <2>1. shell'[s] = shell[s]
    BY <1>2 DEF Arrives, Grown
  <2> QED BY <2>1
<1> QED BY <1>1, <1>2

LEMMA EndedStep ==
  ASSUME Inv, Step
  PROVE  Ended'
<1> USE DEF Inv
<1> SUFFICES ASSUME NEW s \in Session, NEW i \in DOMAIN shell'[s], NEW j \in DOMAIN shell'[s],
                    i < j, shell'[s][i].of # shell'[s][j].of,
                    calls'[shell'[s][i].of].mode = "sync", calls'[shell'[s][j].of].mode = "sync"
             PROVE  (\A c \in Caller : no[c] = shell[s][i].of => pc[c] = "idle")'
  BY DEF Ended, Sync, Over
<1>1. ASSUME i \in DOMAIN shell[s], shell'[s][i] = shell[s][i], Over(shell[s][i].of)
      PROVE  (\A c \in Caller : no[c] = shell[s][i].of => pc[c] = "idle")'
  <2>1. PICK x \in DOMAIN calls : x = shell[s][i].of
    BY <1>1 DEF Blank
  <2>2. Over(x)'
    BY <1>1, <2>1, OverStays
  <2> QED BY <1>1, <2>1, <2>2 DEF Over
<1>2. ASSUME i \in DOMAIN shell[s], j \in DOMAIN shell[s],
             shell'[s][i] = shell[s][i], shell'[s][j] = shell[s][j]
      PROVE  Over(shell[s][i].of)
  <2>1. shell[s][i].of \in DOMAIN calls /\ shell[s][j].of \in DOMAIN calls
    BY <1>2 DEF Blank
  <2>2. Sync(shell[s][i].of) /\ Sync(shell[s][j].of)
    BY <1>2, <2>1, CallsKept DEF Sync
  <2> QED BY <1>2, <2>2 DEF Ended
<1>3. CASE UNCHANGED shell
  BY <1>1, <1>2, <1>3
<1>4. ASSUME NEW a \in DOMAIN calls, NEW t \in Session, Arrives(a, t)
      PROVE  (\A c \in Caller : no[c] = shell[s][i].of => pc[c] = "idle")'
  <2>2. i \in DOMAIN shell[s] /\ shell'[s][i] = shell[s][i]
    BY <1>4, OldOrNew
  <2>3. CASE j \in DOMAIN shell[s]
    <3>1. shell'[s][j] = shell[s][j]
      BY <1>4, <2>3, OldOrNew
    <3> QED BY <1>1, <1>2, <2>2, <2>3, <3>1
  <2>4. CASE j \notin DOMAIN shell[s]
    <3>1. shell'[s][j].of = a
      BY <1>4, <2>4, OldOrNew
    <3>2. Sync(a)
      BY <3>1, CallsKept DEF Sync
    <3>3. PICK c \in Caller : no[c] = a /\ InLoop(c)
      BY <1>4, <3>2 DEF Arrives
    <3>4. Over(shell[s][i].of)
      BY <2>2, <3>1, <3>3, OthersOver
    <3> QED BY <1>1, <2>2, <3>4
  <2> QED BY <2>3, <2>4
<1> QED BY <1>3, <1>4, ShellCases

\* The inputs of one caller arrive in the order of its calls.
LEMMA FIFOStep ==
  ASSUME Inv, Step
  PROVE  FIFO'
<1> USE DEF Inv
<1> SUFFICES ASSUME NEW s \in Session, NEW j \in DOMAIN shell'[s],
                    calls'[shell'[s][j].of].mode = "sync"
             PROVE  /\ shell'[s][j].content = shell'[s][j].of
                    /\ \A i \in 1..j-1 :
                         calls'[shell'[s][i].of].by = calls'[shell'[s][j].of].by
                           => shell'[s][i].of <= shell'[s][j].of
  BY DEF FIFO, Sync
<1>0. DOMAIN shell[s] = 1..Len(shell[s]) /\ Len(shell[s]) \in Nat
  BY LenProperties DEF TypeOK
<1>1. ASSUME j \in DOMAIN shell[s], \A k \in DOMAIN shell[s] : shell'[s][k] = shell[s][k]
      PROVE  /\ shell'[s][j].content = shell'[s][j].of
             /\ \A i \in 1..j-1 :
                  calls'[shell'[s][i].of].by = calls'[shell'[s][j].of].by
                    => shell'[s][i].of <= shell'[s][j].of
  <2>1. \A k \in DOMAIN shell[s] : calls'[shell[s][k].of] = calls[shell[s][k].of]
    BY CallsKept DEF Blank
  <2>2. Sync(shell[s][j].of)
    BY <1>1, <2>1 DEF Sync
  <2>3. \A i \in 1..j-1 : i \in DOMAIN shell[s]
    BY <1>0, <1>1
  <2> QED BY <1>1, <2>1, <2>2, <2>3 DEF FIFO
<1>2. CASE UNCHANGED shell
  BY <1>1, <1>2
<1>3. ASSUME NEW a \in DOMAIN calls, NEW t \in Session, Arrives(a, t)
      PROVE  /\ shell'[s][j].content = shell'[s][j].of
             /\ \A i \in 1..j-1 :
                  calls'[shell'[s][i].of].by = calls'[shell'[s][j].of].by
                    => shell'[s][i].of <= shell'[s][j].of
  <2>1. \A k \in DOMAIN shell[s] : shell'[s][k] = shell[s][k]
    BY <1>3, OldOrNew
  <2>2. CASE j \in DOMAIN shell[s]
    BY <1>1, <2>1, <2>2
  <2>3. CASE j \notin DOMAIN shell[s]
    <3>1. s = t
      BY <1>3, <2>3, OldOrNew
    <3>2. /\ j = Len(shell[s]) + 1
          /\ shell'[s][j] = [of |-> a, content |-> content[calls[a].slice]]
      BY <1>3, <2>3, <3>1 DEF Arrives, Grown
    <3>3. Sync(a)
      BY <3>2, CallsKept DEF Sync
    <3>4. PICK c \in Caller : no[c] = a /\ calls[a].by = c
      BY <1>3, <3>3 DEF Arrives
    <3>5. content[calls[a].slice] = a
      BY <1>3, <3>3 DEF Arrives
    <3>6. ASSUME NEW i \in 1..j-1, calls'[shell'[s][i].of].by = calls'[a].by
          PROVE  shell'[s][i].of <= a
      <4>1. i \in DOMAIN shell[s] /\ shell'[s][i] = shell[s][i]
        BY <1>0, <2>1, <3>2
      <4>2. shell[s][i].of \in DOMAIN calls
        BY <4>1 DEF Blank
      <4>3. calls[shell[s][i].of].by = c
        BY <3>4, <3>6, <4>1, <4>2, CallsKept
      <4> QED BY <3>4, <4>1, <4>2, <4>3 DEF Owners
    <3> QED BY <3>2, <3>5, <3>6
  <2> QED BY <2>2, <2>3
<1> QED BY <1>2, <1>3, ShellCases

\* An order that is new is one that the last input has made.
LEMMA BeforeOldOrNew ==
  ASSUME Inv, NEW x \in DOMAIN calls, NEW t \in Session, Arrives(x, t),
         NEW a, NEW b, NEW s \in Session, Before(a, b, s)'
  PROVE  Before(a, b, s) \/ b = x
<1>1. PICK i \in DOMAIN shell'[s], j \in DOMAIN shell'[s] :
        i < j /\ shell'[s][i].of = a /\ shell'[s][j].of = b
  BY DEF Before
<1>3. CASE j \in DOMAIN shell[s]
  <2>1. i \in DOMAIN shell[s]
    BY <1>1, OldOrNew
  <2>2. shell'[s][i] = shell[s][i] /\ shell'[s][j] = shell[s][j]
    BY <1>3, <2>1, OldOrNew
  <2> QED BY <1>1, <1>3, <2>1, <2>2 DEF Before
<1>4. CASE j \notin DOMAIN shell[s]
  <2>1. shell'[s][j].of = x
    BY <1>4, OldOrNew
  <2> QED BY <1>1, <2>1
<1> QED BY <1>3, <1>4

\* A BroadcastSync that writes is not over, so its input is before no other one's.
LEMMA WriterIsLast ==
  ASSUME Inv, NEW x \in DOMAIN calls, NEW t \in Session, Arrives(x, t), Sync(x),
         NEW b, Sync(b), b # x, NEW s \in Session
  PROVE  ~Before(x, b, s)
<1> SUFFICES ASSUME Before(x, b, s)
             PROVE  FALSE
  OBVIOUS
<1>1. PICK c \in Caller : no[c] = x /\ InLoop(c)
  BY DEF Arrives
<1>2. Over(x)
  BY DEF Inv, Ended, Before
<1> QED BY <1>1, <1>2 DEF Over, InLoop

LEMMA SameOrderStep ==
  ASSUME Inv, Step
  PROVE  SameOrder'
<1> USE DEF Inv
<1> SUFFICES ASSUME NEW a \in DOMAIN calls', NEW b \in DOMAIN calls',
                    NEW s \in Session, NEW t \in Session, a # b,
                    calls'[a].mode = "sync", calls'[b].mode = "sync",
                    Before(a, b, s)', Before(b, a, t)'
             PROVE  FALSE
  BY DEF SameOrder, Sync
<1>1. ASSUME a \in DOMAIN calls, b \in DOMAIN calls, Before(a, b, s), Before(b, a, t)
      PROVE  FALSE
  <2>1. Sync(a) /\ Sync(b)
    BY <1>1, CallsKept DEF Sync
  <2> QED BY <1>1, <2>1 DEF SameOrder
<1>2. CASE UNCHANGED shell
  <2>1. Before(a, b, s) /\ Before(b, a, t)
    BY <1>2 DEF Before
  <2>2. a \in DOMAIN calls /\ b \in DOMAIN calls
    BY <2>1 DEF Before, Blank
  <2> QED BY <1>1, <2>1, <2>2
<1>3. ASSUME NEW x \in DOMAIN calls, NEW u \in Session, Arrives(x, u)
      PROVE  FALSE
  <2>1. Before(a, b, s) \/ b = x
    BY <1>3, BeforeOldOrNew
  <2>2. Before(b, a, t) \/ a = x
    BY <1>3, BeforeOldOrNew
  <2>3. \A p, q, w : w \in Session /\ Before(p, q, w) => p \in DOMAIN calls /\ q \in DOMAIN calls
    BY DEF Before, Blank
  <2>4. a \in DOMAIN calls /\ b \in DOMAIN calls
    BY <2>1, <2>2, <2>3
  <2>5. Sync(a) /\ Sync(b)
    BY <2>4, CallsKept DEF Sync
  <2>6. CASE Before(a, b, s) /\ Before(b, a, t)
    BY <1>1, <2>4, <2>6
  <2>7. CASE b = x
    <3>1. Before(b, a, t)
      BY <2>2, <2>7
    <3> QED BY <1>3, <2>5, <2>7, <3>1, WriterIsLast
  <2>8. CASE a = x
    <3>1. Before(a, b, s)
      BY <2>1, <2>8
    <3> QED BY <1>3, <2>5, <2>8, <3>1, WriterIsLast
  <2> QED BY <2>1, <2>2, <2>6, <2>7, <2>8
<1> QED BY <1>2, <1>3, ShellCases

-----------------------------------------------------------------------------
(* The theorems *)

LEMMA InvInit == Init => Inv
<1> SUFFICES ASSUME Init
             PROVE  Inv
  OBVIOUS
<1>1. calls \in Seq(CallRecord) /\ Len(calls) = 0 /\ DOMAIN calls = {}
  <2>1. calls = <<>> /\ <<>> \in Seq(CallRecord) /\ Len(<<>>) = 0
    BY EmptySeq DEF Init
  <2> QED BY <2>1
<1>2. \A s \in Session : shell[s] \in Seq([of : CallNo, content : 0..MaxCalls])
                         /\ DOMAIN shell[s] = {}
  <2>1. <<>> \in Seq([of : CallNo, content : 0..MaxCalls]) /\ DOMAIN <<>> = {}
    BY EmptySeq
  <2> QED BY <2>1 DEF Init
<1>3. TypeOK
  <2>1. 0 \in 0..MaxCalls /\ 0 \in 0..MaxChanges /\ 0 <= MaxCalls
    BY BoundsAssumption
  <2>2. errors \in Counts /\ lost \in Counts
    BY DEF Init, Zero, Counts
  <2>3. slow \in [Session -> BOOLEAN]
    BY DEF Init
  <2>4. shell \in [Session -> Seq([of : CallNo, content : 0..MaxCalls])]
    BY <1>2 DEF Init
  <2> QED BY <1>1, <2>1, <2>2, <2>3, <2>4, LinkAssumption DEF Init, TypeOK, Where
<1>4. Mutex /\ Owners /\ Slices /\ InputsHeld /\ Loops /\ Blank /\ Balance
  BY <1>1, <1>2
     DEF Init, Zero, Mutex, Owners, Slices, InputsHeld, Loops, Blank, Balance
<1>5. Goroutines
  BY FS_EmptySet DEF Init, Goroutines
<1>6. Started /\ Ended /\ FIFO /\ SameOrder
  BY <1>1, <1>2 DEF Started, Ended, FIFO, SameOrder
<1> QED BY <1>3, <1>4, <1>5, <1>6 DEF Inv

LEMMA InvStep == Inv /\ [Next]_vars => Inv'
<1> SUFFICES ASSUME Inv, [Next]_vars
             PROVE  Inv'
  OBVIOUS
<1>1. Step
  BY StepCases
<1>2. TypeOK'
  <2>1. CASE Next
    BY <2>1, TypeStep
  <2>2. CASE UNCHANGED vars
    BY <2>2 DEF Inv, TypeOK, vars, envVars, callVars, outVars
  <2> QED BY <2>1, <2>2
<1>3. Mutex' /\ Owners' /\ Slices' /\ InputsHeld' /\ Loops'
  BY <1>1, MutexStep, OwnersStep, SlicesStep, InputsHeldStep, LoopsStep
<1>4. Goroutines' /\ Blank' /\ Balance'
  BY <1>1, <1>2, <1>3, GoroutinesStep, BlankStep, BalanceStep
<1>5. Started' /\ Ended' /\ FIFO' /\ SameOrder'
  BY <1>1, StartedStep, EndedStep, FIFOStep, SameOrderStep
<1> QED BY <1>2, <1>3, <1>4, <1>5 DEF Inv

THEOREM Invariance == Spec => []Inv
BY InvInit, InvStep, PTL DEF Spec

\* Whatever sessions and streams do between the checks and the writes, and however the
\* goroutines of Broadcast are scheduled, every target of a call is written to once or
\* reported, and the source is not written to.
THEOREM TargetsAccounted == Spec => []Accounted
<1>1. Inv => Accounted
  BY DEF Inv, Accounted, Balance
<1> QED BY <1>1, Invariance, PTL

\* Inputs of BroadcastSync reach a shell as they were given, in the order of their caller,
\* for callers that use their slices again as soon as the engine returns.
THEOREM SyncInOrder == Spec => []FIFO
<1>1. Inv => FIFO
  BY DEF Inv
<1> QED BY <1>1, Invariance, PTL

\* Holding e.mu for the whole call gives all shells one order of the inputs of
\* BroadcastSync.
THEOREM ShellsAgree == Spec => []SameOrder
<1>1. Inv => SameOrder
  BY DEF Inv
<1> QED BY <1>1, Invariance, PTL

=============================================================================
