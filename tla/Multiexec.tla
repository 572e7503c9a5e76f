------------------------------ MODULE Multiexec ------------------------------
(***************************************************************************)
(* The broadcast engine (multiexec/engine.go).  Several callers hand it an *)
(* input, a source session and a list of target sessions; it looks every   *)
(* target up and writes the input to the shell streams of those that are   *)
(* active and not slow.  Broadcast writes in a goroutine per target,       *)
(* BroadcastSync itself; both hold e.mu for the whole call.                *)
(*                                                                         *)
(* An input is the number of the call that carries it.  Go slices are      *)
(* references: a write delivers what the slice holds when it is written.   *)
(* The sessions belong to the rest of the gateway and change at any time.  *)
(***************************************************************************)
EXTENDS Integers, Sequences, FiniteSets

CONSTANTS Session,     \* session ids
          Caller,      \* goroutines that call the engine
          Mode,        \* the entry points in use: "sync", "async"
          Link,        \* what a shell stream may do to a write
          Source,      \* source ids in use (the source need not be a target)
          Targets,     \* target lists in use
          ReuseSlices, \* a caller may use the slice of its last call again
          MaxCalls,    \* bound: calls of the engine
          MaxChanges   \* bound: changes of the sessions and their streams

ASSUME ModeAssumption == Mode \subseteq {"sync", "async"}
ASSUME LinkAssumption == Link \subseteq {"ok", "stuck", "broken"} /\ "ok" \in Link
ASSUME TargetsAssumption == Targets \subseteq Seq(Session)
ASSUME ReuseAssumption == ReuseSlices \in BOOLEAN
ASSUME BoundsAssumption == MaxCalls \in Nat /\ MaxChanges \in Nat

VARIABLES state,   \* of a session: active, inactive (any other), gone (unknown id)
          slow,    \* s.IsSlow
          link,    \* of a shell stream: writes succeed, block or fail
          changes, \* changes of these three so far
          calls,   \* the calls so far: who, how, source, targets and slice
          content, \* what every slice holds: the number of a call
          mu,      \* e.mu: the callers that hold it
          pc, no, pos, \* of a caller: where it is, in which call, at which target
          errors,  \* errors of a call, counted per target
          threads, \* goroutines that have not written yet: <<call, index>>
          lost,    \* failed writes of goroutines, counted per call and target
          shell    \* history: what arrived at a shell: call and content

envVars == <<state, slow, link, changes>>
callVars == <<calls, content>>
outVars == <<errors, threads, lost, shell>>
vars == <<envVars, callVars, mu, pc, no, pos, outVars>>

CallNo == 1..MaxCalls
Where == {"idle", "lock", "get", "state", "slow", "write"}
Counts == [CallNo -> [Session -> Nat]]
CallRecord == [by : Caller, mode : Mode, source : Source, targets : Targets, slice : CallNo]

TypeOK == /\ state \in [Session -> {"active", "inactive", "gone"}]
          /\ slow \in [Session -> BOOLEAN] /\ link \in [Session -> Link]
          /\ changes \in 0..MaxChanges
          /\ calls \in Seq(CallRecord) /\ Len(calls) <= MaxCalls
          /\ content \in [CallNo -> 0..MaxCalls]
          /\ mu \subseteq Caller /\ pc \in [Caller -> Where]
          /\ no \in [Caller -> 0..MaxCalls] /\ pos \in [Caller -> Nat \ {0}]
          /\ errors \in Counts /\ lost \in Counts
          /\ threads \subseteq CallNo \X (Nat \ {0})
          /\ shell \in [Session -> Seq([of : CallNo, content : 0..MaxCalls])]

Zero == [i \in CallNo |-> [s \in Session |-> 0]]

Init == /\ state = [s \in Session |-> "active"]
        /\ slow = [s \in Session |-> FALSE] /\ link = [s \in Session |-> "ok"]
        /\ changes = 0
        /\ calls = <<>> /\ content = [i \in CallNo |-> 0]
        /\ mu = {} /\ pc = [c \in Caller |-> "idle"]
        /\ no = [c \in Caller |-> 0] /\ pos = [c \in Caller |-> 1]
        /\ errors = Zero /\ lost = Zero
        /\ threads = {} /\ shell = [s \in Session |-> <<>>]

-----------------------------------------------------------------------------
(* The rest of the gateway and the hosts *)

SessionChanges(s) ==
  /\ changes < MaxChanges /\ changes' = changes + 1
  /\ \/ /\ \E st \in {"active", "inactive", "gone"} : st # state[s] /\ state' = [state EXCEPT ![s] = st]
        /\ UNCHANGED <<slow, link>>
     \/ /\ slow' = [slow EXCEPT ![s] = ~@]
        /\ UNCHANGED <<state, link>>
     \/ /\ \E l \in Link : l # link[s] /\ link' = [link EXCEPT ![s] = l]
        /\ UNCHANGED <<state, slow>>
  /\ UNCHANGED <<callVars, mu, pc, no, pos, outVars>>

-----------------------------------------------------------------------------
(* Broadcast and BroadcastSync *)

\* A caller has an input in a fresh slice, or in the slice of its last call, whose
\* content it overwrites, and calls the engine.
Call(c, m, src, ts) ==
  /\ pc[c] = "idle" /\ Len(calls) < MaxCalls
  /\ \E i \in CallNo :
       LET new == Len(calls) + 1
       IN /\ i = new \/ (ReuseSlices /\ no[c] # 0 /\ i = calls[no[c]].slice)
          /\ calls' = Append(calls, [by |-> c, mode |-> m, source |-> src, targets |-> ts,
                                     slice |-> i])
          /\ content' = [content EXCEPT ![i] = new]
          /\ no' = [no EXCEPT ![c] = new]
  /\ pc' = [pc EXCEPT ![c] = "lock"]
  /\ UNCHANGED <<envVars, mu, pos, outVars>>

\* Faulty variant of Lock: the engine has no mutex.
Lock_Absent(c) == /\ pc[c] = "lock"
                  /\ mu' = mu \cup {c}
                  /\ pc' = [pc EXCEPT ![c] = "get"] /\ pos' = [pos EXCEPT ![c] = 1]
                  /\ UNCHANGED <<envVars, callVars, no, outVars>>

Lock(c) == /\ pc[c] = "lock" /\ mu = {}
           /\ mu' = {c}
           /\ pc' = [pc EXCEPT ![c] = "get"] /\ pos' = [pos EXCEPT ![c] = 1]
           /\ UNCHANGED <<envVars, callVars, no, outVars>>

\* The call, the target list and the target at hand.
Mine(c) == calls[no[c]]
Target(c) == Mine(c).targets[pos[c]]

\* The loop goes on with the next target.
NextTarget(c) == pc' = [pc EXCEPT ![c] = "get"] /\ pos' = [pos EXCEPT ![c] = @ + 1]

Fail(c) == errors' = [errors EXCEPT ![no[c]][Target(c)] = @ + 1]

\* The head of the loop: past the last target the call returns and unlocks; the
\* source is skipped; an unknown id is an error.
Get(c) ==
  /\ pc[c] = "get"
  /\ \/ /\ pos[c] > Len(Mine(c).targets)
        /\ pc' = [pc EXCEPT ![c] = "idle"] /\ mu' = mu \ {c}
        /\ UNCHANGED <<pos, errors>>
     \/ /\ pos[c] <= Len(Mine(c).targets) /\ Target(c) = Mine(c).source
        /\ NextTarget(c)
        /\ UNCHANGED <<mu, errors>>
     \/ /\ pos[c] <= Len(Mine(c).targets) /\ Target(c) # Mine(c).source
        /\ IF state[Target(c)] = "gone"
             THEN NextTarget(c) /\ Fail(c)
             ELSE pc' = [pc EXCEPT ![c] = "state"] /\ UNCHANGED <<pos, errors>>
        /\ UNCHANGED mu
  /\ UNCHANGED <<envVars, callVars, no, threads, lost, shell>>

\* The state of the session that Get returned; one that has left the registry since is
\* still held, and is whatever it was last.
GetState(c) ==
  /\ pc[c] = "state"
  /\ \/ state[Target(c)] # "active" /\ NextTarget(c) /\ Fail(c)
     \/ /\ state[Target(c)] \in {"active", "gone"}
        /\ pc' = [pc EXCEPT ![c] = "slow"] /\ UNCHANGED <<pos, errors>>
  /\ UNCHANGED <<envVars, callVars, mu, no, threads, lost, shell>>

\* Faulty variant of GetSlow: both entry points write in a goroutine.
GetSlow_AlwaysSpawn(c) ==
  /\ pc[c] = "slow"
  /\ NextTarget(c)
  /\ IF slow[Target(c)] THEN Fail(c) /\ UNCHANGED threads
     ELSE threads' = threads \cup {<<no[c], pos[c]>>} /\ UNCHANGED errors
  /\ UNCHANGED <<envVars, callVars, mu, no, lost, shell>>

\* Faulty variant of GetSlow: Broadcast waits for the write as well.
GetSlow_NeverSpawn(c) ==
  /\ pc[c] = "slow"
  /\ IF slow[Target(c)] THEN NextTarget(c) /\ Fail(c)
     ELSE pc' = [pc EXCEPT ![c] = "write"] /\ UNCHANGED <<pos, errors>>
  /\ UNCHANGED <<envVars, callVars, mu, no, threads, lost, shell>>

\* A slow session is an error.  Otherwise Broadcast starts a goroutine and goes on,
\* BroadcastSync writes.
GetSlow(c) ==
  /\ pc[c] = "slow"
  /\ \/ /\ slow[Target(c)]
        /\ NextTarget(c) /\ Fail(c)
        /\ UNCHANGED threads
     \/ /\ ~slow[Target(c)] /\ Mine(c).mode = "async"
        /\ threads' = threads \cup {<<no[c], pos[c]>>}
        /\ NextTarget(c)
        /\ UNCHANGED errors
     \/ /\ ~slow[Target(c)] /\ Mine(c).mode = "sync"
        /\ pc' = [pc EXCEPT ![c] = "write"]
        /\ UNCHANGED <<pos, errors, threads>>
  /\ UNCHANGED <<envVars, callVars, mu, no, lost, shell>>

\* ShellStream.Write(data) of call i to session s, when the stream takes it.
Deliver(i, s) ==
  shell' = [shell EXCEPT ![s] = Append(@, [of |-> i, content |-> content[calls[i].slice]])]

\* Faulty variant of Write: the error is dropped.
Write_ErrorDropped(c) ==
  /\ pc[c] = "write"
  /\ \/ link[Target(c)] = "ok" /\ Deliver(no[c], Target(c))
     \/ link[Target(c)] = "broken" /\ UNCHANGED shell
  /\ NextTarget(c)
  /\ UNCHANGED <<envVars, callVars, mu, no, errors, threads, lost>>

\* The write of BroadcastSync: a stuck stream blocks it, with e.mu held.
Write(c) ==
  /\ pc[c] = "write"
  /\ \/ link[Target(c)] = "ok" /\ Deliver(no[c], Target(c)) /\ UNCHANGED errors
     \/ link[Target(c)] = "broken" /\ Fail(c) /\ UNCHANGED shell
  /\ NextTarget(c)
  /\ UNCHANGED <<envVars, callVars, mu, no, threads, lost>>

\* The goroutine of Broadcast for target number t[2] of call t[1]; an error is logged.
ThreadWrite(t) ==
  LET s == calls[t[1]].targets[t[2]]
  IN /\ t \in threads
     /\ \/ link[s] = "ok" /\ Deliver(t[1], s) /\ UNCHANGED lost
        \/ link[s] = "broken" /\ lost' = [lost EXCEPT ![t[1]][s] = @ + 1] /\ UNCHANGED shell
     /\ threads' = threads \ {t}
     /\ UNCHANGED <<envVars, callVars, mu, pc, no, pos, errors>>

-----------------------------------------------------------------------------
Engine(c) == Lock(c) \/ Get(c) \/ GetState(c) \/ GetSlow(c) \/ Write(c)

Next == \/ \E s \in Session : SessionChanges(s)
        \/ \E c \in Caller, m \in Mode, src \in Source, ts \in Targets : Call(c, m, src, ts)
        \/ \E c \in Caller : Engine(c)
        \/ \E t \in threads : ThreadWrite(t)

Spec == Init /\ [][Next]_vars

\* Goroutines that can run do, and sync.Mutex is starvation free.  Nothing makes a
\* stuck stream come back, and nothing makes a caller call.
FairSpec == /\ Spec
            /\ \A c \in Caller : /\ SF_vars(Lock(c))
                                 /\ WF_vars(Get(c) \/ GetState(c) \/ GetSlow(c) \/ Write(c))

-----------------------------------------------------------------------------
(* Properties *)

Count(n, P(_)) == Cardinality({i \in 1..n : P(i)})

\* How often session s is a target of call i up to index n, the source excepted.
Due(i, s, n) ==
  IF s = calls[i].source THEN 0 ELSE Count(n, LAMBDA k : calls[i].targets[k] = s)

\* The writes of call i to session s that went through, and the ones that are under way.
Arrived(i, s) == Count(Len(shell[s]), LAMBDA k : shell[s][k].of = i)
UnderWay(i, s) == Cardinality({t \in threads : t[1] = i /\ calls[i].targets[t[2]] = s})

\* How far the loop of call i has come: the index of the last target it is done with.
Done(i) == IF \E c \in Caller : no[c] = i /\ pc[c] # "idle"
             THEN LET c == CHOOSE c \in Caller : no[c] = i
                  IN IF pc[c] = "lock" THEN 0 ELSE pos[c] - 1
             ELSE Len(calls[i].targets)

\* Every target of every call is either written to, exactly once, or reported: at any
\* moment of the loops and of the goroutines, also while sessions go away, turn slow or
\* break between the checks and the write, and never is the source written to.  The
\* variables have their types.
Accounted ==
  /\ TypeOK
  /\ \A i \in DOMAIN calls, s \in Session :
       Arrived(i, s) + errors[i][s] + lost[i][s] + UnderWay(i, s) = Due(i, s, Done(i))

\* The calls of BroadcastSync; Broadcast promises no order.
Sync(i) == calls[i].mode = "sync"

\* An input of BroadcastSync arrives as the caller gave it, whatever becomes of the slice
\* once the engine has returned, and it is at every shell before any later input of its
\* caller, whichever entry point that one takes.
FIFO ==
  \A s \in Session : \A j \in DOMAIN shell[s] : Sync(shell[s][j].of) =>
    /\ shell[s][j].content = shell[s][j].of
    /\ \A i \in 1..j-1 : calls[shell[s][i].of].by = calls[shell[s][j].of].by
                            => shell[s][i].of <= shell[s][j].of

\* Shell s has got the input of call a before the one of call b.
Before(a, b, s) == \E i, j \in DOMAIN shell[s] : i < j /\ shell[s][i].of = a /\ shell[s][j].of = b

\* No two shells see two inputs of BroadcastSync in opposite orders, whoever sent them
\* and whatever Broadcasts are under way: all hosts of a broadcast group run the same
\* history of commands.
SameOrder ==
  \A a, b \in DOMAIN calls : \A s, t \in Session :
    a # b /\ Sync(a) /\ Sync(b) => ~(Before(a, b, s) /\ Before(b, a, t))

\* A BroadcastSync waits for a shell that is stuck.
Held == \E c \in Caller : pc[c] = "write" /\ Sync(no[c]) /\ link[Target(c)] = "stuck"

\* Every call returns, and the ones that wait for e.mu as well, unless a BroadcastSync
\* waits for a stuck shell: no host holds up a Broadcast to the others.
CallReturns == \A c \in Caller : pc[c] # "idle" ~> pc[c] = "idle" \/ Held
=============================================================================
