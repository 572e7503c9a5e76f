------------------------------ MODULE Admission ------------------------------
(***************************************************************************)
(* The gate in front of HandleWS (server/server.go, resource/) once        *)
(* InitResourceGuard has set it up: a request passes the sliding-window    *)
(* rate limiter, then the circuit breaker, and only then is it upgraded to *)
(* a connection.  The breaker is a goroutine that samples the open file    *)
(* descriptors; requests go by its last verdict.                           *)
(*                                                                         *)
(* Time is discrete and several requests may carry one time stamp.  The    *)
(* order of the time stamps kept for an address does not matter to the     *)
(* limiter, so requests[k] is the set of the numbers of the grants kept,   *)
(* and granted[k] has their times.                                         *)
(***************************************************************************)
EXTENDS Integers, Sequences, FiniteSets

CONSTANTS Client,   \* client addresses
          V6,       \* the ones of IPv6, whose RemoteAddr is "[addr]:port"
          Bracket,  \* the string "["
          None,     \* an absent header
          Request,  \* HTTP requests
          Arrival,  \* their headers and peer: records with xff, xri, remote
          Window,   \* rl.window
          Max,      \* rl.max
          FDLimit,  \* cb.fdLimit, the descriptors the process may open
          MaxTime   \* bound: the clock

Key == Client \cup {Bracket}

ASSUME ClientAssumption == V6 \subseteq Client /\ Bracket \notin Client /\ None \notin Client
ASSUME ArrivalAssumption ==
  Arrival \subseteq [xff : Client \cup {None}, xri : Client \cup {None}, remote : Client]
ASSUME WindowAssumption == Window \in Nat \ {0}
ASSUME MaxAssumption == Max \in Nat \ {0}
ASSUME FDLimitAssumption == FDLimit \in Nat \ {0}
ASSUME MaxTimeAssumption == MaxTime \in Nat

VARIABLES now,      \* time.Now()
          requests, \* rl.requests: the grants whose time stamps are kept
          granted,  \* history: the times of all grants of an address, in order
          circuit,  \* cb.state
          fds,      \* open descriptors of the process
          sampled,  \* of the monitor: the count it has read, -1 between two rounds
          pc,       \* of a request
          key       \* of a request: what extractIP returned

limVars == <<requests, granted>>
cbVars == <<circuit, fds, sampled>>
reqVars == <<pc, key>>
vars == <<now, limVars, cbVars, reqVars>>

TypeOK == /\ now \in 0..MaxTime
          /\ granted \in [Key -> Seq(0..MaxTime)]
          /\ requests \in [Key -> SUBSET (Nat \ {0})]
          /\ circuit \in {"normal", "warning", "open"}
          /\ fds \in 0..FDLimit /\ sampled \in -1..FDLimit
          /\ pc \in [Request -> {"new", "limit", "breaker", "429", "503", "upgrade"}]
          /\ key \in [Request -> Key \cup {None}]

Init == /\ now = 0
        /\ requests = [k \in Key |-> {}] /\ granted = [k \in Key |-> <<>>]
        /\ circuit = "normal" /\ fds = 0 /\ sampled = -1
        /\ pc = [r \in Request |-> "new"]
        /\ key = [r \in Request |-> None]

-----------------------------------------------------------------------------
(* The environment *)

Tick == /\ now < MaxTime
        /\ now' = now + 1
        /\ UNCHANGED <<limVars, cbVars, reqVars>>

\* Descriptors are opened and closed, one at a time, all over the process.
FdsChange == /\ fds' \in {fds - 1, fds + 1} \cap (0..FDLimit)
             /\ UNCHANGED <<now, limVars, circuit, sampled, reqVars>>

-----------------------------------------------------------------------------
(* HandleWS *)

\* The address that the limiter counts for: the first of X-Forwarded-For, else
\* X-Real-IP, else RemoteAddr up to its first colon, which of "[addr]:port" leaves "[":
\* all IPv6 clients are counted as one.
extractIP(a) == IF a.xff # None THEN a.xff
                ELSE IF a.xri # None THEN a.xri
                ELSE IF a.remote \in V6 THEN Bracket ELSE a.remote

Arrive(r) == /\ pc[r] = "new"
             /\ \E a \in Arrival : key' = [key EXCEPT ![r] = extractIP(a)]
             /\ pc' = [pc EXCEPT ![r] = "limit"]
             /\ UNCHANGED <<now, limVars, cbVars>>

\* The grants of k whose time stamp is after the cutoff.
Valid(k) == {i \in requests[k] : granted[k][i] > now - Window}

\* Faulty variant of Granted: grants are numbered from 0.
Granted_FromZero(r) == LET k == key[r]
                       IN /\ granted' = [granted EXCEPT ![k] = Append(@, now)]
                          /\ requests' = [requests EXCEPT ![k] = Valid(k) \cup {Len(granted[k])}]
                          /\ pc' = [pc EXCEPT ![r] = "breaker"]

Granted(r) == LET k == key[r]
              IN /\ granted' = [granted EXCEPT ![k] = Append(@, now)]
                 /\ requests' = [requests EXCEPT ![k] = Valid(k) \cup {Len(granted[k]) + 1}]
                 /\ pc' = [pc EXCEPT ![r] = "breaker"]

Refused(r) == /\ requests' = [requests EXCEPT ![key[r]] = Valid(key[r])]
              /\ pc' = [pc EXCEPT ![r] = "429"]
              /\ UNCHANGED granted

\* Faulty variant of Allow: one grant too many.
Allow_OffByOne(r) ==
  /\ pc[r] = "limit"
  /\ IF Cardinality(Valid(key[r])) > Max THEN Refused(r) ELSE Granted(r)
  /\ UNCHANGED <<now, cbVars, key>>

\* Faulty variant of Allow: the expired time stamps are counted.
Allow_Unfiltered(r) ==
  /\ pc[r] = "limit"
  /\ IF Cardinality(requests[key[r]]) >= Max THEN Refused(r) ELSE Granted(r)
  /\ UNCHANGED <<now, cbVars, key>>

\* RateLimiter.Allow under rl.mu; 429 when the window is full.
Allow(r) ==
  /\ pc[r] = "limit"
  /\ IF Cardinality(Valid(key[r])) >= Max THEN Refused(r) ELSE Granted(r)
  /\ UNCHANGED <<now, cbVars, key>>

\* RateLimiter.Cleanup: the expired time stamps of every address go.
Cleanup == /\ requests' = [k \in Key |-> Valid(k)]
           /\ requests' # requests
           /\ UNCHANGED <<now, granted, cbVars, reqVars>>

\* openUntil is never set: an open circuit always answers no.  ConnPumps has what
\* follows the upgrade.
AllowConnection(r) ==
  /\ pc[r] = "breaker"
  /\ pc' = [pc EXCEPT ![r] = IF circuit = "open" THEN "503" ELSE "upgrade"]
  /\ UNCHANGED <<now, limVars, cbVars, key>>

-----------------------------------------------------------------------------
(* The goroutine of the circuit breaker *)

\* GetCurrentFDUsage opens /proc/self/fd, which counts itself; when no descriptor is
\* left the open fails and the round is over.
GetCurrentFDUsage == /\ sampled = -1 /\ fds < FDLimit
                     /\ sampled' = fds + 1
                     /\ UNCHANGED <<now, limVars, circuit, fds, reqVars>>

Level(n) == IF 100 * n >= 85 * FDLimit THEN "open"
            ELSE IF 100 * n >= 70 * FDLimit THEN "warning" ELSE "normal"

\* Faulty variant of CheckAndUpdate: a circuit that is open stays open.
CheckAndUpdate_Latched ==
  /\ sampled # -1
  /\ circuit' = IF circuit = "open" THEN "open" ELSE Level(sampled)
  /\ sampled' = -1
  /\ UNCHANGED <<now, limVars, fds, reqVars>>

\* The rest of checkAndUpdate: the verdict on the count read before.
CheckAndUpdate == /\ sampled # -1
                  /\ circuit' = Level(sampled)
                  /\ sampled' = -1
                  /\ UNCHANGED <<now, limVars, fds, reqVars>>

Monitor == GetCurrentFDUsage \/ CheckAndUpdate

-----------------------------------------------------------------------------
Next == \/ Tick \/ FdsChange \/ Cleanup \/ Monitor
        \/ \E r \in Request : Arrive(r) \/ Allow(r) \/ AllowConnection(r)

Spec == Init /\ [][Next]_vars

\* The ticker of the monitor keeps firing.
FairSpec == Spec /\ WF_vars(Monitor)

-----------------------------------------------------------------------------
(* Properties *)

\* Never more than Max grants for an address within a window, wherever the window
\* starts and however Allow and Cleanup interleave: a grant and the one Max earlier are
\* a window apart.
WindowBound ==
  \A k \in Key : \A i \in DOMAIN granted[k] :
    i > Max => granted[k][i] >= granted[k][i - Max] + Window

\* The grants of the running window, kept by the limiter or not.
Recent(k) == {i \in DOMAIN granted[k] : granted[k][i] > now - Window}

\* An address is refused only while Max grants of the running window stand against it;
\* neither the refusals before nor what Cleanup has dropped count.
RefusedOnlyWhenFull ==
  [][\A r \in Request : (pc[r] = "limit" /\ pc'[r] = "429") => Cardinality(Recent(key[r])) >= Max]_vars

\* The counts that make up a level.
At(l) == {n \in 0..FDLimit : Level(n) = l}

\* The level that the monitor would see, with a descriptor left to look, and the
\* level that it has announced.
UseIs(l) == fds + 1 \in At(l)
CircuitIs(l) == circuit = l

\* When the use of descriptors settles on a level, with one left for the look, so does
\* the circuit: it opens, and it closes again.
BreakerFollows ==
  /\ <>[]UseIs("normal") => <>[]CircuitIs("normal")
  /\ <>[]UseIs("warning") => <>[]CircuitIs("warning")
  /\ <>[]UseIs("open") => <>[]CircuitIs("open")
=============================================================================
