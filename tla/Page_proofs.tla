----------------------------- MODULE Page_proofs -----------------------------
(***************************************************************************)
(* The browser's end, for every set of sessions, every set of messages and *)
(* any number of inputs and answers: what the echo lock queues is posted a *)
(* second time at most once and in order (ReplayAccounted), a request for  *)
(* a confirmation has one fate (RequestsAccounted), a click answers the    *)
(* request that the user has read (AnswersMeant), and a whole frame is     *)
(* read as it was written (WireExact).                                     *)
(*                                                                         *)
(* Frames are numbered as they come, so what is new is larger than all     *)
(* that is known: than the queued blocks (BlocksOld) and the requests      *)
(* (RequestsOld).  Requests leave the worker in order, so that one which   *)
(* comes to the dialog is newer than all that were there before (Waiting). *)
(* AnswersMeant needs to know what the dialog shows while the user still   *)
(* has an unanswered request in mind (InMind).                             *)
(*                                                                         *)
(* WireExact is about functions that go through a message or a frame block *)
(* by block.  Their recursion and the induction along it are stated with   *)
(* sets (Recursion, SetInduction).  Both sides are compared with the       *)
(* offsets at which the blocks begin: those that the parser finds          *)
(* (Offsets) and those at which Serialize writes (Ends).                   *)
(***************************************************************************)
EXTENDS Page, SequenceTheorems, WellFoundedInduction, TLAPS

\* There are no more timers than inputs.
TimersPaid == Len(timers) <= inputs

\* Blocks that were queued are of frames that have come.
BlocksOld == \A s \in Session : queued[s] \subseteq 1..frames

WorkerInv == TypeOK /\ TimersPaid /\ BlocksOld /\ ReplayAccounted

ConfirmTypes == /\ posted \in Seq(Request) /\ dialog \in Seq(Request)
                /\ looked \in Seq(Request) /\ Len(looked) <= 1
                /\ asked \subseteq Frame
                /\ resolved \in Seq([request : Request, looked : Request])
                /\ replaced \subseteq Request \X Request

\* So are the requests.
RequestsOld == asked \subseteq 1..frames

\* Entries of the dialog differ in their session and in their number.
Entries == \A i, j \in DOMAIN dialog :
             dialog[i].session = dialog[j].session \/ dialog[i].no = dialog[j].no => i = j

\* The requests on their way are in order, and newer than all that have come to the dialog.
Waiting == /\ \A i, j \in DOMAIN posted : i < j => posted[i].no < posted[j].no
           /\ \A i \in DOMAIN posted : \A n \in Numbers(dialog) \cup Answered \cup Replaced :
                n < posted[i].no

\* Every request is somewhere, and those in the dialog, answered and overwritten differ.
Somewhere == /\ asked = Numbers(posted) \cup Numbers(dialog) \cup Answered \cup Replaced
             /\ Numbers(dialog) \cap (Answered \cup Replaced) = {} /\ Answered \cap Replaced = {}

Once == \A i, j \in DOMAIN resolved : resolved[i].request = resolved[j].request => i = j

Overwritten == \A p \in replaced : p[1].session = p[2].session /\ p[1].no < p[2].no

\* The request that the user has read last is shown, or a later one of its session in its
\* place, until a click with it in mind.
InMind == looked # <<>> =>
            \/ /\ dialog # <<>>
               /\ dialog[1].session = looked[1].session /\ dialog[1].no >= looked[1].no
            \/ \E j \in DOMAIN resolved : resolved[j].looked = looked[1]

Inv == /\ WorkerInv
       /\ ConfirmTypes /\ RequestsOld /\ Entries /\ Waiting /\ Somewhere /\ Once /\ Overwritten
       /\ InMind /\ AnswersMeant

-----------------------------------------------------------------------------
(* Sequences of numbers *)

Increasing(line) == \A i, j \in DOMAIN line : i < j => line[i] < line[j]

LEMMA ToSetAppend ==
  ASSUME NEW T, NEW s \in Seq(T), NEW e \in T
  PROVE  ToSet(Append(s, e)) = ToSet(s) \cup {e}
<1>1. /\ Append(s, e) \in Seq(T) /\ Len(Append(s, e)) = Len(s) + 1
      /\ \A i \in 1..Len(s) : Append(s, e)[i] = s[i]
      /\ Append(s, e)[Len(s) + 1] = e
  BY AppendProperties
<1>2. Len(s) \in Nat /\ DOMAIN s = 1..Len(s) /\ DOMAIN Append(s, e) = 1..Len(s) + 1
  BY <1>1, LenProperties
<1> QED BY <1>1, <1>2 DEF ToSet

LEMMA ToSetTail ==
  ASSUME NEW T, NEW s \in Seq(T), s # <<>>
  PROVE  ToSet(s) = ToSet(Tail(s)) \cup {Head(s)}
<1>1. /\ Tail(s) \in Seq(T) /\ Len(Tail(s)) = Len(s) - 1
      /\ \A i \in 1..Len(Tail(s)) : Tail(s)[i] = s[i + 1]
  BY HeadTailProperties
<1>2. /\ Len(s) \in Nat /\ Len(s) > 0 /\ DOMAIN s = 1..Len(s) /\ DOMAIN Tail(s) = 1..Len(s) - 1
      /\ Head(s) = s[1]
  BY <1>1, LenProperties, EmptySeq
<1>3. ASSUME NEW x \in ToSet(s) PROVE x \in ToSet(Tail(s)) \cup {Head(s)}
  <2>1. PICK i \in 1..Len(s) : x = s[i]
    BY <1>2 DEF ToSet
  <2>2. CASE i = 1
    BY <1>2, <2>1, <2>2
  <2>3. CASE i # 1
    <3>1. i - 1 \in 1..Len(s) - 1 /\ (i - 1) + 1 = i
      BY <1>2, <2>3
    <3>2. Tail(s)[i - 1] = s[i]
      BY <1>1, <3>1
    <3> QED BY <1>2, <2>1, <3>1, <3>2 DEF ToSet
  <2> QED BY <2>2, <2>3
<1>4. ASSUME NEW x \in ToSet(Tail(s)) \cup {Head(s)} PROVE x \in ToSet(s)
  BY <1>1, <1>2 DEF ToSet
<1> QED BY <1>3, <1>4

LEMMA IncreasingAppend ==
  ASSUME NEW s \in Seq(Nat), NEW n \in Nat, Increasing(s), \A x \in ToSet(s) : x < n
  PROVE  Increasing(Append(s, n))
<1> DEFINE t == Append(s, n)
<1>1. /\ t \in Seq(Nat) /\ Len(t) = Len(s) + 1
      /\ \A i \in 1..Len(s) : t[i] = s[i]
      /\ t[Len(s) + 1] = n
  BY AppendProperties
<1>2. Len(s) \in Nat /\ DOMAIN s = 1..Len(s) /\ DOMAIN t = 1..Len(s) + 1
  BY <1>1, LenProperties
<1>3. \A i \in DOMAIN s : s[i] < n
  BY DEF ToSet
<1> HIDE DEF t
<1>4. ASSUME NEW i \in DOMAIN t, NEW j \in DOMAIN t, i < j PROVE t[i] < t[j]
  <2>1. i \in DOMAIN s /\ t[i] = s[i]
    BY <1>1, <1>2, <1>4
  <2>2. CASE j = Len(s) + 1
    BY <1>1, <1>3, <2>1, <2>2
  <2>3. CASE j \in DOMAIN s
    BY <1>1, <1>2, <1>4, <2>1, <2>3 DEF Increasing
  <2> QED BY <1>2, <2>2, <2>3
<1> QED BY <1>4 DEF Increasing, t

LEMMA ConcatParts ==
  ASSUME NEW T, NEW p \in Seq(T), NEW q \in Seq(T)
  PROVE  /\ p \o q \in Seq(T) /\ ToSet(p \o q) = ToSet(p) \cup ToSet(q)
         /\ \A i \in DOMAIN p : i \in DOMAIN (p \o q) /\ (p \o q)[i] = p[i]
         /\ \A i \in DOMAIN p, j \in DOMAIN q :
              \E k \in DOMAIN (p \o q) : i < k /\ (p \o q)[k] = q[j]
<1> DEFINE r == p \o q
<1>1. /\ r \in Seq(T) /\ Len(r) = Len(p) + Len(q)
      /\ \A i \in 1..Len(p) + Len(q) : r[i] = IF i <= Len(p) THEN p[i] ELSE q[i - Len(p)]
  BY ConcatProperties
<1>2. /\ Len(p) \in Nat /\ Len(q) \in Nat /\ DOMAIN p = 1..Len(p) /\ DOMAIN q = 1..Len(q)
      /\ DOMAIN r = 1..Len(p) + Len(q)
  BY <1>1, LenProperties
<1> HIDE DEF r
<1>3. \A i \in DOMAIN p : i \in DOMAIN r /\ r[i] = p[i]
  BY <1>1, <1>2
<1>4. \A j \in DOMAIN q : Len(p) + j \in DOMAIN r /\ r[Len(p) + j] = q[j]
  BY <1>1, <1>2
<1>5. ASSUME NEW i \in DOMAIN p, NEW j \in DOMAIN q PROVE \E k \in DOMAIN r : i < k /\ r[k] = q[j]
  <2>1. i < Len(p) + j
    BY <1>2
  <2> QED BY <1>4, <2>1
<1>6. ASSUME NEW k \in DOMAIN r PROVE r[k] \in ToSet(p) \cup ToSet(q)
  <2>1. CASE k <= Len(p)
    BY <1>1, <1>2, <2>1 DEF ToSet
  <2>2. CASE ~(k <= Len(p))
    <3>1. k - Len(p) \in DOMAIN q /\ r[k] = q[k - Len(p)]
      BY <1>1, <1>2, <2>2
    <3> QED BY <3>1 DEF ToSet
  <2> QED BY <2>1, <2>2
<1>7. ToSet(r) = ToSet(p) \cup ToSet(q)
  BY <1>3, <1>4, <1>6 DEF ToSet
<1> QED BY <1>1, <1>3, <1>5, <1>7 DEF r

\* What comes first in an increasing sequence is increasing and not in the rest.
LEMMA IncreasingParts ==
  ASSUME NEW p \in Seq(Nat), NEW q \in Seq(Nat), Increasing(p \o q)
  PROVE  Increasing(p) /\ ToSet(p) \cap ToSet(q) = {}
<1>1. /\ \A i \in DOMAIN p : i \in DOMAIN (p \o q) /\ (p \o q)[i] = p[i]
      /\ \A i \in DOMAIN p, j \in DOMAIN q :
           \E k \in DOMAIN (p \o q) : i < k /\ (p \o q)[k] = q[j]
  BY ConcatParts, SMTT(40)
<1> DEFINE r == p \o q
<1>2. \A i, j \in DOMAIN r : i < j => r[i] < r[j]
  BY DEF Increasing
<1> HIDE DEF r
<1>3. Increasing(p)
  BY <1>1, <1>2 DEF Increasing, r
<1>4. ASSUME NEW i \in DOMAIN p, NEW j \in DOMAIN q, p[i] = q[j] PROVE FALSE
  <2>1. PICK k \in DOMAIN r : i < k /\ r[k] = q[j] /\ i \in DOMAIN r /\ r[i] = p[i]
    BY <1>1 DEF r
  <2>2. p[i] < q[j]
    BY <1>2, <2>1
  <2>3. p[i] \in Nat
    BY LenProperties, ElementOfSeq
  <2> QED BY <1>4, <2>2, <2>3
<1>5. ToSet(p) \cap ToSet(q) = {}
  BY <1>4 DEF ToSet
<1> QED BY <1>3, <1>5

LEMMA ConcatAppend ==
  ASSUME NEW T, NEW p \in Seq(T), NEW q \in Seq(T), NEW e \in T
  PROVE  p \o Append(q, e) = Append(p \o q, e)
<1> DEFINE l == <<e>>
<1>1. l \in Seq(T) /\ p \o q \in Seq(T)
  BY ConcatProperties
<1>2. Append(q, e) = q \o l /\ Append(p \o q, e) = (p \o q) \o l
  BY <1>1, AppendIsConcat
<1> HIDE DEF l
<1>3. (p \o q) \o l = p \o (q \o l)
  BY <1>1, ConcatAssociative
<1> QED BY <1>2, <1>3

-----------------------------------------------------------------------------
(* The worker *)

\* The property for one session.
Line(s) == replayed[s] \o pending[s]

Replay(s) == /\ Increasing(Line(s))
             /\ ToSet(Line(s)) \cap discarded[s] = {}
             /\ ToSet(Line(s)) \cup discarded[s] = queued[s] /\ queued[s] \subseteq shown[s]
             /\ pending[s] # <<>> => s \in locked

LEMMA ReplayIs == ReplayAccounted <=> \A s \in Session : Replay(s)
BY DEF ReplayAccounted, Replay, Line, Increasing

LEMMA WorkerTypes ==
  ASSUME TypeOK, NEW s \in Session
  PROVE  /\ replayed[s] \in Seq(Nat) /\ pending[s] \in Seq(Nat) /\ Line(s) \in Seq(Nat)
         /\ frames \in Nat /\ inputs \in Nat /\ Len(timers) \in Nat
<1>1. Frame \subseteq Nat
  BY DEF Frame
<1>2. replayed[s] \in Seq(Frame) /\ pending[s] \in Seq(Frame)
  BY DEF TypeOK
<1>3. replayed[s] \in Seq(Nat) /\ pending[s] \in Seq(Nat)
  BY <1>1, <1>2, SeqMonotonic
<1>4. Line(s) \in Seq(Nat)
  BY <1>3, ConcatParts DEF Line
<1>5. frames \in Nat /\ inputs \in Nat /\ Len(timers) \in Nat
  BY LenProperties DEF TypeOK
<1> QED BY <1>3, <1>4, <1>5

\* A step that leaves the blocks of a session alone, and its lock while they wait.
LEMMA ReplayKept ==
  ASSUME NEW s \in Session, Replay(s), pending'[s] = pending[s], replayed'[s] = replayed[s],
         queued'[s] = queued[s], discarded'[s] = discarded[s], shown[s] \subseteq shown'[s],
         pending[s] # <<>> /\ s \in locked => s \in locked'
  PROVE  Replay(s)'
BY DEF Replay, Line

LEMMA OutputStep ==
  ASSUME WorkerInv, NEW k \in Socket, NEW S, Output(k, S)
  PROVE  WorkerInv'
<1> DEFINE n == frames + 1
<1>0. /\ frames \in Nat /\ frames < MaxFrames /\ frames' = n /\ n \in Frame
      /\ UNCHANGED <<sockVars, locked, timers, inputs, replayed, discarded>>
  BY BoundsAssumption DEF WorkerInv, TypeOK, Output, Frame
<1>1. \A s \in Session : Append(pending[s], n) \in Seq(Frame)
  BY <1>0, AppendProperties DEF WorkerInv, TypeOK
<1>2. /\ pending' = [s \in Session |-> IF s \in S \cap locked THEN Append(pending[s], n)
                                       ELSE pending[s]]
      /\ queued' = [s \in Session |-> IF s \in S \cap locked THEN queued[s] \cup {n}
                                      ELSE queued[s]]
      /\ shown' = [s \in Session |-> IF s \in S THEN shown[s] \cup {n} ELSE shown[s]]
  BY DEF Output
<1>3. frames' \in 0..MaxFrames
  BY <1>0, BoundsAssumption
<1> HIDE DEF n
<1>4. /\ pending' \in [Session -> Seq(Frame)] /\ queued' \in [Session -> SUBSET Frame]
      /\ shown' \in [Session -> SUBSET Frame]
  BY <1>0, <1>1, <1>2 DEF WorkerInv, TypeOK
<1>5. TypeOK'
  BY <1>0, <1>3, <1>4 DEF WorkerInv, TypeOK, sockVars
<1>6. TimersPaid'
  BY <1>0 DEF WorkerInv, TimersPaid
<1>7. BlocksOld'
  <2>1. n \in 1..n /\ 1..frames \subseteq 1..n
    BY <1>0 DEF n
  <2> QED BY <1>0, <1>2, <2>1 DEF WorkerInv, BlocksOld
<1>8. ASSUME NEW s \in Session PROVE Replay(s)'
  <2>1. Replay(s)
    BY ReplayIs DEF WorkerInv
  <2>2. CASE s \notin S \cap locked
    BY <1>0, <1>2, <2>1, <2>2, ReplayKept
  <2>3. CASE s \in S \cap locked
    <3>1. /\ pending'[s] = Append(pending[s], n) /\ queued'[s] = queued[s] \cup {n}
          /\ replayed'[s] = replayed[s] /\ discarded'[s] = discarded[s] /\ s \in locked'
          /\ shown'[s] = shown[s] \cup {n}
      BY <1>0, <1>2, <2>3
    <3>2. replayed[s] \in Seq(Nat) /\ pending[s] \in Seq(Nat) /\ Line(s) \in Seq(Nat) /\ n \in Nat
      BY <1>0, WorkerTypes DEF WorkerInv, n
    <3>3. Line(s)' = Append(Line(s), n)
      <4>1. replayed[s] \o Append(pending[s], n) = Append(replayed[s] \o pending[s], n)
        <5> DEFINE p == replayed[s]
                   q == pending[s]
        <5>1. p \in Seq(Nat) /\ q \in Seq(Nat) /\ n \in Nat
          BY <3>2
        <5> HIDE DEF p, q
        <5>2. p \o Append(q, n) = Append(p \o q, n)
          BY <5>1, ConcatAppend
        <5> QED BY <5>2 DEF p, q
      <4> QED BY <3>1, <4>1 DEF Line
    <3>4. \A x \in queued[s] : x < n
      <4>1. queued[s] \subseteq 1..frames
        BY DEF WorkerInv, BlocksOld
      <4> QED BY <1>0, <4>1 DEF n
    <3>5. Increasing(Line(s))'
      BY <2>1, <3>2, <3>3, <3>4, IncreasingAppend DEF Replay
    <3>6. ToSet(Line(s)') = ToSet(Line(s)) \cup {n}
      <4>1. ToSet(Append(Line(s), n)) = ToSet(Line(s)) \cup {n}
        <5> DEFINE l == Line(s)
        <5>1. l \in Seq(Nat) /\ n \in Nat
          BY <3>2
        <5> HIDE DEF l
        <5>2. ToSet(Append(l, n)) = ToSet(l) \cup {n}
          BY <5>1, ToSetAppend
        <5> QED BY <5>2 DEF l
      <4> QED BY <3>3, <4>1
    <3>7. n \notin discarded[s]
      <4>1. discarded[s] \subseteq queued[s]
        BY <2>1 DEF Replay
      <4>2. ~(n < n)
        BY <3>2
      <4> QED BY <3>4, <4>1, <4>2
    <3>8. /\ ToSet(Line(s))' \cap discarded'[s] = {} /\ ToSet(Line(s))' \cup discarded'[s] = queued'[s]
          /\ queued'[s] \subseteq shown'[s]
      BY <2>1, <3>1, <3>6, <3>7 DEF Replay
    <3> QED BY <3>1, <3>5, <3>8 DEF Replay
  <2> QED BY <2>2, <2>3
<1>9. ReplayAccounted'
  BY <1>8 DEF ReplayAccounted, Replay, Line, Increasing
<1> QED BY <1>5, <1>6, <1>7, <1>9 DEF WorkerInv

LEMMA InputStep ==
  ASSUME WorkerInv, NEW S \in SUBSET Session, Input(S)
  PROVE  WorkerInv'
<1>0. /\ inputs' = inputs + 1 /\ inputs < MaxInputs /\ locked' = locked \cup S
      /\ timers' = Append(timers, S) /\ UNCHANGED <<sockVars, frames, shown, queued, replayed>>
      /\ discarded' = [s \in Session |-> IF s \in S THEN discarded[s] \cup ToSet(pending[s])
                                         ELSE discarded[s]]
      /\ pending' = [s \in Session |-> IF s \in S THEN <<>> ELSE pending[s]]
  BY DEF Input, Lock
<1>1. timers \in Seq(SUBSET Session) /\ Len(timers) \in Nat /\ Len(timers) <= inputs
      /\ inputs \in Nat /\ MaxInputs \in Nat
  BY LenProperties, BoundsAssumption DEF WorkerInv, TypeOK, TimersPaid
<1>2. timers' \in Seq(SUBSET Session) /\ Len(timers') = Len(timers) + 1
  BY <1>0, <1>1, AppendProperties
<1>3. inputs' \in 0..MaxInputs /\ Len(timers') <= inputs' /\ Len(timers') <= MaxInputs
  BY <1>0, <1>1, <1>2
<1>4. \A s \in Session : ToSet(pending[s]) \subseteq Frame
  <2> SUFFICES ASSUME NEW s \in Session PROVE ToSet(pending[s]) \subseteq Frame
    OBVIOUS
  <2>1. pending[s] \in Seq(Frame)
    BY DEF WorkerInv, TypeOK
  <2> QED BY <2>1, LenProperties, ElementOfSeq DEF ToSet
<1>5. discarded' \in [Session -> SUBSET Frame] /\ pending' \in [Session -> Seq(Frame)]
  BY <1>0, <1>4, EmptySeq DEF WorkerInv, TypeOK
<1>6. TypeOK'
  BY <1>0, <1>2, <1>3, <1>5 DEF WorkerInv, TypeOK, sockVars
<1>7. TimersPaid' /\ BlocksOld'
  BY <1>0, <1>3 DEF WorkerInv, TimersPaid, BlocksOld
<1>8. ASSUME NEW s \in Session PROVE Replay(s)'
  <2>1. Replay(s)
    BY ReplayIs DEF WorkerInv
  <2>2. CASE s \notin S
    BY <1>0, <2>1, <2>2, ReplayKept
  <2>3. CASE s \in S
    <3>1. /\ pending'[s] = <<>> /\ discarded'[s] = discarded[s] \cup ToSet(pending[s])
          /\ replayed'[s] = replayed[s] /\ queued'[s] = queued[s] /\ shown'[s] = shown[s]
      BY <1>0, <2>3
    <3>2. replayed[s] \in Seq(Nat) /\ pending[s] \in Seq(Nat)
      BY WorkerTypes DEF WorkerInv
    <3>3. Line(s)' = replayed[s]
      BY <3>1, <3>2, ConcatEmptySeq DEF Line
    <3>4. Increasing(replayed[s]) /\ ToSet(replayed[s]) \cap ToSet(pending[s]) = {}
      BY <2>1, <3>2, IncreasingParts DEF Replay, Line
    <3>5. ToSet(Line(s)) = ToSet(replayed[s]) \cup ToSet(pending[s])
      BY <3>2, ConcatParts DEF Line
    <3>6. /\ ToSet(replayed[s]) \cap discarded'[s] = {}
          /\ ToSet(replayed[s]) \cup discarded'[s] = queued'[s] /\ queued'[s] \subseteq shown'[s]
      BY <2>1, <3>1, <3>4, <3>5 DEF Replay
    <3> QED BY <3>1, <3>3, <3>4, <3>6 DEF Replay
  <2> QED BY <2>2, <2>3
<1>9. ReplayAccounted'
  BY <1>8 DEF ReplayAccounted, Replay, Line, Increasing
<1> QED BY <1>6, <1>7, <1>9 DEF WorkerInv

LEMMA ReleaseStep ==
  ASSUME WorkerInv, Release
  PROVE  WorkerInv'
<1> DEFINE S == Head(timers)
<1>0. /\ timers # <<>> /\ timers' = Tail(timers) /\ locked' = locked \ S
      /\ UNCHANGED <<sockVars, frames, inputs, shown, queued, discarded>>
      /\ replayed' = [s \in Session |-> IF s \in S THEN replayed[s] \o pending[s]
                                        ELSE replayed[s]]
      /\ pending' = [s \in Session |-> IF s \in S THEN <<>> ELSE pending[s]]
  BY DEF Release
<1> HIDE DEF S
<1>1. timers \in Seq(SUBSET Session) /\ Len(timers) \in Nat /\ Len(timers) <= inputs
      /\ inputs \in Nat /\ MaxInputs \in Nat /\ Len(timers) <= MaxInputs
  BY LenProperties, BoundsAssumption DEF WorkerInv, TypeOK, TimersPaid
<1>2. timers' \in Seq(SUBSET Session) /\ Len(timers') = Len(timers) - 1
  BY <1>0, <1>1, HeadTailProperties
<1>3. Len(timers') <= inputs' /\ Len(timers') <= MaxInputs
  BY <1>0, <1>1, <1>2
<1>4. \A s \in Session : replayed[s] \o pending[s] \in Seq(Frame)
  BY ConcatProperties DEF WorkerInv, TypeOK
<1>5. replayed' \in [Session -> Seq(Frame)] /\ pending' \in [Session -> Seq(Frame)]
  BY <1>0, <1>4, EmptySeq DEF WorkerInv, TypeOK
<1>6. TypeOK'
  BY <1>0, <1>2, <1>3, <1>5 DEF WorkerInv, TypeOK, sockVars
<1>7. TimersPaid' /\ BlocksOld'
  BY <1>0, <1>3 DEF WorkerInv, TimersPaid, BlocksOld
<1>8. ASSUME NEW s \in Session PROVE Replay(s)'
  <2>1. Replay(s)
    BY ReplayIs DEF WorkerInv
  <2>2. CASE s \notin S
    BY <1>0, <2>1, <2>2, ReplayKept
  <2>3. CASE s \in S
    <3>1. /\ pending'[s] = <<>> /\ replayed'[s] = Line(s)
          /\ discarded'[s] = discarded[s] /\ queued'[s] = queued[s] /\ shown'[s] = shown[s]
      BY <1>0, <2>3 DEF Line
    <3>2. Line(s)' = Line(s)
      <4>1. Line(s) \in Seq(Nat)
        BY WorkerTypes DEF WorkerInv
      <4>2. Line(s) \o <<>> = Line(s)
        BY <4>1, ConcatEmptySeq
      <4>3. Line(s)' = replayed'[s] \o pending'[s]
        BY DEF Line
      <4> QED BY <3>1, <4>2, <4>3
    <3> QED BY <2>1, <3>1, <3>2 DEF Replay
  <2> QED BY <2>2, <2>3
<1>9. ReplayAccounted'
  BY <1>8 DEF ReplayAccounted, Replay, Line, Increasing
<1> QED BY <1>6, <1>7, <1>9 DEF WorkerInv

\* Steps of the sockets, and frames without output.
LEMMA SocketStep ==
  ASSUME WorkerInv, TypeOK', UNCHANGED <<lockVars, inputs, histVars>>,
         frames' = frames \/ frames' = frames + 1
  PROVE  WorkerInv'
<1>1. frames \in Nat
  BY DEF WorkerInv, TypeOK
<1>2. \A s \in Session : Replay(s)'
  BY ReplayIs, ReplayKept DEF WorkerInv, lockVars, histVars
<1>3. ReplayAccounted'
  BY <1>2 DEF ReplayAccounted, Replay, Line, Increasing
<1>4. 1..frames \subseteq 1..frames'
  BY <1>1
<1> QED BY <1>3, <1>4 DEF WorkerInv, TimersPaid, BlocksOld, lockVars, histVars

LEMMA WorkerStepInv ==
  ASSUME WorkerInv, \/ WorkerStep \/ UNCHANGED vars
                    \/ \E k \in Socket : Confirm(k) \/ \E S : Output(k, S)
  PROVE  WorkerInv'
<1>0. TypeOK
  BY DEF WorkerInv
<1>1. CASE Disconnect
  <2>1. TypeOK'
    <3>1. ws \in Socket /\ ws' = 0 /\ 0 \in 0..MaxSockets
      BY <1>0, <1>1, BoundsAssumption DEF Disconnect, TypeOK, Socket
    <3>2. sock' \in [Socket -> {"unused", "connecting", "open", "closing", "closed"}]
      BY <1>0, <1>1 DEF Disconnect, TypeOK
    <3> QED BY <1>0, <1>1, <3>1, <3>2 DEF Disconnect, TypeOK, lockVars, histVars
  <2> QED BY <1>1, <2>1, SocketStep DEF Disconnect
<1>2. ASSUME NEW k \in Socket, Connect(k) \/ Opened(k) \/ Closed(k) PROVE WorkerInv'
  <2>1. TypeOK'
    <3>1. sock' \in [Socket -> {"unused", "connecting", "open", "closing", "closed"}]
      BY <1>0, <1>2 DEF Connect, Opened, Closed, TypeOK
    <3>2. ws' \in 0..MaxSockets
      BY <1>0, <1>2 DEF Connect, Opened, Closed, TypeOK, Socket
    <3>3. ws' # 0 => sock'[ws'] # "unused"
      <4>1. 0 \notin Socket /\ (ws # 0 => ws \in Socket)
        BY <1>0, BoundsAssumption DEF TypeOK, Socket
      <4> QED BY <1>0, <1>2, <4>1 DEF Connect, Opened, Closed, TypeOK
    <3> QED BY <1>0, <1>2, <3>1, <3>2, <3>3 DEF Connect, Opened, Closed, TypeOK, lockVars, histVars
  <2> QED BY <1>2, <2>1, SocketStep DEF Connect, Opened, Closed
<1>3. ASSUME NEW k \in Socket, Confirm(k) PROVE WorkerInv'
  <2>1. frames' \in 0..MaxFrames
    BY <1>0, <1>3, BoundsAssumption DEF Confirm, TypeOK
  <2>2. TypeOK'
    BY <1>0, <1>3, <2>1 DEF Confirm, TypeOK, sockVars, lockVars, histVars
  <2> QED BY <1>3, <2>2, SocketStep DEF Confirm
<1>4. CASE UNCHANGED vars
  <2>1. TypeOK'
    BY <1>0, <1>4 DEF vars, TypeOK, sockVars, lockVars, histVars
  <2> QED BY <1>4, <2>1, SocketStep DEF vars
<1> QED BY <1>1, <1>2, <1>3, <1>4, InputStep, ReleaseStep, OutputStep DEF WorkerStep

-----------------------------------------------------------------------------
(* Requests in sequences *)

Answer == [request : Request, looked : Request]

ConfirmInv == /\ ConfirmTypes /\ RequestsOld /\ Entries /\ Waiting /\ Somewhere
              /\ Once /\ Overwritten /\ InMind /\ AnswersMeant

AnsweredIn(rs) == {a.request.no : a \in ToSet(rs)}
ReplacedIn(ps) == {p[1].no : p \in ps}

LEMMA HistoryIs ==
  /\ Answered = AnsweredIn(resolved) /\ Answered' = AnsweredIn(resolved')
  /\ Replaced = ReplacedIn(replaced) /\ Replaced' = ReplacedIn(replaced')
BY DEF Answered, Replaced, AnsweredIn, ReplacedIn

LEMMA NumbersIs == \A rs, n : n \in Numbers(rs) <=> \E i \in DOMAIN rs : rs[i].no = n
BY DEF Numbers, ToSet

LEMMA AnsweredIs ==
  \A rs, n : n \in AnsweredIn(rs) <=> \E i \in DOMAIN rs : rs[i].request.no = n
BY DEF AnsweredIn, ToSet

LEMMA NumbersAppend ==
  ASSUME NEW rs \in Seq(Request), NEW r \in Request
  PROVE  Numbers(Append(rs, r)) = Numbers(rs) \cup {r.no}
<1>1. ToSet(Append(rs, r)) = ToSet(rs) \cup {r}
  BY ToSetAppend
<1> QED BY <1>1 DEF Numbers

LEMMA NumbersTail ==
  ASSUME NEW rs \in Seq(Request), rs # <<>>
  PROVE  Numbers(rs) = Numbers(Tail(rs)) \cup {Head(rs).no}
<1>1. ToSet(rs) = ToSet(Tail(rs)) \cup {Head(rs)}
  BY ToSetTail
<1> QED BY <1>1 DEF Numbers

LEMMA AnsweredAppend ==
  ASSUME NEW T, NEW rs \in Seq(T), NEW r \in T
  PROVE  AnsweredIn(Append(rs, r)) = AnsweredIn(rs) \cup {r.request.no}
<1>1. ToSet(Append(rs, r)) = ToSet(rs) \cup {r}
  BY ToSetAppend
<1> QED BY <1>1 DEF AnsweredIn

LEMMA ReplacedAdd ==
  ASSUME NEW ps, NEW d, NEW r
  PROVE  ReplacedIn(ps \cup {<<d, r>>}) = ReplacedIn(ps) \cup {d.no}
<1> DEFINE p == <<d, r>>
<1>1. p[1] = d
  OBVIOUS
<1> HIDE DEF p
<1>2. {q[1].no : q \in ps \cup {p}} = {q[1].no : q \in ps} \cup {p[1].no}
  OBVIOUS
<1> QED BY <1>1, <1>2 DEF ReplacedIn, p

\* What a sequence that is appended to, or shortened at its head, has where.
LEMMA AppendAt ==
  ASSUME NEW T, NEW s \in Seq(T), NEW e \in T
  PROVE  /\ Append(s, e) \in Seq(T) /\ Len(s) \in Nat /\ DOMAIN s = 1..Len(s)
         /\ DOMAIN Append(s, e) = 1..Len(s) + 1
         /\ \A i \in DOMAIN s :
              i \in DOMAIN Append(s, e) /\ i # Len(s) + 1 /\ Append(s, e)[i] = s[i]
         /\ Len(s) + 1 \in DOMAIN Append(s, e) /\ Append(s, e)[Len(s) + 1] = e
         /\ \A i \in DOMAIN Append(s, e) : i = Len(s) + 1 \/ i \in DOMAIN s
<1> DEFINE t == Append(s, e)
<1>1. /\ t \in Seq(T) /\ Len(t) = Len(s) + 1
      /\ \A i \in 1..Len(s) : t[i] = s[i]
      /\ t[Len(s) + 1] = e
  BY AppendProperties
<1>2. Len(s) \in Nat /\ DOMAIN s = 1..Len(s) /\ DOMAIN t = 1..Len(s) + 1
  BY <1>1, LenProperties
<1> HIDE DEF t
<1>3. /\ \A i \in DOMAIN s : i \in DOMAIN t /\ i # Len(s) + 1
      /\ Len(s) + 1 \in DOMAIN t
      /\ \A i \in DOMAIN t : i = Len(s) + 1 \/ i \in DOMAIN s
  BY <1>2
<1> QED BY <1>1, <1>2, <1>3 DEF t

LEMMA TailAt ==
  ASSUME NEW T, NEW s \in Seq(T), s # <<>>
  PROVE  /\ Tail(s) \in Seq(T) /\ Head(s) = s[1] /\ 1 \in DOMAIN s /\ s[1] \in T
         /\ \A i \in DOMAIN Tail(s) : /\ i \in Nat /\ 1 < i + 1 /\ i + 1 \in DOMAIN s
                                      /\ Tail(s)[i] = s[i + 1]
<1> DEFINE t == Tail(s)
<1>1. t \in Seq(T) /\ Len(t) = Len(s) - 1 /\ \A i \in 1..Len(t) : t[i] = s[i + 1]
  BY HeadTailProperties
<1>2. /\ Len(s) \in Nat /\ Len(s) > 0 /\ DOMAIN s = 1..Len(s) /\ DOMAIN t = 1..Len(s) - 1
      /\ Head(s) = s[1]
  BY <1>1, LenProperties, EmptySeq
<1> HIDE DEF t
<1>3. 1 \in DOMAIN s /\ s[1] \in T
  BY <1>2, ElementOfSeq
<1>4. \A i \in DOMAIN t : i \in Nat /\ 1 < i + 1 /\ i + 1 \in DOMAIN s /\ t[i] = s[i + 1]
  BY <1>1, <1>2
<1> QED BY <1>1, <1>2, <1>3, <1>4 DEF t

LEMMA ConfirmFacts ==
  ASSUME ConfirmInv
  PROVE  /\ \A i \in DOMAIN posted : posted[i] \in Request /\ posted[i].no \in Nat
         /\ \A i \in DOMAIN dialog : dialog[i] \in Request /\ dialog[i].no \in Nat
         /\ \A i \in DOMAIN resolved : resolved[i] \in Answer
         /\ \A i \in DOMAIN posted : posted[i].no \in asked
<1>1. posted \in Seq(Request) /\ dialog \in Seq(Request) /\ resolved \in Seq(Answer)
  BY DEF ConfirmInv, ConfirmTypes, Answer
<1>2. \A r \in Request : r.no \in Nat
  BY DEF Request, Frame
<1>3. /\ \A i \in DOMAIN posted : posted[i] \in Request
      /\ \A i \in DOMAIN dialog : dialog[i] \in Request
      /\ \A i \in DOMAIN resolved : resolved[i] \in Answer
  BY <1>1, LenProperties, ElementOfSeq
<1>4. \A i \in DOMAIN posted : posted[i].no \in asked
  BY NumbersIs DEF ConfirmInv, Somewhere
<1> QED BY <1>2, <1>3, <1>4

-----------------------------------------------------------------------------
(* The steps of a request *)

\* A step that leaves the requests alone.
LEMMA ConfirmKept ==
  ASSUME ConfirmInv, UNCHANGED confirmVars, frames \in Nat, frames' = frames \/ frames' = frames + 1
  PROVE  ConfirmInv'
<1>1. 1..frames \subseteq 1..frames'
  OBVIOUS
<1>2. RequestsOld'
  BY <1>1 DEF ConfirmInv, RequestsOld, confirmVars
<1>3. ConfirmTypes' /\ Entries' /\ Waiting' /\ Somewhere'
  BY HistoryIs DEF ConfirmInv, ConfirmTypes, Entries, Waiting, Somewhere, confirmVars
<1>4. Once' /\ Overwritten' /\ InMind' /\ AnswersMeant'
  BY DEF ConfirmInv, Once, Overwritten, InMind, AnswersMeant, confirmVars
<1> QED BY <1>2, <1>3, <1>4 DEF ConfirmInv

\* The worker posts a request.
LEMMA PostStep ==
  ASSUME ConfirmInv, NEW r \in Request, frames \in Nat, frames' = frames + 1, r.no = frames',
         posted' = Append(posted, r), asked' = asked \cup {r.no},
         UNCHANGED <<dialog, looked, resolved, replaced>>
  PROVE  ConfirmInv'
<1> DEFINE l == Len(posted) + 1
<1>1. posted \in Seq(Request)
  BY DEF ConfirmInv, ConfirmTypes
<1>2. /\ posted' \in Seq(Request) /\ DOMAIN posted = 1..l-1 /\ DOMAIN posted' = 1..l /\ l \in Nat
      /\ \A i \in DOMAIN posted : posted'[i] = posted[i]
      /\ posted'[l] = r
      /\ \A i \in DOMAIN posted' : i = l \/ i \in DOMAIN posted
  BY <1>1, AppendAt
<1> HIDE DEF l
<1>3. Numbers(posted)' = Numbers(posted) \cup {r.no}
  BY <1>1, NumbersAppend
<1>4. Answered' = Answered /\ Replaced' = Replaced /\ Numbers(dialog)' = Numbers(dialog)
  BY HistoryIs
<1>5. \A n \in asked : n \in Nat /\ n < r.no
  BY DEF ConfirmInv, RequestsOld
<1>6. ConfirmTypes'
  <2>1. r.no \in Frame
    BY DEF Request
  <2> QED BY <1>2, <2>1 DEF ConfirmInv, ConfirmTypes
<1>7. RequestsOld'
  BY <1>5 DEF ConfirmInv, RequestsOld
<1>8. Waiting'
  <2>1. \A i \in DOMAIN posted : posted[i].no < r.no
    BY <1>5, ConfirmFacts
  <2>2. \A n \in Numbers(dialog) \cup Answered \cup Replaced : n < r.no
    BY <1>5 DEF ConfirmInv, Somewhere
  <2>3. ASSUME NEW i \in DOMAIN posted', NEW j \in DOMAIN posted', i < j
        PROVE  posted'[i].no < posted'[j].no
    <3>1. i \in DOMAIN posted
      BY <1>2, <2>3
    <3>2. CASE j = l
      BY <1>2, <2>1, <3>1, <3>2
    <3>3. CASE j \in DOMAIN posted
      BY <1>2, <2>3, <3>1, <3>3 DEF ConfirmInv, Waiting
    <3> QED BY <1>2, <3>2, <3>3
  <2>4. ASSUME NEW i \in DOMAIN posted', NEW n \in Numbers(dialog) \cup Answered \cup Replaced
        PROVE  n < posted'[i].no
    BY <1>2, <2>2 DEF ConfirmInv, Waiting
  <2> QED BY <1>4, <2>3, <2>4 DEF Waiting
<1>9. Somewhere'
  BY <1>3, <1>4 DEF ConfirmInv, Somewhere
<1>10. Entries' /\ Once' /\ Overwritten' /\ InMind' /\ AnswersMeant'
  BY DEF ConfirmInv, Entries, Once, Overwritten, InMind, AnswersMeant
<1> QED BY <1>6, <1>7, <1>8, <1>9, <1>10 DEF ConfirmInv

\* The user reads the request that is shown.
LEMMA LookStep ==
  ASSUME ConfirmInv, Look
  PROVE  ConfirmInv'
<1>1. /\ dialog # <<>> /\ looked' = <<dialog[1]>>
      /\ UNCHANGED <<posted, dialog, asked, resolved, replaced, frames>>
  BY DEF Look, vars
<1>2. dialog \in Seq(Request)
  BY DEF ConfirmInv, ConfirmTypes
<1>3. dialog[1] \in Request /\ dialog[1].no \in Nat
  <2>1. dialog[1] \in Request
    BY <1>1, <1>2, TailAt
  <2> QED BY <2>1 DEF Request, Frame
<1>4. looked' \in Seq(Request) /\ Len(looked') = 1 /\ looked'[1] = dialog[1]
  BY <1>1, <1>3
<1>5. ConfirmTypes' /\ RequestsOld' /\ Entries' /\ Waiting' /\ Somewhere'
  BY <1>1, <1>4, HistoryIs DEF ConfirmInv, ConfirmTypes, RequestsOld, Entries, Waiting, Somewhere
<1>6. Once' /\ Overwritten' /\ AnswersMeant'
  BY <1>1 DEF ConfirmInv, Once, Overwritten, AnswersMeant
<1>7. InMind'
  BY <1>1, <1>3, <1>4 DEF InMind
<1> QED BY <1>5, <1>6, <1>7 DEF ConfirmInv

\* The request at the head of those on their way, when it comes to the dialog.
LEMMA Arriving ==
  ASSUME ConfirmInv, posted # <<>>
  PROVE  /\ Head(posted) \in Request /\ Head(posted).no \in Nat
         /\ \A n \in Numbers(dialog) \cup Answered \cup Replaced : n < Head(posted).no
         /\ \A i \in DOMAIN Tail(posted) : Head(posted).no < Tail(posted)[i].no
         /\ \A i \in DOMAIN Tail(posted) : \A n \in Numbers(dialog) \cup Answered \cup Replaced :
              n < Tail(posted)[i].no
         /\ \A i, j \in DOMAIN Tail(posted) : i < j => Tail(posted)[i].no < Tail(posted)[j].no
         /\ Tail(posted) \in Seq(Request)
         /\ Numbers(posted) = Numbers(Tail(posted)) \cup {Head(posted).no}
<1>1. posted \in Seq(Request)
  BY DEF ConfirmInv, ConfirmTypes
<1>2. Numbers(posted) = Numbers(Tail(posted)) \cup {Head(posted).no}
  BY <1>1, NumbersTail
<1> DEFINE t == Tail(posted)
           r == Head(posted)
<1>3. /\ t \in Seq(Request) /\ r = posted[1] /\ 1 \in DOMAIN posted /\ posted[1] \in Request
      /\ \A i \in DOMAIN t :
           i \in Nat /\ 1 < i + 1 /\ i + 1 \in DOMAIN posted /\ t[i] = posted[i + 1]
  BY <1>1, TailAt
<1> HIDE DEF t, r
<1>4. r \in Request /\ r.no \in Nat
  BY <1>3, ConfirmFacts
<1>5. /\ \A i, j \in DOMAIN posted : i < j => posted[i].no < posted[j].no
      /\ \A i \in DOMAIN posted : \A n \in Numbers(dialog) \cup Answered \cup Replaced :
           n < posted[i].no
  BY DEF ConfirmInv, Waiting
<1>6. \A n \in Numbers(dialog) \cup Answered \cup Replaced : n < r.no
  BY <1>3, <1>5
<1>7. \A i \in DOMAIN t : /\ r.no < t[i].no
                          /\ \A n \in Numbers(dialog) \cup Answered \cup Replaced : n < t[i].no
  BY <1>3, <1>5
<1>8. ASSUME NEW i \in DOMAIN t, NEW j \in DOMAIN t, i < j PROVE t[i].no < t[j].no
  <2>1. i + 1 \in DOMAIN posted /\ j + 1 \in DOMAIN posted /\ i + 1 < j + 1
    BY <1>3, <1>8
  <2> QED BY <1>3, <1>5, <2>1
<1> QED BY <1>2, <1>3, <1>4, <1>6, <1>7, <1>8 DEF t, r

\* It is put in, in the place of those numbered in D (none or one) of its session.
LEMMA PutStep ==
  ASSUME ConfirmInv, RequestConfirmation, NEW D,
         dialog' \in Seq(Request), replaced' \subseteq Request \X Request,
         D \subseteq Numbers(dialog),
         Numbers(dialog)' = (Numbers(dialog) \ D) \cup {Head(posted).no},
         Replaced' = Replaced \cup D,
         Entries', Overwritten', InMind'
  PROVE  ConfirmInv'
<1> DEFINE r == Head(posted)
<1>1. /\ posted # <<>> /\ posted' = Tail(posted) /\ UNCHANGED <<looked, asked, resolved, frames>>
  BY DEF RequestConfirmation, vars
<1>2. /\ r.no \in Nat
      /\ \A n \in Numbers(dialog) \cup Answered \cup Replaced : n < r.no
      /\ \A i \in DOMAIN posted' : r.no < posted'[i].no
      /\ \A i \in DOMAIN posted' : \A n \in Numbers(dialog) \cup Answered \cup Replaced :
           n < posted'[i].no
      /\ \A i, j \in DOMAIN posted' : i < j => posted'[i].no < posted'[j].no
      /\ posted' \in Seq(Request)
      /\ Numbers(posted) = Numbers(posted)' \cup {r.no}
  BY <1>1, Arriving
<1> HIDE DEF r
<1>3. Answered' = Answered
  BY <1>1, HistoryIs
<1>4. Numbers(dialog)' = (Numbers(dialog) \ D) \cup {r.no}
  BY DEF r
<1>5. r.no \notin Numbers(dialog) \cup Answered \cup Replaced
  BY <1>2
<1>6. ConfirmTypes' /\ RequestsOld'
  BY <1>1, <1>2 DEF ConfirmInv, ConfirmTypes, RequestsOld
<1>7. Waiting'
  <2>1. Numbers(dialog)' \cup Answered' \cup Replaced' \subseteq
          (Numbers(dialog) \cup Answered \cup Replaced) \cup {r.no}
    BY <1>3, <1>4
  <2> QED BY <1>2, <2>1 DEF Waiting
<1>8. Somewhere'
  <2>1. asked' = Numbers(posted)' \cup Numbers(dialog)' \cup Answered' \cup Replaced'
    BY <1>1, <1>2, <1>3, <1>4 DEF ConfirmInv, Somewhere
  <2>2. Numbers(dialog)' \cap (Answered' \cup Replaced') = {} /\ Answered' \cap Replaced' = {}
    BY <1>3, <1>4, <1>5 DEF ConfirmInv, Somewhere
  <2> QED BY <2>1, <2>2 DEF Somewhere
<1>9. Once' /\ AnswersMeant'
  BY <1>1 DEF ConfirmInv, Once, AnswersMeant
<1> QED BY <1>6, <1>7, <1>8, <1>9 DEF ConfirmInv

LEMMA RequestStep ==
  ASSUME ConfirmInv, RequestConfirmation
  PROVE  ConfirmInv'
<1> DEFINE r == Head(posted)
           Same == {d \in ToSet(dialog) : d.session = r.session}
<1>1. /\ posted # <<>> /\ dialog' = PutRequest(r)
      /\ replaced' = replaced \cup {<<d, r>> : d \in Same}
      /\ UNCHANGED <<looked, asked, resolved, frames>>
  BY DEF RequestConfirmation, vars
<1>2. /\ r \in Request /\ r.no \in Nat
      /\ \A n \in Numbers(dialog) \cup Answered \cup Replaced : n < r.no
  BY <1>1, Arriving
<1>3. /\ dialog \in Seq(Request) /\ replaced \subseteq Request \X Request
      /\ Entries /\ InMind /\ Overwritten
  BY DEF ConfirmInv, ConfirmTypes
<1>4. \A i \in DOMAIN dialog : dialog[i] \in Request /\ dialog[i].no \in Nat /\ dialog[i].no < r.no
  BY <1>2, ConfirmFacts, NumbersIs
<1>5. CASE \E k \in DOMAIN dialog : dialog[k].session = r.session
  <2>1. PICK k \in DOMAIN dialog : dialog[k].session = r.session
    BY <1>5
  <2> DEFINE d == dialog[k]
  <2>2. \A i \in DOMAIN dialog : dialog[i].session = r.session <=> i = k
    BY <1>3, <2>1 DEF Entries
  <2>3. Same = {d}
    BY <2>1, <2>2 DEF ToSet
  <2>4. dialog' = [i \in DOMAIN dialog |-> IF i = k THEN r ELSE dialog[i]]
    <3>1. \E e \in ToSet(dialog) : e.session = r.session
      BY <2>1 DEF ToSet
    <3>2. dialog' = [i \in DOMAIN dialog |-> IF dialog[i].session = r.session THEN r ELSE dialog[i]]
      BY <1>1, <3>1 DEF PutRequest
    <3> QED BY <2>2, <3>2
  <2>5. replaced' = replaced \cup {<<d, r>>}
    BY <1>1, <2>3
  <2>6. d \in Request /\ d.no \in Nat /\ d.no < r.no /\ d.session = r.session
    BY <1>4, <2>1
  <2>7. DOMAIN dialog' = DOMAIN dialog
    BY <2>4
  <2>8. dialog'[k] = r /\ \A i \in DOMAIN dialog : i # k => dialog'[i] = dialog[i]
    BY <2>1, <2>4
  <2> HIDE DEF r, d, Same
  <2>9. dialog' \in Seq(Request)
    <3>1. Len(dialog) \in Nat /\ DOMAIN dialog = 1..Len(dialog)
      BY <1>3, LenProperties
    <3>2. \A i \in 1..Len(dialog) : (IF i = k THEN r ELSE dialog[i]) \in Request
      BY <1>2, <1>4, <3>1
    <3>3. dialog' = [i \in 1..Len(dialog) |-> IF i = k THEN r ELSE dialog[i]]
      BY <2>4, <3>1
    <3> QED BY <3>1, <3>2, <3>3, IsASeq
  <2>10. replaced' \subseteq Request \X Request
    BY <1>2, <1>3, <2>5, <2>6
  <2>11. Numbers(dialog') = (Numbers(dialog) \ {d.no}) \cup {r.no}
    <3>1. ASSUME NEW n \in Numbers(dialog')
          PROVE  n \in (Numbers(dialog) \ {d.no}) \cup {r.no}
      <4>1. PICK i \in DOMAIN dialog : dialog'[i].no = n
        BY <2>7, <3>1, NumbersIs
      <4>2. CASE i = k
        BY <2>8, <4>1, <4>2
      <4>3. CASE i # k
        <5>1. dialog[i].no = n
          BY <2>8, <4>1, <4>3
        <5>2. n # d.no
          BY <1>3, <4>3, <5>1 DEF Entries, d
        <5> QED BY <5>1, <5>2, NumbersIs
      <4> QED BY <4>2, <4>3
    <3>2. ASSUME NEW n \in Numbers(dialog), n # d.no
          PROVE  n \in Numbers(dialog')
      <4>1. PICK i \in DOMAIN dialog : dialog[i].no = n
        BY <3>2, NumbersIs
      <4>2. i # k
        BY <3>2, <4>1 DEF d
      <4> QED BY <2>7, <2>8, <4>1, <4>2, NumbersIs
    <3>3. r.no \in Numbers(dialog')
      BY <2>1, <2>7, <2>8, NumbersIs
    <3> QED BY <3>1, <3>2, <3>3
  <2>12. Replaced' = Replaced \cup {d.no}
    <3>1. Replaced' = ReplacedIn(replaced \cup {<<d, r>>}) /\ Replaced = ReplacedIn(replaced)
      BY <2>5, HistoryIs
    <3> QED BY <3>1, ReplacedAdd
  <2>13. Entries'
    <3>1. ASSUME NEW i \in DOMAIN dialog, NEW j \in DOMAIN dialog, i # j, i # k
          PROVE  dialog'[i].session # dialog'[j].session /\ dialog'[i].no # dialog'[j].no
      <4>1. dialog'[i] = dialog[i]
        BY <2>8, <3>1
      <4>2. CASE j = k
        BY <1>4, <2>2, <2>8, <3>1, <4>1, <4>2
      <4>3. CASE j # k
        BY <1>3, <2>8, <3>1, <4>1, <4>3 DEF Entries
      <4> QED BY <4>2, <4>3
    <3> QED BY <2>7, <3>1 DEF Entries
  <2>14. Overwritten'
    BY <1>3, <2>5, <2>6 DEF Overwritten
  <2>15. InMind'
    <3> SUFFICES ASSUME looked # <<>>, dialog # <<>>, dialog[1].session = looked[1].session,
                        dialog[1].no >= looked[1].no
                 PROVE  /\ dialog' # <<>> /\ dialog'[1].session = looked[1].session
                        /\ dialog'[1].no >= looked[1].no
      BY <1>1, <1>3 DEF InMind
    <3>1. 1 \in DOMAIN dialog
      BY <1>3, TailAt
    <3>2. dialog' # <<>>
      BY <2>7, <3>1
    <3>3. looked[1].no \in Nat
      <4>1. looked \in Seq(Request)
        BY DEF ConfirmInv, ConfirmTypes
      <4>2. looked[1] \in Request
        BY <4>1, TailAt
      <4> QED BY <4>2 DEF Request, Frame
    <3>4. CASE k = 1
      <4>1. dialog'[1] = r /\ d = dialog[1]
        BY <2>8, <3>4 DEF d
      <4>2. r.no >= looked[1].no
        BY <1>2, <2>6, <3>3, <4>1
      <4> QED BY <2>6, <3>2, <4>1, <4>2
    <3>5. CASE k # 1
      <4>1. dialog'[1] = dialog[1]
        BY <2>8, <3>1, <3>5
      <4> QED BY <3>2, <4>1
    <3> QED BY <3>4, <3>5
  <2>16. d.no \in Numbers(dialog)
    BY NumbersIs DEF d
  <2> DEFINE D == {d.no}
  <2>17. /\ D \subseteq Numbers(dialog) /\ Replaced' = Replaced \cup D
         /\ Numbers(dialog)' = (Numbers(dialog) \ D) \cup {Head(posted).no}
    BY <2>11, <2>12, <2>16 DEF r
  <2> HIDE DEF D
  <2> QED BY <1>1, <2>9, <2>10, <2>13, <2>14, <2>15, <2>17, PutStep
<1>6. CASE ~\E k \in DOMAIN dialog : dialog[k].session = r.session
  <2>1. Same = {}
    BY <1>6 DEF ToSet
  <2>2. replaced' = replaced
    BY <1>1, <2>1
  <2>3. dialog' = Append(dialog, r)
    BY <1>1, <1>6 DEF PutRequest, ToSet
  <2> DEFINE l == Len(dialog) + 1
  <2> HIDE DEF r, Same
  <2>4. /\ dialog' \in Seq(Request) /\ l \in DOMAIN dialog' /\ dialog'[l] = r
        /\ \A i \in DOMAIN dialog : i \in DOMAIN dialog' /\ dialog'[i] = dialog[i]
        /\ \A i \in DOMAIN dialog' : i = l \/ i \in DOMAIN dialog
    BY <1>2, <1>3, <2>3, AppendAt
  <2>5. Numbers(dialog') = Numbers(dialog) \cup {r.no}
    BY <1>2, <1>3, <2>3, NumbersAppend
  <2>6. Replaced' = Replaced
    BY <2>2, HistoryIs
  <2> HIDE DEF l
  <2>7. Entries'
    <3>1. \A i \in DOMAIN dialog : dialog[i].session # r.session /\ dialog[i].no # r.no
      BY <1>2, <1>4, <1>6
    <3> QED BY <1>3, <2>4, <3>1 DEF Entries
  <2>8. Overwritten'
    BY <1>3, <2>2 DEF Overwritten
  <2>9. InMind'
    <3>1. dialog # <<>> => dialog' # <<>> /\ dialog'[1] = dialog[1]
      <4> SUFFICES ASSUME dialog # <<>> PROVE dialog' # <<>> /\ dialog'[1] = dialog[1]
        OBVIOUS
      <4>1. 1 \in DOMAIN dialog
        BY <1>3, TailAt
      <4> QED BY <2>4, <4>1
    <3> QED BY <1>1, <1>3, <3>1 DEF InMind
  <2> DEFINE D == {}
  <2>10. /\ D \subseteq Numbers(dialog) /\ Numbers(dialog') = (Numbers(dialog) \ D) \cup {r.no}
         /\ Replaced' = Replaced \cup D
    BY <2>5, <2>6
  <2> HIDE DEF D
  <2>11. dialog' \in Seq(Request) /\ replaced' \subseteq Request \X Request
    BY <1>3, <2>2, <2>4
  <2> QED BY <2>7, <2>8, <2>9, <2>10, <2>11, PutStep DEF r
<1> QED BY <1>5, <1>6

\* The entry that a click deletes is the first one.
LEMMA DropsFirst ==
  ASSUME dialog \in Seq(Request), dialog # <<>>, Entries
  PROVE  DropRequest(dialog[1].session) = Tail(dialog)
<1>1. 1 \in DOMAIN dialog /\ Len(dialog) \in Nat /\ Len(dialog) > 0
  BY TailAt, LenProperties, EmptySeq
<1>2. \A i \in DOMAIN dialog : dialog[i].session = dialog[1].session <=> i = 1
  BY <1>1 DEF Entries
<1>3. (CHOOSE i \in DOMAIN dialog : dialog[i].session = dialog[1].session) = 1
  BY <1>1, <1>2
<1>4. DropRequest(dialog[1].session) = RemoveAt(dialog, 1)
  BY <1>3 DEF DropRequest
<1>5. SubSeq(dialog, 1, 1 - 1) = <<>>
  BY <1>1, SubSeqEmpty
<1>6. SubSeq(dialog, 1 + 1, Len(dialog)) = Tail(dialog)
  BY TailIsSubSeq
<1>7. <<>> \o Tail(dialog) = Tail(dialog)
  BY ConcatEmptySeq, HeadTailProperties
<1> QED BY <1>4, <1>5, <1>6, <1>7 DEF RemoveAt

LEMMA ResolveStep ==
  ASSUME ConfirmInv, Resolve
  PROVE  ConfirmInv'
<1> DEFINE r == dialog[1]
           read == looked[1]
           a == [request |-> r, looked |-> read]
           l == Len(resolved) + 1
           T == Answer
<1>1. /\ dialog # <<>> /\ looked # <<>> /\ resolved' = Append(resolved, a)
      /\ UNCHANGED <<posted, looked, asked, replaced, frames>>
  BY DEF Resolve, vars
<1>2. /\ dialog \in Seq(Request) /\ looked \in Seq(Request) /\ resolved \in Seq(T)
      /\ Entries /\ InMind /\ Once /\ AnswersMeant
  BY DEF ConfirmInv, ConfirmTypes, Answer
<1>3. dialog' = Tail(dialog)
  BY <1>1, <1>2, DropsFirst DEF Resolve
<1>4. r \in Request /\ r.no \in Nat /\ 1 \in DOMAIN dialog /\ Head(dialog) = r
  <2>1. r \in Request /\ 1 \in DOMAIN dialog /\ Head(dialog) = r
    BY <1>1, <1>2, TailAt
  <2> QED BY <2>1 DEF Request, Frame
<1>5. read \in Request
  BY <1>1, <1>2, TailAt
<1>6. a \in T /\ a.request = r /\ a.looked = read
  BY <1>4, <1>5 DEF Answer
<1>7. /\ dialog' \in Seq(Request)
      /\ \A i \in DOMAIN dialog' :
           i \in Nat /\ 1 < i + 1 /\ i + 1 \in DOMAIN dialog /\ dialog'[i] = dialog[i + 1]
  BY <1>1, <1>2, <1>3, TailAt
<1>8. Numbers(dialog) = Numbers(dialog') \cup {r.no}
  BY <1>1, <1>2, <1>3, <1>4, NumbersTail
<1>9. r.no \notin Numbers(dialog')
  <2> SUFFICES ASSUME NEW i \in DOMAIN dialog' PROVE dialog'[i].no # r.no
    BY NumbersIs
  <2>1. i + 1 \in DOMAIN dialog /\ dialog'[i] = dialog[i + 1] /\ i + 1 # 1
    BY <1>7
  <2> QED BY <1>2, <1>4, <2>1 DEF Entries
<1>10. Entries'
  <2> SUFFICES ASSUME NEW i \in DOMAIN dialog', NEW j \in DOMAIN dialog',
                      dialog'[i].session = dialog'[j].session \/ dialog'[i].no = dialog'[j].no
               PROVE  i = j
    BY DEF Entries
  <2>1. i + 1 = j + 1
    BY <1>2, <1>7 DEF Entries
  <2> QED BY <1>7, <2>1
<1> HIDE DEF a, T, l, r, read
<1>11. /\ resolved' \in Seq(T) /\ l \in Nat /\ DOMAIN resolved = 1..l-1 /\ DOMAIN resolved' = 1..l
       /\ \A i \in DOMAIN resolved : resolved'[i] = resolved[i]
       /\ resolved'[l] = a
       /\ l \in DOMAIN resolved'
       /\ \A i \in DOMAIN resolved' : i = l \/ i \in DOMAIN resolved
  BY <1>1, <1>2, <1>6, AppendAt DEF l
<1>12. Answered' = Answered \cup {r.no}
  <2>1. AnsweredIn(resolved') = AnsweredIn(resolved) \cup {a.request.no}
    BY <1>1, <1>2, <1>6, AnsweredAppend
  <2> QED BY <1>6, <2>1, HistoryIs
<1>13. r.no \in Numbers(dialog) /\ r.no \notin Answered /\ r.no \notin Replaced
  <2>1. r.no \in Numbers(dialog)
    BY <1>8
  <2> QED BY <2>1 DEF ConfirmInv, Somewhere
<1>14. Replaced' = Replaced
  BY <1>1, HistoryIs
<1>15. ConfirmTypes' /\ RequestsOld'
  BY <1>1, <1>7, <1>11 DEF ConfirmInv, ConfirmTypes, RequestsOld, T, Answer
<1>16. Waiting'
  <2>1. Numbers(dialog') \cup Answered' \cup Replaced'
          \subseteq Numbers(dialog) \cup Answered \cup Replaced
    BY <1>8, <1>12, <1>14
  <2> QED BY <1>1, <2>1 DEF ConfirmInv, Waiting
<1>17. Somewhere'
  <2>1. asked' = Numbers(posted)' \cup Numbers(dialog') \cup Answered' \cup Replaced'
    BY <1>1, <1>8, <1>12, <1>14 DEF ConfirmInv, Somewhere
  <2>2. Numbers(dialog') \cap (Answered' \cup Replaced') = {} /\ Answered' \cap Replaced' = {}
    BY <1>8, <1>9, <1>12, <1>13, <1>14 DEF ConfirmInv, Somewhere
  <2> QED BY <2>1, <2>2 DEF Somewhere
<1>18. Once'
  <2>1. \A i \in DOMAIN resolved : resolved[i].request.no # r.no
    BY <1>13, AnsweredIs, HistoryIs
  <2>2. \A i \in DOMAIN resolved : resolved[i].request # r
    BY <2>1
  <2> QED BY <1>2, <1>6, <1>11, <2>2 DEF Once
<1>19. Overwritten'
  BY <1>1 DEF ConfirmInv, Overwritten
<1>20. InMind'
  BY <1>1, <1>6, <1>11 DEF InMind, read
<1>21. AnswersMeant'
  <2> SUFFICES ASSUME NEW i \in DOMAIN resolved'
               PROVE  \/ /\ resolved'[i].request.session = resolved'[i].looked.session
                         /\ resolved'[i].request.no >= resolved'[i].looked.no
                      \/ \E j \in 1..i-1 : resolved'[j].looked = resolved'[i].looked
    BY DEF AnswersMeant
  <2>1. CASE i = l
    <3>1. \/ r.session = read.session /\ r.no >= read.no
          \/ \E j \in DOMAIN resolved : resolved[j].looked = read
      BY <1>1, <1>2 DEF InMind, r, read
    <3> QED BY <1>6, <1>11, <2>1, <3>1
  <2>2. CASE i \in DOMAIN resolved
    <3>1. \/ /\ resolved[i].request.session = resolved[i].looked.session
             /\ resolved[i].request.no >= resolved[i].looked.no
          \/ \E j \in 1..i-1 : resolved[j].looked = resolved[i].looked
      BY <1>2, <2>2 DEF AnswersMeant
    <3>2. 1..i-1 \subseteq DOMAIN resolved
      BY <1>11, <2>2
    <3> QED BY <1>11, <2>2, <3>1, <3>2
  <2> QED BY <1>11, <2>1, <2>2
<1> QED BY <1>10, <1>15, <1>16, <1>17, <1>18, <1>19, <1>20, <1>21 DEF ConfirmInv

-----------------------------------------------------------------------------
(* The theorems *)

LEMMA InvInit == PageInit => Inv
<1> SUFFICES ASSUME PageInit PROVE Inv
  OBVIOUS
<1>1. TypeOK
  BY BoundsAssumption, EmptySeq DEF PageInit, Init, TypeOK, Socket
<1>2. TimersPaid /\ BlocksOld
  BY EmptySeq DEF PageInit, Init, TimersPaid, BlocksOld
<1>3. ReplayAccounted
  <2> SUFFICES ASSUME NEW s \in Session PROVE Replay(s)
    BY ReplayIs
  <2>1. replayed[s] = <<>> /\ pending[s] = <<>> /\ discarded[s] = {} /\ queued[s] = {}
        /\ shown[s] = {}
    BY DEF PageInit, Init
  <2>2. Line(s) = <<>>
    BY <2>1, ConcatEmptySeq, EmptySeq DEF Line
  <2> QED BY <2>1, <2>2 DEF Replay, Increasing, ToSet
<1>4. /\ posted = <<>> /\ dialog = <<>> /\ looked = <<>>
      /\ asked = {} /\ resolved = <<>> /\ replaced = {}
  BY DEF PageInit
<1>5. \A n : /\ n \notin Numbers(posted) /\ n \notin Numbers(dialog)
             /\ n \notin Answered /\ n \notin Replaced
  BY <1>4, NumbersIs DEF Answered, Replaced, ToSet
<1>6. ConfirmTypes /\ RequestsOld
  BY <1>4, EmptySeq DEF ConfirmTypes, RequestsOld
<1>7. Entries /\ Waiting /\ Once /\ Overwritten /\ InMind /\ AnswersMeant
  BY <1>4 DEF Entries, Waiting, Once, Overwritten, InMind, AnswersMeant
<1>8. Somewhere
  BY <1>4, <1>5 DEF Somewhere
<1> QED BY <1>1, <1>2, <1>3, <1>6, <1>7, <1>8 DEF Inv, WorkerInv

\* A frame, whatever it is.
LEMMA ReceiveStep ==
  ASSUME Inv, NEW k \in Socket, NEW text \in Wire, Receive(k, text)
  PROVE  Inv'
<1> DEFINE f == parseFrame(text)
           r == RequestOf(f)
           S == {b.id : b \in ToSet(f.sessions)}
<1>1. WorkerInv /\ ConfirmInv /\ frames \in Nat
  BY DEF Inv, ConfirmInv, WorkerInv, TypeOK
<1>2. CASE /\ f.type = ConfirmFrame /\ f.sessions # <<>> /\ Confirm(k)
           /\ posted' = Append(posted, r) /\ asked' = asked \cup {frames + 1}
           /\ UNCHANGED <<dialog, looked, resolved, replaced>>
  <2>1. WorkerInv'
    BY <1>1, <1>2, WorkerStepInv
  <2>2. f.sessions[1].data[1] \in Session
    BY <1>2, WireAssumption
  <2>3. frames' = frames + 1 /\ frames + 1 \in Frame
    BY <1>1, <1>2, BoundsAssumption DEF Confirm, Frame
  <2>4. r \in Request /\ r.no = frames + 1
    BY <2>2, <2>3 DEF RequestOf, Request
  <2> HIDE DEF r
  <2>5. ConfirmInv'
    BY <1>1, <1>2, <2>3, <2>4, PostStep
  <2> QED BY <2>1, <2>5 DEF Inv, ConfirmInv
<1>3. CASE Output(k, S) /\ UNCHANGED confirmVars
  <2> HIDE DEF S
  <2>1. WorkerInv'
    BY <1>1, <1>3, WorkerStepInv
  <2>2. frames' = frames + 1
    BY <1>3 DEF Output
  <2>3. ConfirmInv'
    BY <1>1, <1>3, <2>2, ConfirmKept
  <2> QED BY <2>1, <2>3 DEF Inv, ConfirmInv
<1>4. CASE Confirm(k) /\ UNCHANGED confirmVars
  <2>1. WorkerInv'
    BY <1>1, <1>4, WorkerStepInv
  <2>2. frames' = frames + 1
    BY <1>4 DEF Confirm
  <2>3. ConfirmInv'
    BY <1>1, <1>4, <2>2, ConfirmKept
  <2> QED BY <2>1, <2>3 DEF Inv, ConfirmInv
<1> QED BY <1>2, <1>3, <1>4 DEF Receive

LEMMA InvNext == Inv /\ [PageNext]_pageVars => Inv'
<1> SUFFICES ASSUME Inv, [PageNext]_pageVars PROVE Inv'
  OBVIOUS
<1>1. WorkerInv /\ ConfirmInv /\ frames \in Nat
  BY DEF Inv, ConfirmInv, WorkerInv, TypeOK
<1>2. CASE WorkerStep /\ UNCHANGED confirmVars
  <2>1. WorkerInv'
    BY <1>1, <1>2, WorkerStepInv
  <2>2. frames' = frames
    BY <1>2 DEF WorkerStep, Disconnect, Release, Connect, Opened, Closed, Input, Lock
  <2>3. ConfirmInv'
    BY <1>1, <1>2, <2>2, ConfirmKept
  <2> QED BY <2>1, <2>3 DEF Inv, ConfirmInv
<1>3. CASE RequestConfirmation \/ Look \/ Resolve
  <2>1. UNCHANGED vars
    BY <1>3 DEF RequestConfirmation, Look, Resolve
  <2>2. WorkerInv'
    BY <1>1, <2>1, WorkerStepInv
  <2>3. ConfirmInv'
    BY <1>1, <1>3, RequestStep, LookStep, ResolveStep
  <2> QED BY <2>2, <2>3 DEF Inv, ConfirmInv
<1>4. CASE UNCHANGED pageVars
  <2>1. UNCHANGED vars /\ UNCHANGED confirmVars /\ frames' = frames
    BY <1>4 DEF pageVars, vars
  <2>2. WorkerInv' /\ ConfirmInv'
    BY <1>1, <2>1, WorkerStepInv, ConfirmKept
  <2> QED BY <2>2 DEF Inv, ConfirmInv
<1> QED BY <1>2, <1>3, <1>4, ReceiveStep DEF PageNext

LEMMA Invariance == PageSpec => []Inv
BY InvInit, InvNext, PTL DEF PageSpec

\* Output that the worker queues under the echo lock (onmessage of ws.worker.ts) has gone to
\* the page with its frame already; it is still queued for a second posting, was posted again,
\* once and in the order of arrival, by the timer of an input, or was thrown away by a later
\* input, which replaces the queue (handleInput); and only a locked session has a queue.  That
\* holds with several locks and timers of a session at a time.
THEOREM ReplaysAreAccounted == PageSpec => []ReplayAccounted
<1>1. Inv => ReplayAccounted
  BY DEF Inv, WorkerInv
<1> QED BY <1>1, Invariance, PTL

\* A request for a confirmation has exactly one fate on its way from the worker through
\* App.vue into pendingConfirmations (stores/risk.ts): it waits, is in the dialog, was
\* answered once, or a later request of its session took its entry of the Map, and then it is
\* never answered.
THEOREM RequestsAreAccounted == PageSpec => []RequestsAccounted
<1>1. Inv => RequestsAccounted
  <2> SUFFICES ASSUME Inv PROVE RequestsAccounted
    OBVIOUS
  <2>1. PageTypeOK
    BY DEF Inv, WorkerInv, ConfirmTypes, PageTypeOK
  <2>2. /\ \A i, j \in DOMAIN dialog : dialog[i].session = dialog[j].session => i = j
        /\ \A i, j \in DOMAIN posted : i < j => posted[i].no < posted[j].no
    BY DEF Inv, Entries, Waiting
  <2>3. \A a \in ToSet(posted), d \in ToSet(dialog) : d.no < a.no
    BY DEF Inv, Waiting, ToSet, Numbers
  <2> QED BY <2>1, <2>2, <2>3 DEF Inv, Somewhere, Once, Overwritten, RequestsAccounted
<1> QED BY <1>1, Invariance, PTL

\* The first click of handleConfirm or handleCancel (ConfirmModal.vue) after a request was
\* read answers that request or a later one of its session that overwrote it, whatever
\* arrives between reading and clicking: Map.set keeps the place of an entry.
THEOREM AnswersAreMeant == PageSpec => []AnswersMeant
<1>1. Inv => AnswersMeant
  BY DEF Inv
<1> QED BY <1>1, Invariance, PTL

-----------------------------------------------------------------------------
(* Recursion over the numbers *)

\* A nonempty set of natural numbers has a least one.
LEMMA LeastNumber ==
  ASSUME NEW S, S \subseteq Nat, S # {}
  PROVE  \E x \in S : \A y \in S : x <= y
<1>1. PICK x \in S : \A y \in S : ~(<<y, x>> \in OpToRel(<, Nat))
  BY NatLessThanWellFounded, WFMin
<1>2. ASSUME NEW y \in S, y < x PROVE <<y, x>> \in OpToRel(<, Nat)
  <2>1. <<y, x>> \in {ss \in Nat \X Nat : ss[1] < ss[2]}
    BY <1>2
  <2> QED BY <2>1 DEF OpToRel
<1>3. \A y \in S : ~(y < x)
  BY <1>1, <1>2
<1> QED BY <1>3

\* Induction, for a property that is given as a set.
LEMMA SetInduction ==
  ASSUME NEW S, 0 \in S, \A n \in Nat : n \in S => n + 1 \in S
  PROVE  Nat \subseteq S
<1> SUFFICES ASSUME Nat \ S # {} PROVE FALSE
  OBVIOUS
<1> DEFINE R == Nat \ S
<1>1. R \subseteq Nat /\ R # {}
  OBVIOUS
<1> HIDE DEF R
<1>2. PICK x \in R : \A y \in R : x <= y
  BY <1>1, LeastNumber
<1>3. x \in Nat /\ x # 0 /\ x \notin S
  BY <1>2 DEF R
<1>4. x - 1 \in Nat /\ (x - 1) + 1 = x /\ ~(x <= x - 1)
  BY <1>3
<1>5. x - 1 \in S
  BY <1>2, <1>4 DEF R
<1> QED BY <1>3, <1>4, <1>5

\* A function that has a first value, and each value from the one before.
Steps(F, T) == F \in [Nat -> [T -> T]]
Follows(g, n, T, b, F) == g \in [0..n -> T] /\ g[0] = b /\ \A i \in 1..n : g[i] = F[i][g[i - 1]]

\* There is one.
LEMMA Recursion ==
  ASSUME NEW T, NEW b \in T, NEW F, Steps(F, T), NEW N \in Nat
  PROVE  \E g : Follows(g, N, T, b, F)
<1> DEFINE S == {n \in Nat : \E g : Follows(g, n, T, b, F)}
<1>0. F \in [Nat -> [T -> T]]
  BY DEF Steps
<1>1. 0 \in S
  <2>1. Follows([i \in 0..0 |-> b], 0, T, b, F)
    BY DEF Follows
  <2> QED BY <2>1
<1>2. ASSUME NEW n \in Nat, n \in S PROVE n + 1 \in S
  <2>1. PICK g : Follows(g, n, T, b, F)
    BY <1>2
  <2>2. g \in [0..n -> T] /\ g[0] = b /\ \A i \in 1..n : g[i] = F[i][g[i - 1]]
    BY <2>1 DEF Follows
  <2> DEFINE h == [i \in 0..n+1 |-> IF i = n + 1 THEN F[n + 1][g[n]] ELSE g[i]]
  <2>3. F[n + 1][g[n]] \in T
    BY <1>0, <2>2
  <2>4. /\ \A i \in 0..n : h[i] = g[i] /\ g[i] \in T
        /\ h[n + 1] = F[n + 1][g[n]]
    BY <2>2
  <2>5. h \in [0..n+1 -> T]
    BY <2>2, <2>3
  <2> HIDE DEF h
  <2>6. ASSUME NEW i \in 1..n+1 PROVE h[i] = F[i][h[i - 1]]
    <3>1. CASE i = n + 1
      BY <2>4, <3>1
    <3>2. CASE i # n + 1
      <4>1. i \in 1..n /\ i \in 0..n /\ i - 1 \in 0..n
        BY <3>2
      <4> QED BY <2>2, <2>4, <4>1
    <3> QED BY <3>1, <3>2
  <2>7. Follows(h, n + 1, T, b, F)
    BY <2>2, <2>4, <2>5, <2>6 DEF Follows
  <2> QED BY <2>7
<1> HIDE DEF S
<1>3. N \in S
  BY <1>1, <1>2, SetInduction
<1> QED BY <1>3 DEF S

-----------------------------------------------------------------------------
(* The bytes of a frame *)

Byte == 0..Base-1

\* The values that Uint passes through: each byte is put behind the ones before.
Values(bytes, u) == /\ u \in [0..Len(bytes) -> Nat] /\ u[0] = 0
                    /\ \A i \in 1..Len(bytes) : u[i] = u[i - 1] * Base + bytes[i]

LEMMA UintSteps ==
  ASSUME NEW bytes \in Seq(Byte)
  PROVE  \E u : Values(bytes, u) /\ Uint(bytes) = u[Len(bytes)]
<1> DEFINE N == Len(bytes)
           F == [i \in Nat |-> [n \in Nat |-> IF i \in 1..N THEN n * Base + bytes[i] ELSE 0]]
           u[i \in 0..Len(bytes)] == IF i = 0 THEN 0 ELSE u[i-1] * Base + bytes[i]
           S == {n \in Nat : n \in 0..N => u[n] \in Nat}
<1>1. Base \in Nat /\ N \in Nat /\ \A i \in 1..N : bytes[i] \in Nat
  BY CodecAssumption, LenProperties, ElementOfSeq DEF Byte
<1>2. \A n \in Nat, i \in 1..N : n * Base + bytes[i] \in Nat
  BY <1>1
<1>3. F \in [Nat -> [Nat -> Nat]] /\ \A i \in 1..N, n \in Nat : F[i][n] = n * Base + bytes[i]
  <2>1. \A i, n \in Nat : (IF i \in 1..N THEN n * Base + bytes[i] ELSE 0) \in Nat
    BY <1>2
  <2>2. \A i \in 1..N : i \in Nat
    BY <1>1
  <2> QED BY <2>1, <2>2
<1>4. PICK g \in [0..N -> Nat] : g[0] = 0 /\ \A i \in 1..N : g[i] = F[i][g[i - 1]]
  <2>1. Steps(F, Nat) /\ N \in Nat /\ 0 \in Nat
    BY <1>1, <1>3 DEF Steps
  <2> HIDE DEF F, N
  <2>2. \E g : Follows(g, N, Nat, 0, F)
    BY <2>1, Recursion
  <2> QED BY <2>2 DEF Follows
<1>5. g = [i \in 0..N |-> IF i = 0 THEN 0 ELSE g[i - 1] * Base + bytes[i]]
  <2>1. ASSUME NEW i \in 0..N, i # 0 PROVE g[i] = g[i - 1] * Base + bytes[i]
    <3>1. i \in 1..N /\ i - 1 \in 0..N
      BY <1>1, <2>1
    <3>2. g[i - 1] \in Nat
      BY <1>4, <3>1
    <3> QED BY <1>3, <1>4, <3>1, <3>2
  <2> QED BY <1>4, <2>1
<1>6. u = [i \in 0..N |-> IF i = 0 THEN 0 ELSE u[i - 1] * Base + bytes[i]]
  BY <1>5, Zenon
<1>7. Uint(bytes) = u[N]
  BY Zenon DEF Uint
<1> HIDE DEF u, N
<1>8. u[0] = 0 /\ \A i \in 1..N : u[i] = u[i - 1] * Base + bytes[i]
  <2>1. u[0] = 0
    BY <1>1, <1>6
  <2>2. ASSUME NEW i \in 1..N PROVE u[i] = u[i - 1] * Base + bytes[i]
    <3>1. i # 0 /\ i \in 0..N
      BY <1>1
    <3>2. u[i] = IF i = 0 THEN 0 ELSE u[i - 1] * Base + bytes[i]
      BY <1>6, <3>1, Zenon
    <3> QED BY <3>1, <3>2
  <2> QED BY <2>1, <2>2
<1>9. 0 \in S /\ \A n \in Nat : n \in S => n + 1 \in S
  <2>1. ASSUME NEW n \in Nat, n + 1 \in 0..N, u[n] \in Nat PROVE u[n + 1] \in Nat
    <3>1. (n + 1) - 1 = n /\ n + 1 \in 1..N
      BY <1>1, <2>1
    <3>2. u[n + 1] = u[n] * Base + bytes[n + 1]
      BY <1>8, <3>1
    <3> QED BY <1>2, <2>1, <3>1, <3>2
  <2> QED BY <1>1, <1>8, <2>1
<1> HIDE DEF S
<1>10. \A n \in 0..N : u[n] \in Nat
  <2>1. \A n \in Nat : n \in S
    BY <1>9, SetInduction
  <2> QED BY <1>1, <2>1 DEF S
<1>11. Values(bytes, u)
  <2>1. u \in [0..N -> Nat]
    BY <1>6, <1>10
  <2> QED BY <1>8, <2>1 DEF Values, N
<1> QED BY <1>7, <1>11 DEF N

LEMMA UintIs ==
  ASSUME NEW bytes \in Seq(Byte)
  PROVE  Uint(bytes) \in Nat
<1>1. PICK u : Values(bytes, u) /\ Uint(bytes) = u[Len(bytes)]
  BY UintSteps
<1>2. Len(bytes) \in 0..Len(bytes)
  BY LenProperties
<1> QED BY <1>1, <1>2 DEF Values

ParsedBlock == [id : Nat, length : Nat, data : Seq(Byte)]
ParserState == [ok : BOOLEAN, offset : Nat, sessions : Seq(ParsedBlock)]
Start == [ok |-> TRUE, offset |-> 2, sessions |-> <<>>]

\* Where the fields of a block lie that begins after the first bytes of a message.
IdAt(text, from) == Uint(SubSeq(text, from + 1, from + IdBytes))
LengthAt(text, from) == Uint(SubSeq(text, from + IdBytes + 1, from + HeaderLen))
EndAt(text, from) == from + HeaderLen + LengthAt(text, from)
BlockAt(text, from) ==
  [id |-> IdAt(text, from), length |-> LengthAt(text, from),
   data |-> SubSeq(text, from + HeaderLen + 1, EndAt(text, from))]
FitsAt(text, from) == from + HeaderLen <= Len(text) /\ EndAt(text, from) <= Len(text)

LEMMA Widths == IdBytes \in Nat /\ LenBytes \in Nat /\ HeaderLen \in Nat /\ IdBytes <= HeaderLen
BY CodecAssumption DEF HeaderLen

\* A part of a message.
LEMMA Part ==
  ASSUME NEW text \in Seq(Byte), NEW m \in Nat \ {0}, NEW n \in Nat, n <= Len(text)
  PROVE  SubSeq(text, m, n) \in Seq(Byte)
<1>1. \A i \in m..n : text[i] \in Byte
  <2> SUFFICES ASSUME NEW i \in m..n PROVE text[i] \in Byte
    OBVIOUS
  <2>1. i \in 1..Len(text)
    BY LenProperties
  <2> QED BY <2>1, ElementOfSeq
<1> QED BY <1>1, SubSeqProperties

LEMMA FieldTypes ==
  ASSUME NEW text \in Seq(Byte), NEW from \in Nat, from + HeaderLen <= Len(text)
  PROVE  /\ IdAt(text, from) \in Nat /\ LengthAt(text, from) \in Nat /\ EndAt(text, from) \in Nat
         /\ FitsAt(text, from) => BlockAt(text, from) \in ParsedBlock
<1>0. Len(text) \in Nat
  BY LenProperties
<1>1. SubSeq(text, from + 1, from + IdBytes) \in Seq(Byte)
  BY <1>0, Widths, Part
<1>2. SubSeq(text, from + IdBytes + 1, from + HeaderLen) \in Seq(Byte)
  BY <1>0, Widths, Part
<1>3. IdAt(text, from) \in Nat /\ LengthAt(text, from) \in Nat
  BY <1>1, <1>2, UintIs DEF IdAt, LengthAt
<1>4. EndAt(text, from) \in Nat
  BY <1>3, Widths DEF EndAt
<1>5. ASSUME FitsAt(text, from)
      PROVE  SubSeq(text, from + HeaderLen + 1, EndAt(text, from)) \in Seq(Byte)
  BY <1>0, <1>4, <1>5, Widths, Part DEF FitsAt
<1> QED BY <1>3, <1>4, <1>5 DEF BlockAt, ParsedBlock

\* The loop body takes the block at the offset, if it fits.
LEMMA GetBlockIs ==
  ASSUME NEW text \in Seq(Byte), NEW st \in ParserState
  PROVE  /\ GetBlock(text, st) \in ParserState
         /\ GetBlock(text, st) =
              IF st.ok /\ FitsAt(text, st.offset)
                THEN [ok |-> TRUE, offset |-> EndAt(text, st.offset),
                      sessions |-> Append(st.sessions, BlockAt(text, st.offset))]
                ELSE [st EXCEPT !.ok = FALSE]
<1> DEFINE from == st.offset
<1>1. from \in Nat /\ st.ok \in BOOLEAN /\ st.sessions \in Seq(ParsedBlock) /\ Len(text) \in Nat
  BY LenProperties DEF ParserState
<1>2. from + HeaderLen \in Nat
  BY <1>1, Widths
<1>3. CASE from + HeaderLen > Len(text)
  <2>1. ~FitsAt(text, from)
    BY <1>1, <1>2, <1>3 DEF FitsAt
  <2>2. GetBlock(text, st) = [st EXCEPT !.ok = FALSE]
    BY <1>3 DEF GetBlock
  <2>3. [st EXCEPT !.ok = FALSE] \in ParserState
    BY DEF ParserState
  <2> QED BY <2>1, <2>2, <2>3
<1>4. CASE ~(from + HeaderLen > Len(text))
  <2>1. from + HeaderLen <= Len(text)
    BY <1>1, <1>2, <1>4
  <2>2. /\ LengthAt(text, from) \in Nat /\ EndAt(text, from) \in Nat
        /\ FitsAt(text, from) => BlockAt(text, from) \in ParsedBlock
    BY <1>1, <2>1, FieldTypes
  <2>3. FitsAt(text, from) <=> ~(EndAt(text, from) > Len(text))
    BY <1>1, <2>1, <2>2 DEF FitsAt
  <2>4. GetBlock(text, st) =
          IF ~st.ok \/ from + HeaderLen > Len(text) \/ EndAt(text, from) > Len(text)
            THEN [st EXCEPT !.ok = FALSE]
            ELSE [ok |-> TRUE, offset |-> EndAt(text, from),
                  sessions |-> Append(st.sessions, BlockAt(text, from))]
    BY DEF GetBlock, EndAt, LengthAt, IdAt, BlockAt
  <2>5. CASE st.ok /\ FitsAt(text, from)
    <3>1. Append(st.sessions, BlockAt(text, from)) \in Seq(ParsedBlock)
      BY <1>1, <2>2, <2>5, AppendProperties
    <3> QED BY <1>4, <2>2, <2>3, <2>4, <2>5, <3>1 DEF ParserState
  <2>6. CASE ~(st.ok /\ FitsAt(text, from))
    <3>1. GetBlock(text, st) = [st EXCEPT !.ok = FALSE]
      BY <1>4, <2>3, <2>4, <2>6
    <3>2. [st EXCEPT !.ok = FALSE] \in ParserState
      BY DEF ParserState
    <3> QED BY <2>6, <3>1, <3>2
  <2> QED BY <2>5, <2>6
<1> QED BY <1>3, <1>4

\* The offsets at which the first n blocks of a message begin, and at which the last ends.
Offsets(text, n, o) == /\ o \in [0..n -> Nat] /\ o[0] = 2
                       /\ \A i \in 1..n : FitsAt(text, o[i - 1]) /\ o[i] = EndAt(text, o[i - 1])

\* The frame whose blocks begin there.
FrameAt(text, o) == [type |-> text[1], count |-> text[2],
                     sessions |-> [i \in 1..text[2] |-> BlockAt(text, o[i - 1])]]

LEMMA CountType ==
  ASSUME NEW text \in Seq(Byte), Len(text) >= 2
  PROVE  text[2] \in Nat
<1>1. 2 \in 1..Len(text)
  BY LenProperties
<1>2. text[2] \in Byte
  BY <1>1, ElementOfSeq
<1> QED BY <1>2 DEF Byte

\* The loop of a parser.
Loop(text, a) == /\ a \in [0..text[2] -> ParserState] /\ a[0] = Start
                 /\ \A i \in 1..text[2] : a[i] = GetBlock(text, a[i - 1])

LEMMA LoopIs ==
  ASSUME NEW text \in Seq(Byte), Len(text) >= 2
  PROVE  \E a : /\ Loop(text, a)
                /\ Deserialize(text) =
                     IF a[text[2]].ok
                       THEN [type |-> text[1], count |-> text[2], sessions |-> a[text[2]].sessions]
                       ELSE Rejected
<1> DEFINE N == text[2]
           F == [i \in Nat |-> [st \in ParserState |-> GetBlock(text, st)]]
<1>1. N \in Nat
  BY CountType
<1>2. Start \in ParserState
  BY EmptySeq DEF Start, ParserState
<1>3. Steps(F, ParserState) /\ \A i \in Nat, st \in ParserState : F[i][st] = GetBlock(text, st)
  BY GetBlockIs DEF Steps
<1>4. PICK g : g \in [0..N -> ParserState] /\ g[0] = Start /\ \A i \in 1..N : g[i] = F[i][g[i - 1]]
  <2> HIDE DEF F, N
  <2>1. \E g : Follows(g, N, ParserState, Start, F)
    BY <1>1, <1>2, <1>3, Recursion
  <2> QED BY <2>1 DEF Follows
<1> HIDE DEF F
<1>5. \A i \in 1..N : g[i] = GetBlock(text, g[i - 1])
  <2> SUFFICES ASSUME NEW i \in 1..N PROVE g[i] = GetBlock(text, g[i - 1])
    OBVIOUS
  <2>1. i \in Nat /\ i - 1 \in 0..N
    BY <1>1
  <2>2. g[i - 1] \in ParserState
    BY <1>4, <2>1
  <2> QED BY <1>3, <1>4, <2>1, <2>2
<1>6. g = [i \in 0..N |-> IF i = 0 THEN Start ELSE GetBlock(text, g[i - 1])]
  <2>1. ASSUME NEW i \in 0..N, i # 0 PROVE g[i] = GetBlock(text, g[i - 1])
    <3>1. i \in 1..N
      BY <1>1, <2>1
    <3> QED BY <1>5, <3>1
  <2>2. \A i \in 0..N : g[i] = IF i = 0 THEN Start ELSE GetBlock(text, g[i - 1])
    BY <1>4, <2>1
  <2> QED BY <1>4, <2>2
<1> DEFINE after[i \in 0..text[2]] == IF i = 0 THEN [ok |-> TRUE, offset |-> 2, sessions |-> <<>>]
                                      ELSE GetBlock(text, after[i-1])
<1>7. after = [i \in 0..N |-> IF i = 0 THEN Start ELSE GetBlock(text, after[i - 1])]
  BY <1>6, Zenon DEF Start
<1>8. Deserialize(text) =
        IF after[N].ok THEN [type |-> text[1], count |-> text[2], sessions |-> after[N].sessions]
                       ELSE Rejected
  <2>1. ~(Len(text) < 2)
    BY LenProperties
  <2> QED BY <2>1, Zenon DEF Deserialize
<1> HIDE DEF after, N
<1> DEFINE S == {n \in Nat : n \in 0..N => after[n] = g[n]}
<1>9. 0 \in S /\ \A n \in Nat : n \in S => n + 1 \in S
  <2>1. 0 \in 0..N => after[0] = g[0]
    BY <1>4, <1>7
  <2>2. ASSUME NEW n \in Nat, n + 1 \in 0..N, after[n] = g[n] PROVE after[n + 1] = g[n + 1]
    <3>1. n + 1 # 0 /\ (n + 1) - 1 = n /\ n + 1 \in 1..N
      BY <1>1, <2>2
    <3>2. after[n + 1] = IF n + 1 = 0 THEN Start ELSE GetBlock(text, after[(n + 1) - 1])
      BY <1>7, <2>2, Zenon
    <3>3. after[n + 1] = GetBlock(text, after[n])
      BY <3>1, <3>2
    <3>4. g[n + 1] = GetBlock(text, g[(n + 1) - 1])
      BY <1>5, <3>1
    <3> QED BY <2>2, <3>1, <3>3, <3>4
  <2> QED BY <1>1, <2>1, <2>2
<1> HIDE DEF S
<1>10. after[N] = g[N]
  <2>1. N \in S
    BY <1>1, <1>9, SetInduction
  <2> QED BY <1>1, <2>1 DEF S
<1>11. Loop(text, g)
  BY <1>4, <1>5 DEF Loop, N
<1> QED BY <1>8, <1>10, <1>11, Zenon DEF N

\* Blocks are taken one after the other, as long as they fit.
LEMMA LoopOffsets ==
  ASSUME NEW text \in Seq(Byte), text[2] \in Nat, NEW a, Loop(text, a), a[text[2]].ok
  PROVE  LET o == [i \in 0..text[2] |-> a[i].offset]
         IN /\ Offsets(text, text[2], o)
            /\ a[text[2]].sessions = [i \in 1..text[2] |-> BlockAt(text, o[i - 1])]
<1> DEFINE N == text[2]
           Good(n) == /\ \A i \in 1..n : FitsAt(text, a[i - 1].offset)
                                         /\ a[i].offset = EndAt(text, a[i - 1].offset)
                      /\ a[n].sessions = [i \in 1..n |-> BlockAt(text, a[i - 1].offset)]
           S == {n \in Nat : n \in 0..N /\ a[n].ok => Good(n)}
<1>1. /\ a \in [0..N -> ParserState] /\ a[0] = Start /\ N \in Nat /\ a[N].ok
      /\ \A i \in 1..N : a[i] = GetBlock(text, a[i - 1])
  BY DEF Loop
<1> HIDE DEF N
<1>2. 0 \in S
  <2>1. a[0].sessions = <<>>
    BY <1>1 DEF Start
  <2>2. Good(0)
    BY <2>1
  <2> QED BY <2>2
<1>3. ASSUME NEW n \in Nat, n \in S PROVE n + 1 \in S
  <2> SUFFICES ASSUME n + 1 \in 0..N, a[n + 1].ok PROVE Good(n + 1)
    OBVIOUS
  <2> DEFINE st == a[n]
             f == st.offset
  <2>1. n \in 0..N /\ n + 1 \in 1..N /\ (n + 1) - 1 = n
    BY <1>1
  <2>2. st \in ParserState /\ a[n + 1] = GetBlock(text, st)
    BY <1>1, <2>1
  <2>3. st.ok /\ FitsAt(text, f)
    <3> SUFFICES ASSUME ~(st.ok /\ FitsAt(text, f)) PROVE FALSE
      OBVIOUS
    <3>1. a[n + 1] = [st EXCEPT !.ok = FALSE]
      BY <2>2, GetBlockIs
    <3>2. a[n + 1].ok = FALSE
      BY <2>2, <3>1 DEF ParserState
    <3> QED BY <3>2
  <2>4. /\ a[n + 1].offset = EndAt(text, f)
        /\ a[n + 1].sessions = Append(st.sessions, BlockAt(text, f))
    <3>1. a[n + 1] = [ok |-> TRUE, offset |-> EndAt(text, f),
                      sessions |-> Append(st.sessions, BlockAt(text, f))]
      BY <2>2, <2>3, GetBlockIs
    <3> QED BY <3>1
  <2>5. Good(n)
    BY <1>3, <2>1, <2>3
  <2>6. \A i \in 1..n+1 : /\ FitsAt(text, a[i - 1].offset)
                         /\ a[i].offset = EndAt(text, a[i - 1].offset)
    <3> SUFFICES ASSUME NEW i \in 1..n+1
                 PROVE  FitsAt(text, a[i - 1].offset) /\ a[i].offset = EndAt(text, a[i - 1].offset)
      OBVIOUS
    <3>1. CASE i = n + 1
      BY <2>1, <2>3, <2>4, <3>1
    <3>2. CASE i # n + 1
      <4>1. i \in 1..n
        BY <3>2
      <4> QED BY <2>5, <4>1
    <3> QED BY <3>1, <3>2
  <2>7. a[n + 1].sessions = [i \in 1..n+1 |-> BlockAt(text, a[i - 1].offset)]
    <3> DEFINE B(i) == BlockAt(text, a[i - 1].offset)
               s == st.sessions
    <3>1. s = [i \in 1..n |-> B(i)] /\ B(n + 1) = BlockAt(text, f)
      BY <2>1, <2>5
    <3>2. s \in Seq(ParsedBlock) /\ Len(s) = n
      <4>1. s \in Seq(ParsedBlock)
        BY <2>2 DEF ParserState
      <4>2. DOMAIN s = 1..n
        BY <3>1
      <4> QED BY <4>1, <4>2, LenProperties
    <3>3. B(n + 1) \in ParsedBlock
      <4>1. f \in Nat /\ f + HeaderLen <= Len(text)
        BY <2>2, <2>3 DEF ParserState, FitsAt
      <4> QED BY <2>3, <3>1, <4>1, FieldTypes
    <3> DEFINE e == B(n + 1)
               t == Append(s, e)
    <3>4. a[n + 1].sessions = t
      BY <2>4, <3>1
    <3>5. \A i \in 1..n : s[i] = B(i)
      BY <3>1
    <3> HIDE DEF s, e
    <3>6. t \in Seq(ParsedBlock) /\ Len(t) = n + 1 /\ (\A i \in 1..n : t[i] = s[i]) /\ t[n + 1] = e
      BY <3>2, <3>3, AppendProperties DEF e
    <3> HIDE DEF t
    <3>7. DOMAIN t = 1..n+1 /\ t = [i \in 1..n+1 |-> t[i]]
      BY <3>6, LenProperties
    <3>8. \A i \in 1..n+1 : t[i] = B(i)
      <4> SUFFICES ASSUME NEW i \in 1..n+1 PROVE t[i] = B(i)
        OBVIOUS
      <4>1. CASE i = n + 1
        BY <3>6, <4>1 DEF e
      <4>2. CASE i # n + 1
        <5>1. i \in 1..n
          BY <4>2
        <5> QED BY <3>5, <3>6, <5>1
      <4> QED BY <4>1, <4>2
    <3> HIDE DEF B
    <3>9. t = [i \in 1..n+1 |-> B(i)]
      BY <3>7, <3>8
    <3> QED BY <3>4, <3>9 DEF B
  <2> QED BY <2>6, <2>7
<1> HIDE DEF S
<1>4. N \in S
  BY <1>1, <1>2, <1>3, SetInduction
<1>5. Good(N)
  BY <1>1, <1>4 DEF S
<1> HIDE DEF Good
<1> DEFINE o == [i \in 0..N |-> a[i].offset]
<1>6. /\ \A i \in 1..N : FitsAt(text, a[i - 1].offset) /\ a[i].offset = EndAt(text, a[i - 1].offset)
      /\ a[N].sessions = [i \in 1..N |-> BlockAt(text, a[i - 1].offset)]
  BY <1>5 DEF Good
<1>7. /\ \A i \in 0..N : o[i] = a[i].offset /\ o[i] \in Nat
      /\ \A i \in 1..N : o[i] = a[i].offset /\ o[i - 1] = a[i - 1].offset
      /\ o \in [0..N -> Nat] /\ o[0] = 2
  <2>1. \A i \in 0..N : a[i].offset \in Nat
    BY <1>1 DEF ParserState
  <2>2. a[0].offset = 2 /\ 0 \in 0..N /\ \A i \in 1..N : i \in 0..N /\ i - 1 \in 0..N
    BY <1>1 DEF Start
  <2> QED BY <2>1, <2>2
<1> HIDE DEF o
<1>8. Offsets(text, N, o)
  BY <1>6, <1>7 DEF Offsets
<1>9. a[N].sessions = [i \in 1..N |-> BlockAt(text, o[i - 1])]
  BY <1>6, <1>7
<1> QED BY <1>8, <1>9 DEF N, o

LEMMA LoopSucceeds ==
  ASSUME NEW text \in Seq(Byte), text[2] \in Nat, NEW a, Loop(text, a),
         NEW o, Offsets(text, text[2], o)
  PROVE  a[text[2]].ok
<1> DEFINE N == text[2]
           S == {n \in Nat : n \in 0..N => a[n].ok /\ a[n].offset = o[n]}
<1>1. /\ a \in [0..N -> ParserState] /\ a[0] = Start /\ N \in Nat
      /\ \A i \in 1..N : a[i] = GetBlock(text, a[i - 1])
  BY DEF Loop
<1>2. o[0] = 2 /\ \A i \in 1..N : FitsAt(text, o[i - 1]) /\ o[i] = EndAt(text, o[i - 1])
  BY DEF Offsets
<1> HIDE DEF N
<1>3. 0 \in S
  BY <1>1, <1>2 DEF Start
<1>4. ASSUME NEW n \in Nat, n \in S PROVE n + 1 \in S
  <2> SUFFICES ASSUME n + 1 \in 0..N PROVE a[n + 1].ok /\ a[n + 1].offset = o[n + 1]
    OBVIOUS
  <2>1. n \in 0..N /\ n + 1 \in 1..N /\ (n + 1) - 1 = n
    BY <1>1
  <2>2. a[n] \in ParserState /\ a[n + 1] = GetBlock(text, a[n]) /\ a[n].ok /\ a[n].offset = o[n]
    BY <1>1, <1>4, <2>1
  <2>3. FitsAt(text, o[n]) /\ o[n + 1] = EndAt(text, o[n])
    BY <1>2, <2>1
  <2>4. a[n + 1] = [ok |-> TRUE, offset |-> EndAt(text, a[n].offset),
                    sessions |-> Append(a[n].sessions, BlockAt(text, a[n].offset))]
    BY <2>2, <2>3, GetBlockIs
  <2> QED BY <2>2, <2>3, <2>4
<1> HIDE DEF S
<1>5. N \in S
  BY <1>1, <1>3, <1>4, SetInduction
<1> QED BY <1>1, <1>5 DEF S, N

\* A message is taken for a frame if and only if as many blocks as its second byte says fit
\* into it, one after the other; these blocks are the frame, byte for byte, and a parser that
\* rejects reports nothing at all.  That holds for every message, every byte size and every
\* width of the fields, of Deserialize and of parseFrame (pkg/codec/frame.go, parser.ts).
THEOREM ParsesExactly ==
  ASSUME NEW text \in Seq(Byte)
  PROVE  IF Len(text) >= 2 /\ \E o : Offsets(text, text[2], o)
           THEN \E o : Offsets(text, text[2], o) /\ parseFrame(text) = FrameAt(text, o)
           ELSE parseFrame(text) = Rejected
<1>1. CASE ~(Len(text) >= 2)
  <2>1. Len(text) < 2
    BY <1>1, LenProperties
  <2> QED BY <1>1, <2>1 DEF parseFrame, Deserialize
<1>2. CASE Len(text) >= 2
  <2>0. text[2] \in Nat
    BY <1>2, CountType
  <2>1. PICK a : /\ Loop(text, a)
                 /\ Deserialize(text) =
                      IF a[text[2]].ok
                        THEN [type |-> text[1], count |-> text[2], sessions |-> a[text[2]].sessions]
                        ELSE Rejected
    BY <1>2, LoopIs
  <2>2. CASE a[text[2]].ok
    <3> DEFINE o == [i \in 0..text[2] |-> a[i].offset]
    <3>1. /\ Offsets(text, text[2], o)
          /\ a[text[2]].sessions = [i \in 1..text[2] |-> BlockAt(text, o[i - 1])]
      BY <2>0, <2>1, <2>2, LoopOffsets
    <3>2. Deserialize(text)
            = [type |-> text[1], count |-> text[2], sessions |-> a[text[2]].sessions]
      BY <2>1, <2>2
    <3> HIDE DEF o
    <3>3. parseFrame(text) = FrameAt(text, o)
      BY <3>1, <3>2 DEF parseFrame, FrameAt
    <3> QED BY <1>2, <3>1, <3>3
  <2>3. CASE ~a[text[2]].ok
    <3>1. ~\E o : Offsets(text, text[2], o)
      BY <2>0, <2>1, <2>3, LoopSucceeds
    <3> QED BY <2>1, <2>3, <3>1 DEF parseFrame
  <2> QED BY <2>2, <2>3
<1> QED BY <1>1, <1>2

\* The beginning of a message.
LEMMA Beginning ==
  ASSUME NEW text \in Seq(Byte), NEW n \in 0..Len(text)
  PROVE  /\ SubSeq(text, 1, n) \in Seq(Byte) /\ Len(SubSeq(text, 1, n)) = n
         /\ \A i \in 1..n : SubSeq(text, 1, n)[i] = text[i]
<1> DEFINE p == SubSeq(text, 1, n)
<1>0. Len(text) \in Nat /\ n \in Nat /\ n <= Len(text)
  BY LenProperties
<1>1. \A i \in 1..n : text[i] \in Byte
  <2> SUFFICES ASSUME NEW i \in 1..n PROVE text[i] \in Byte
    OBVIOUS
  <2>1. i \in 1..Len(text)
    BY <1>0
  <2> QED BY <2>1, ElementOfSeq
<1>2. /\ p \in Seq(Byte) /\ Len(p) = (IF 1 <= n THEN n - 1 + 1 ELSE 0)
      /\ \A i \in 1..n-1+1 : p[i] = text[1 + i - 1]
  BY <1>0, <1>1, SubSeqProperties
<1>3. Len(p) = n
  BY <1>0, <1>2
<1>4. ASSUME NEW i \in 1..n PROVE p[i] = text[i]
  <2>1. i \in 1..n-1+1 /\ 1 + i - 1 = i
    BY <1>0
  <2> QED BY <1>2, <2>1
<1> QED BY <1>2, <1>3, <1>4

\* The beginning of a message has the same fields, where it has them.
LEMMA SameFields ==
  ASSUME NEW text \in Seq(Byte), NEW n \in 0..Len(text), NEW from \in Nat, from + HeaderLen <= n
  PROVE  LET p == SubSeq(text, 1, n)
         IN /\ p \in Seq(Byte) /\ Len(p) = n
            /\ EndAt(p, from) = EndAt(text, from)
            /\ EndAt(text, from) <= n =>
                 /\ FitsAt(p, from) /\ FitsAt(text, from)
                 /\ BlockAt(p, from) = BlockAt(text, from)
<1> DEFINE p == SubSeq(text, 1, n)
<1>0. Len(text) \in Nat /\ n \in Nat /\ n <= Len(text)
  BY LenProperties
<1>1. /\ p \in Seq(Byte) /\ Len(p) = n
      /\ \A i \in 1..n : p[i] = text[i]
  BY Beginning
<1> HIDE DEF p
<1>2. ASSUME NEW l \in Nat \ {0}, NEW r \in Nat, r <= n PROVE SubSeq(p, l, r) = SubSeq(text, l, r)
  <2> DEFINE s == SubSeq(p, l, r)
             t == SubSeq(text, l, r)
  <2>1. \A i \in l..r : i \in 1..n /\ i \in 1..Len(text)
    BY <1>0, <1>2
  <2>2. \A i \in l..r : p[i] = text[i] /\ p[i] \in Byte /\ text[i] \in Byte
    BY <1>1, <2>1, ElementOfSeq
  <2>3. /\ s \in Seq(Byte) /\ Len(s) = (IF l <= r THEN r - l + 1 ELSE 0)
        /\ \A i \in 1..r-l+1 : s[i] = p[l + i - 1]
    BY <2>2, SubSeqProperties
  <2>4. /\ t \in Seq(Byte) /\ Len(t) = (IF l <= r THEN r - l + 1 ELSE 0)
        /\ \A i \in 1..r-l+1 : t[i] = text[l + i - 1]
    BY <2>2, SubSeqProperties
  <2> HIDE DEF s, t
  <2>5. \A i \in 1..Len(s) : s[i] = t[i]
    <3> SUFFICES ASSUME NEW i \in 1..Len(s) PROVE s[i] = t[i]
      OBVIOUS
    <3>1. i \in 1..r-l+1 /\ l + i - 1 \in l..r
      BY <2>3
    <3> QED BY <2>2, <2>3, <2>4, <3>1
  <2>6. s = t
    BY <2>3, <2>4, <2>5, SeqEqual
  <2> QED BY <2>6 DEF s, t
<1>3. IdAt(p, from) = IdAt(text, from) /\ LengthAt(p, from) = LengthAt(text, from)
  <2>1. SubSeq(p, from + 1, from + IdBytes) = SubSeq(text, from + 1, from + IdBytes)
    <3>1. from + 1 \in Nat \ {0} /\ from + IdBytes \in Nat /\ from + IdBytes <= n
      BY <1>0, Widths
    <3> QED BY <1>2, <3>1
  <2>2. SubSeq(p, from + IdBytes + 1, from + HeaderLen)
          = SubSeq(text, from + IdBytes + 1, from + HeaderLen)
    <3>1. from + IdBytes + 1 \in Nat \ {0} /\ from + HeaderLen \in Nat
      BY <1>0, Widths
    <3> QED BY <1>2, <3>1
  <2> QED BY <2>1, <2>2 DEF IdAt, LengthAt
<1>4. EndAt(p, from) = EndAt(text, from)
  BY <1>3 DEF EndAt
<1>5. from + HeaderLen <= Len(text) /\ from + HeaderLen \in Nat
  BY <1>0, Widths
<1>6. EndAt(text, from) \in Nat
  BY <1>5, FieldTypes
<1>7. ASSUME EndAt(text, from) <= n
      PROVE  FitsAt(p, from) /\ FitsAt(text, from) /\ BlockAt(p, from) = BlockAt(text, from)
  <2>1. EndAt(text, from) <= Len(text)
    BY <1>0, <1>6, <1>7
  <2>2. FitsAt(p, from) /\ FitsAt(text, from)
    BY <1>1, <1>4, <1>5, <1>7, <2>1 DEF FitsAt
  <2>3. SubSeq(p, from + HeaderLen + 1, EndAt(text, from))
          = SubSeq(text, from + HeaderLen + 1, EndAt(text, from))
    <3>1. from + HeaderLen + 1 \in Nat \ {0}
      BY <1>5
    <3> QED BY <1>2, <1>6, <1>7, <3>1
  <2> QED BY <1>3, <1>4, <2>2, <2>3 DEF BlockAt
<1> QED BY <1>1, <1>4, <1>7 DEF p

\* The blocks of a message begin where they begin.
LEMMA OffsetsUnique ==
  ASSUME NEW text \in Seq(Byte), NEW N \in Nat, NEW o, Offsets(text, N, o),
         NEW q, Offsets(text, N, q), NEW i \in 0..N
  PROVE  q[i] = o[i]
<1> DEFINE S == {n \in Nat : n \in 0..N => q[n] = o[n]}
<1>1. /\ o[0] = 2 /\ q[0] = 2
      /\ \A j \in 1..N : o[j] = EndAt(text, o[j - 1]) /\ q[j] = EndAt(text, q[j - 1])
  BY DEF Offsets
<1>2. 0 \in S
  BY <1>1
<1>3. ASSUME NEW n \in Nat, n \in S PROVE n + 1 \in S
  <2> SUFFICES ASSUME n + 1 \in 0..N PROVE q[n + 1] = o[n + 1]
    OBVIOUS
  <2>1. n \in 0..N /\ n + 1 \in 1..N /\ (n + 1) - 1 = n
    OBVIOUS
  <2>2. o[n + 1] = EndAt(text, o[n]) /\ q[n + 1] = EndAt(text, q[n])
    BY <1>1, <2>1
  <2> QED BY <1>3, <2>1, <2>2
<1> HIDE DEF S
<1>4. i \in S
  BY <1>2, <1>3, SetInduction
<1> QED BY <1>4 DEF S

\* No block begins or ends behind the end of the last one.
LEMMA OffsetsBound ==
  ASSUME NEW text \in Seq(Byte), NEW N \in Nat, NEW o, Offsets(text, N, o), NEW i \in 0..N
  PROVE  o[i] \in Nat /\ o[i] <= o[N]
<1> DEFINE S == {k \in Nat : k \in 0..N => o[N - k] <= o[N]}
<1>1. /\ \A j \in 0..N : o[j] \in Nat
      /\ \A j \in 1..N : FitsAt(text, o[j - 1]) /\ o[j] = EndAt(text, o[j - 1])
  BY DEF Offsets
<1>2. 0 \in S
  BY <1>1
<1>3. ASSUME NEW k \in Nat, k \in S PROVE k + 1 \in S
  <2> SUFFICES ASSUME k + 1 \in 0..N PROVE o[N - (k + 1)] <= o[N]
    OBVIOUS
  <2> DEFINE j == N - k
             f == o[j - 1]
  <2>1. j \in 1..N /\ j \in 0..N /\ j - 1 \in 0..N /\ N - (k + 1) = j - 1 /\ k \in 0..N
    OBVIOUS
  <2>2. o[j] <= o[N] /\ o[j] \in Nat /\ f \in Nat /\ o[N] \in Nat
    BY <1>1, <1>3, <2>1
  <2>3. FitsAt(text, f) /\ o[j] = EndAt(text, f)
    BY <1>1, <2>1
  <2>4. LengthAt(text, f) \in Nat
    BY <2>2, <2>3, FieldTypes DEF FitsAt
  <2>5. f <= o[j]
    BY <2>2, <2>3, <2>4, Widths DEF EndAt
  <2> QED BY <2>1, <2>2, <2>5
<1> HIDE DEF S
<1>4. N - i \in S /\ N - i \in 0..N /\ N - (N - i) = i
  BY <1>2, <1>3, SetInduction
<1> QED BY <1>1, <1>4 DEF S

\* A frame that is cut short is rejected as a whole, and what follows its last block changes
\* nothing: the beginnings of a message with a frame in it are rejected while they end before
\* that block, and have the same frame from there on.
THEOREM CutFrames ==
  ASSUME NEW text \in Seq(Byte), Len(text) >= 2, NEW o, Offsets(text, text[2], o),
         NEW n \in 0..Len(text)
  PROVE  parseFrame(SubSeq(text, 1, n)) = IF n < o[text[2]] THEN Rejected ELSE FrameAt(text, o)
<1> DEFINE p == SubSeq(text, 1, n)
           N == text[2]
<1>0. N \in Nat /\ n \in Nat /\ Len(text) \in Nat /\ n <= Len(text)
  BY CountType, LenProperties
<1>1. /\ p \in Seq(Byte) /\ Len(p) = n
      /\ \A i \in 1..n : p[i] = text[i]
  BY Beginning
<1>2. n >= 2 => p[1] = text[1] /\ p[2] = N
  BY <1>0, <1>1
<1>3. ASSUME NEW from \in Nat, from + HeaderLen <= n
      PROVE  /\ EndAt(p, from) = EndAt(text, from) /\ EndAt(text, from) \in Nat
             /\ EndAt(text, from) <= n =>
                  FitsAt(p, from) /\ FitsAt(text, from) /\ BlockAt(p, from) = BlockAt(text, from)
  <2>1. from + HeaderLen <= Len(text)
    BY <1>0, <1>3, Widths
  <2> QED BY <1>3, <2>1, SameFields, FieldTypes
<1>4. /\ o \in [0..N -> Nat] /\ o[0] = 2
      /\ \A i \in 1..N : FitsAt(text, o[i - 1]) /\ o[i] = EndAt(text, o[i - 1])
  BY DEF Offsets
<1>5. \A i \in 0..N : o[i] \in Nat /\ o[i] <= o[N]
  BY <1>0, OffsetsBound
<1> HIDE DEF p, N
<1>6. CASE ~(n < o[N])
  <2>1. o[N] <= n /\ n >= 2
    BY <1>0, <1>4, <1>5, <1>6
  <2>2. ASSUME NEW i \in 1..N
        PROVE  /\ FitsAt(p, o[i - 1]) /\ o[i] = EndAt(p, o[i - 1])
               /\ BlockAt(p, o[i - 1]) = BlockAt(text, o[i - 1])
    <3> DEFINE f == o[i - 1]
    <3>1. f \in Nat /\ o[i] \in Nat /\ o[i] <= n
      BY <1>0, <1>5, <2>1
    <3>2. FitsAt(text, f) /\ o[i] = EndAt(text, f)
      BY <1>4
    <3>3. LengthAt(text, f) \in Nat
      BY <3>1, <3>2, FieldTypes DEF FitsAt
    <3>4. f + HeaderLen <= n
      BY <1>0, <3>1, <3>2, <3>3, Widths DEF EndAt
    <3> QED BY <1>3, <3>1, <3>2, <3>4
  <2>3. Offsets(p, N, o)
    BY <1>4, <2>2 DEF Offsets
  <2>4. PICK q : Offsets(p, N, q) /\ parseFrame(p) = FrameAt(p, q)
    BY <1>1, <1>2, <2>1, <2>3, ParsesExactly
  <2>5. \A i \in 0..N : q[i] = o[i]
    BY <1>0, <1>1, <2>3, <2>4, OffsetsUnique
  <2>6. FrameAt(p, q) = FrameAt(text, o)
    <3>1. \A i \in 1..N : BlockAt(p, q[i - 1]) = BlockAt(text, o[i - 1])
      <4> SUFFICES ASSUME NEW i \in 1..N PROVE BlockAt(p, q[i - 1]) = BlockAt(text, o[i - 1])
        OBVIOUS
      <4>1. q[i - 1] = o[i - 1]
        BY <1>0, <2>5
      <4> QED BY <2>2, <4>1
    <3>2. [i \in 1..N |-> BlockAt(p, q[i - 1])] = [i \in 1..N |-> BlockAt(text, o[i - 1])]
      BY <3>1
    <3>3. p[1] = text[1] /\ p[2] = N /\ text[2] = N
      BY <1>2, <2>1 DEF N
    <3> QED BY <3>2, <3>3 DEF FrameAt
  <2> QED BY <1>6, <2>4, <2>6 DEF p, N
<1>7. CASE n < o[N]
  <2> SUFFICES ASSUME parseFrame(p) # Rejected PROVE FALSE
    BY <1>7 DEF p, N
  <2>1. PICK q : Len(p) >= 2 /\ Offsets(p, p[2], q)
    BY <1>1, ParsesExactly
  <2>2. n >= 2 /\ Offsets(p, N, q)
    BY <1>1, <1>2, <2>1
  <2>3. /\ q \in [0..N -> Nat] /\ q[0] = 2
        /\ \A i \in 1..N : FitsAt(p, q[i - 1]) /\ q[i] = EndAt(p, q[i - 1])
    BY <2>2 DEF Offsets
  <2>4. ASSUME NEW i \in 1..N PROVE q[i - 1] \in Nat /\ q[i] <= n /\ q[i] = EndAt(text, q[i - 1])
                                    /\ FitsAt(text, q[i - 1])
    <3> DEFINE f == q[i - 1]
    <3>1. f \in Nat /\ FitsAt(p, f) /\ q[i] = EndAt(p, f)
      BY <1>0, <2>3
    <3>2. f + HeaderLen <= n /\ EndAt(p, f) <= n
      BY <1>1, <3>1 DEF FitsAt
    <3> QED BY <1>3, <3>1, <3>2
  <2>5. Offsets(text, N, q)
    BY <2>3, <2>4 DEF Offsets
  <2>6. q[N] = o[N]
    <3>1. Offsets(text, N, o) /\ N \in 0..N
      BY <1>0 DEF N
    <3> QED BY <1>0, <2>5, <3>1, OffsetsUnique
  <2>7. q[N] <= n
    BY <1>0, <2>2, <2>3, <2>4
  <2> QED BY <1>0, <1>5, <1>7, <2>6, <2>7
<1> QED BY <1>6, <1>7

-----------------------------------------------------------------------------
(* What Serialize writes *)

\* Division by the number of values of a byte.
LEMMA Division ==
  /\ \A n \in Nat : /\ n \div Base \in Nat /\ n % Base \in Byte
                    /\ (n \div Base) * Base + (n % Base) = n
  /\ \A n \in Nat, r \in Byte : (n * Base + r) \div Base = n /\ (n * Base + r) % Base = r
<1>1. Base \in Nat /\ Base > 0
  BY CodecAssumption
<1>2. ASSUME NEW n \in Nat PROVE n \div Base \in Nat /\ n % Base \in Byte
                                 /\ (n \div Base) * Base + (n % Base) = n
  BY <1>1 DEF Byte
<1>3. ASSUME NEW n \in Nat, NEW r \in Byte
      PROVE  (n * Base + r) \div Base = n /\ (n * Base + r) % Base = r
  BY <1>1 DEF Byte
<1> QED BY <1>2, <1>3

LEMMA Shifts ==
  ASSUME NEW n \in Nat, NEW w \in Nat
  PROVE  \E q : /\ q \in [0..w -> Nat] /\ q[0] = n /\ \A j \in 1..w : q[j] = q[j - 1] \div Base
                /\ ShiftBytes(n, w) = q[w]
<1> DEFINE F == [i \in Nat |-> [k \in Nat |-> k \div Base]]
           q[j \in 0..w] == IF j = 0 THEN n ELSE q[j-1] \div Base
           S == {j \in Nat : j \in 0..w => q[j] \in Nat}
<1>1. Steps(F, Nat) /\ \A i \in Nat, k \in Nat : F[i][k] = k \div Base
  BY Division DEF Steps
<1>2. PICK g : g \in [0..w -> Nat] /\ g[0] = n /\ \A i \in 1..w : g[i] = F[i][g[i - 1]]
  <2> HIDE DEF F
  <2>1. \E g : Follows(g, w, Nat, n, F)
    BY <1>1, Recursion
  <2> QED BY <2>1 DEF Follows
<1> HIDE DEF F
<1>3. g = [j \in 0..w |-> IF j = 0 THEN n ELSE g[j - 1] \div Base]
  <2>1. ASSUME NEW j \in 0..w, j # 0 PROVE g[j] = g[j - 1] \div Base
    <3>1. j \in 1..w /\ j \in Nat /\ g[j - 1] \in Nat
      BY <1>2, <2>1
    <3> QED BY <1>1, <1>2, <3>1
  <2> QED BY <1>2, <2>1
<1>4. q = [j \in 0..w |-> IF j = 0 THEN n ELSE q[j - 1] \div Base]
  BY <1>3, Zenon
<1>5. ShiftBytes(n, w) = q[w]
  BY Zenon DEF ShiftBytes
<1> HIDE DEF q
<1>6. q[0] = n /\ \A j \in 1..w : q[j] = q[j - 1] \div Base
  <2>1. q[0] = n
    BY <1>4
  <2>2. ASSUME NEW j \in 1..w PROVE q[j] = q[j - 1] \div Base
    <3>1. j # 0 /\ j \in 0..w
      OBVIOUS
    <3>2. q[j] = IF j = 0 THEN n ELSE q[j - 1] \div Base
      BY <1>4, <3>1, Zenon
    <3> QED BY <3>1, <3>2
  <2> QED BY <2>1, <2>2
<1>7. 0 \in S /\ \A j \in Nat : j \in S => j + 1 \in S
  <2>1. ASSUME NEW j \in Nat, j + 1 \in 0..w, q[j] \in Nat PROVE q[j + 1] \in Nat
    <3>1. (j + 1) - 1 = j /\ j + 1 \in 1..w
      BY <2>1
    <3> QED BY <1>6, <2>1, <3>1, Division
  <2> QED BY <1>6, <2>1
<1> HIDE DEF S
<1>8. \A j \in 0..w : q[j] \in Nat
  <2>1. \A j \in Nat : j \in S
    BY <1>7, SetInduction
  <2> QED BY <2>1 DEF S
<1>9. q \in [0..w -> Nat]
  BY <1>4, <1>8
<1> QED BY <1>5, <1>6, <1>9

LEMMA ShiftStep ==
  ASSUME NEW n \in Nat
  PROVE  /\ ShiftBytes(n, 0) = n
         /\ \A w \in Nat : /\ ShiftBytes(n, w) \in Nat
                           /\ ShiftBytes(n, w + 1) = ShiftBytes(n, w) \div Base
<1>1. ShiftBytes(n, 0) = n
  BY Shifts
<1>2. ASSUME NEW w \in Nat
      PROVE  /\ ShiftBytes(n, w) \in Nat
             /\ ShiftBytes(n, w + 1) = ShiftBytes(n, w) \div Base
  <2>1. PICK p : /\ p \in [0..w -> Nat] /\ p[0] = n /\ \A j \in 1..w : p[j] = p[j - 1] \div Base
                 /\ ShiftBytes(n, w) = p[w]
    BY Shifts
  <2>2. PICK q : /\ q \in [0..w+1 -> Nat] /\ q[0] = n
                 /\ \A j \in 1..w+1 : q[j] = q[j - 1] \div Base
                 /\ ShiftBytes(n, w + 1) = q[w + 1]
    <3> DEFINE v == w + 1
    <3>1. v \in Nat
      OBVIOUS
    <3> HIDE DEF v
    <3>2. \E q : /\ q \in [0..v -> Nat] /\ q[0] = n /\ \A j \in 1..v : q[j] = q[j - 1] \div Base
                /\ ShiftBytes(n, v) = q[v]
      BY <3>1, Shifts
    <3> QED BY <3>2 DEF v
  <2> DEFINE S == {j \in Nat : j \in 0..w => p[j] = q[j]}
  <2>3. 0 \in S
    BY <2>1, <2>2
  <2>4. ASSUME NEW j \in Nat, j \in S PROVE j + 1 \in S
    <3> SUFFICES ASSUME j + 1 \in 0..w PROVE p[j + 1] = q[j + 1]
      OBVIOUS
    <3>1. j \in 0..w /\ j + 1 \in 1..w /\ j + 1 \in 1..w+1 /\ (j + 1) - 1 = j
      OBVIOUS
    <3>2. p[j + 1] = p[j] \div Base /\ q[j + 1] = q[j] \div Base
      BY <2>1, <2>2, <3>1
    <3> QED BY <2>4, <3>1, <3>2
  <2> HIDE DEF S
  <2>5. p[w] = q[w]
    <3>1. w \in S
      BY <2>3, <2>4, SetInduction
    <3> QED BY <3>1 DEF S
  <2>6. w + 1 \in 1..w+1 /\ (w + 1) - 1 = w /\ w \in 0..w
    OBVIOUS
  <2>7. q[w + 1] = q[w] \div Base
    BY <2>2, <2>6
  <2> QED BY <2>1, <2>2, <2>5, <2>6, <2>7
<1> QED BY <1>1, <1>2

\* The bytes of a number.
LEMMA PutUintIs ==
  ASSUME NEW n \in Nat, NEW w \in Nat
  PROVE  /\ PutUint(n, w) \in Seq(Byte) /\ Len(PutUint(n, w)) = w
         /\ \A i \in 1..w : PutUint(n, w)[i] = ShiftBytes(n, w - i) % Base
<1> DEFINE p == PutUint(n, w)
<1>1. \A i \in 1..w : ShiftBytes(n, w - i) % Base \in Byte
  <2> SUFFICES ASSUME NEW i \in 1..w PROVE ShiftBytes(n, w - i) % Base \in Byte
    OBVIOUS
  <2>1. w - i \in Nat
    OBVIOUS
  <2>2. ShiftBytes(n, w - i) \in Nat
    BY <2>1, ShiftStep
  <2> QED BY <2>2, Division
<1>2. p \in [1..w -> Byte] /\ \A i \in 1..w : p[i] = ShiftBytes(n, w - i) % Base
  BY <1>1 DEF PutUint
<1> HIDE DEF p
<1>3. p \in Seq(Byte) /\ Len(p) = w
  BY <1>2, SeqDef, LenProperties
<1> QED BY <1>2, <1>3 DEF p

\* A number that fits is what is read back.
LEMMA UintOfPut ==
  ASSUME NEW n \in Nat, NEW w \in Nat, ShiftBytes(n, w) = 0
  PROVE  Uint(PutUint(n, w)) = n
<1> DEFINE p == PutUint(n, w)
<1>1. /\ p \in Seq(Byte) /\ Len(p) = w
      /\ \A i \in 1..w : p[i] = ShiftBytes(n, w - i) % Base
  BY PutUintIs
<1> HIDE DEF p
<1>2. PICK u : Values(p, u) /\ Uint(p) = u[w]
  BY <1>1, UintSteps
<1>3. u[0] = 0 /\ \A i \in 1..w : u[i] = u[i - 1] * Base + p[i]
  BY <1>1, <1>2 DEF Values
<1> DEFINE S == {i \in Nat : i \in 0..w => u[i] = ShiftBytes(n, w - i)}
<1>4. 0 \in S
  <2>1. w - 0 = w
    OBVIOUS
  <2> QED BY <1>3, <2>1
<1>5. ASSUME NEW i \in Nat, i \in S PROVE i + 1 \in S
  <2> SUFFICES ASSUME i + 1 \in 0..w PROVE u[i + 1] = ShiftBytes(n, w - (i + 1))
    OBVIOUS
  <2> DEFINE v == w - (i + 1)
             m == ShiftBytes(n, v)
  <2>1. i \in 0..w /\ i + 1 \in 1..w /\ (i + 1) - 1 = i /\ v \in Nat /\ v + 1 = w - i
    OBVIOUS
  <2>2. m \in Nat /\ ShiftBytes(n, v + 1) = m \div Base
    BY <2>1, ShiftStep
  <2>3. u[i] = m \div Base
    BY <1>5, <2>1, <2>2
  <2>4. u[i + 1] = u[i] * Base + p[i + 1] /\ p[i + 1] = m % Base
    BY <1>1, <1>3, <2>1
  <2> HIDE DEF m
  <2>5. u[i + 1] = (m \div Base) * Base + (m % Base)
    BY <2>3, <2>4
  <2>6. u[i + 1] = m
    BY <2>2, <2>5, Division
  <2> QED BY <2>6 DEF m
<1> HIDE DEF S
<1>6. u[w] = ShiftBytes(n, w - w) /\ w - w = 0
  <2>1. w \in S
    BY <1>4, <1>5, SetInduction
  <2> QED BY <2>1 DEF S
<1> QED BY <1>2, <1>6, ShiftStep DEF p

\* Bytes that are read as a number are the bytes of that number.
LEMMA PutOfUint ==
  ASSUME NEW bytes \in Seq(Byte)
  PROVE  PutUint(Uint(bytes), Len(bytes)) = bytes
<1> DEFINE w == Len(bytes)
           n == Uint(bytes)
           p == PutUint(n, w)
<1>1. w \in Nat /\ n \in Nat /\ \A i \in 1..w : bytes[i] \in Byte
  BY LenProperties, UintIs, ElementOfSeq
<1>2. PICK u : Values(bytes, u) /\ n = u[w]
  BY UintSteps
<1>3. u \in [0..w -> Nat] /\ u[0] = 0 /\ \A i \in 1..w : u[i] = u[i - 1] * Base + bytes[i]
  BY <1>2 DEF Values
<1> HIDE DEF w, n
<1>4. /\ p \in Seq(Byte) /\ Len(p) = w
      /\ \A i \in 1..w : p[i] = ShiftBytes(n, w - i) % Base
  BY <1>1, PutUintIs
<1> HIDE DEF p
<1> DEFINE S == {j \in Nat : j \in 0..w => ShiftBytes(n, j) = u[w - j]}
<1>5. 0 \in S
  <2>1. w - 0 = w
    BY <1>1
  <2> QED BY <1>1, <1>2, <2>1, ShiftStep
<1>6. ASSUME NEW j \in Nat, j \in S PROVE j + 1 \in S
  <2> SUFFICES ASSUME j + 1 \in 0..w PROVE ShiftBytes(n, j + 1) = u[w - (j + 1)]
    OBVIOUS
  <2> DEFINE i == w - j
  <2>1. i \in 1..w /\ i - 1 \in 0..w /\ w - (j + 1) = i - 1 /\ j \in 0..w
    BY <1>1
  <2>2. u[i] = u[i - 1] * Base + bytes[i] /\ u[i - 1] \in Nat /\ bytes[i] \in Byte
    BY <1>1, <1>3, <2>1
  <2>3. u[i] \div Base = u[i - 1]
    <3> DEFINE a == u[i - 1]
               r == bytes[i]
    <3>1. a \in Nat /\ r \in Byte /\ u[i] = a * Base + r
      BY <2>2
    <3> HIDE DEF a, r
    <3>2. (a * Base + r) \div Base = a
      BY <3>1, Division
    <3> QED BY <3>1, <3>2 DEF a
  <2>4. ShiftBytes(n, j + 1) = ShiftBytes(n, j) \div Base
    BY <1>1, ShiftStep
  <2>5. ShiftBytes(n, j) = u[i]
    BY <1>6, <2>1
  <2> QED BY <2>1, <2>3, <2>4, <2>5
<1> HIDE DEF S
<1>7. ASSUME NEW i \in 1..w PROVE p[i] = bytes[i]
  <2> DEFINE a == u[i - 1]
             r == bytes[i]
  <2>1. w - i \in Nat /\ w - i \in 0..w /\ w - (w - i) = i /\ i - 1 \in 0..w
    BY <1>1
  <2>2. w - i \in S
    BY <1>5, <1>6, <2>1, SetInduction
  <2>3. p[i] = u[i] % Base
    BY <1>4, <2>1, <2>2 DEF S
  <2>4. a \in Nat /\ r \in Byte /\ u[i] = a * Base + r
    BY <1>1, <1>3, <2>1
  <2> HIDE DEF a, r
  <2>5. (a * Base + r) % Base = r
    BY <2>4, Division
  <2> QED BY <2>3, <2>4, <2>5 DEF r
<1>8. p = bytes
  BY <1>4, <1>7, SeqEqual DEF w
<1> QED BY <1>8 DEF p, n, w

\* A block whose length is the one of its data, and the bytes that Serialize writes for it.
Honest == {b \in ParsedBlock : b.length = Len(b.data)}
Encoded(b) == PutUint(b.id, IdBytes) \o PutUint(b.length, LenBytes) \o b.data

LEMMA EncodedIs ==
  ASSUME NEW b \in Honest
  PROVE  /\ Encoded(b) \in Seq(Byte) /\ Len(Encoded(b)) = HeaderLen + b.length
         /\ \A j \in 1..IdBytes : Encoded(b)[j] = PutUint(b.id, IdBytes)[j]
         /\ \A j \in 1..LenBytes : Encoded(b)[IdBytes + j] = PutUint(b.length, LenBytes)[j]
         /\ \A j \in 1..b.length : Encoded(b)[HeaderLen + j] = b.data[j]
<1> DEFINE p == PutUint(b.id, IdBytes)
           q == PutUint(b.length, LenBytes)
           d == b.data
           pq == p \o q
           e == pq \o d
<1>1. b.id \in Nat /\ b.length \in Nat /\ d \in Seq(Byte) /\ Len(d) = b.length
  BY DEF Honest, ParsedBlock
<1>2. p \in Seq(Byte) /\ Len(p) = IdBytes /\ q \in Seq(Byte) /\ Len(q) = LenBytes
  BY <1>1, Widths, PutUintIs
<1>3. e = Encoded(b)
  BY DEF Encoded
<1> HIDE DEF p, q, d
<1>4. /\ pq \in Seq(Byte) /\ Len(pq) = Len(p) + Len(q)
      /\ \A j \in 1..Len(p)+Len(q) : pq[j] = IF j <= Len(p) THEN p[j] ELSE q[j - Len(p)]
  BY <1>2, ConcatProperties
<1> HIDE DEF pq
<1>5. /\ e \in Seq(Byte) /\ Len(e) = Len(pq) + Len(d)
      /\ \A j \in 1..Len(pq)+Len(d) : e[j] = IF j <= Len(pq) THEN pq[j] ELSE d[j - Len(pq)]
  <2>1. pq \in Seq(Byte) /\ d \in Seq(Byte)
    BY <1>1, <1>4
  <2> QED BY <2>1, ConcatProperties
<1> HIDE DEF e
<1>6. Len(pq) = HeaderLen /\ HeaderLen = IdBytes + LenBytes
  BY <1>2, <1>4 DEF HeaderLen
<1>7. ASSUME NEW j \in 1..IdBytes PROVE e[j] = p[j]
  <2>1. j \in 1..Len(pq)+Len(d) /\ j <= Len(pq) /\ j \in 1..Len(p)+Len(q) /\ j <= Len(p)
    BY <1>1, <1>2, <1>6, Widths
  <2> QED BY <1>4, <1>5, <2>1
<1>8. ASSUME NEW j \in 1..LenBytes PROVE e[IdBytes + j] = q[j]
  <2> DEFINE k == IdBytes + j
  <2>1. /\ k \in 1..Len(pq)+Len(d) /\ k <= Len(pq) /\ k \in 1..Len(p)+Len(q)
        /\ ~(k <= Len(p)) /\ k - Len(p) = j
    BY <1>1, <1>2, <1>6, Widths
  <2> QED BY <1>4, <1>5, <2>1
<1>9. ASSUME NEW j \in 1..b.length PROVE e[HeaderLen + j] = d[j]
  <2> DEFINE k == HeaderLen + j
  <2>1. k \in 1..Len(pq)+Len(d) /\ ~(k <= Len(pq)) /\ k - Len(pq) = j
    BY <1>1, <1>2, <1>6, Widths
  <2> QED BY <1>5, <2>1
<1>10. Len(e) = HeaderLen + b.length
  BY <1>1, <1>5, <1>6
<1> QED BY <1>3, <1>5, <1>7, <1>8, <1>9, <1>10 DEF p, q, d

\* Where the blocks of a frame end.
Ends(bs, at) == /\ at \in [0..Len(bs) -> Nat] /\ at[0] = 2
                /\ \A i \in 1..Len(bs) : at[i] = at[i - 1] + HeaderLen + bs[i].length

LEMMA EndsRise ==
  ASSUME NEW bs \in Seq(Honest), NEW at, Ends(bs, at), NEW j \in 0..Len(bs), NEW i \in 0..j
  PROVE  at[i] \in Nat /\ at[j] \in Nat /\ at[i] <= at[j] /\ 2 <= at[i]
<1> DEFINE N == Len(bs)
           S == {n \in Nat : n \in 0..N => 2 <= at[n] /\ \A k \in 0..n : at[k] <= at[n]}
<1>0. N \in Nat
  BY LenProperties
<1>1. /\ N \in Nat /\ \A k \in 0..N : at[k] \in Nat
      /\ at[0] = 2 /\ \A k \in 1..N : at[k] = at[k - 1] + HeaderLen + bs[k].length
  BY LenProperties DEF Ends
<1>2. \A k \in 1..N : bs[k].length \in Nat
  <2> SUFFICES ASSUME NEW k \in 1..N PROVE bs[k].length \in Nat
    OBVIOUS
  <2>1. bs[k] \in Honest
    BY ElementOfSeq
  <2> QED BY <2>1 DEF Honest, ParsedBlock
<1> HIDE DEF N
<1>3. 0 \in S
  BY <1>1
<1>4. ASSUME NEW n \in Nat, n \in S PROVE n + 1 \in S
  <2> SUFFICES ASSUME n + 1 \in 0..N PROVE 2 <= at[n + 1] /\ \A k \in 0..n+1 : at[k] <= at[n + 1]
    OBVIOUS
  <2>1. n \in 0..N /\ n + 1 \in 1..N /\ (n + 1) - 1 = n
    BY <1>1
  <2>2. at[n] \in Nat /\ at[n + 1] \in Nat /\ at[n] <= at[n + 1]
    <3> DEFINE l == bs[n + 1].length
    <3>1. at[n] \in Nat /\ at[n + 1] \in Nat /\ l \in Nat /\ at[n + 1] = at[n] + HeaderLen + l
      BY <1>1, <1>2, <2>1
    <3> HIDE DEF l
    <3> QED BY <3>1, Widths
  <2>3. 2 <= at[n] /\ \A k \in 0..n : at[k] <= at[n]
    BY <1>4, <2>1
  <2>4. ASSUME NEW k \in 0..n+1 PROVE at[k] <= at[n + 1]
    <3>1. CASE k = n + 1
      BY <2>2, <3>1
    <3>2. CASE k # n + 1
      <4>1. k \in 0..n
        BY <3>2
      <4>2. k \in 0..N
        BY <1>0, <2>1, <4>1
      <4>3. at[k] \in Nat /\ at[k] <= at[n]
        BY <1>1, <2>3, <4>1, <4>2
      <4> QED BY <2>2, <4>3
    <3> QED BY <3>1, <3>2
  <2> QED BY <2>2, <2>3, <2>4
<1> HIDE DEF S
<1>5. j \in 0..N /\ i \in 0..N
  BY <1>1 DEF N
<1>6. i \in S /\ j \in S
  BY <1>3, <1>4, <1>5, SetInduction
<1> QED BY <1>1, <1>5, <1>6 DEF S

\* The blocks of a frame up to some number stand in a message, one after the other.
Written(bs, n, at, text) ==
  \A i \in 1..n : \A j \in 1..HeaderLen+bs[i].length : text[at[i - 1] + j] = Encoded(bs[i])[j]

\* The length that Serialize computes.
Total(bs, g) == g = [i \in 0..Len(bs) |-> IF i = 0 THEN 2 ELSE g[i-1] + HeaderLen + Len(bs[i].data)]

LEMMA TotalIs ==
  ASSUME NEW bs \in Seq(Honest)
  PROVE  (\E g : Total(bs, g)) /\ \A g : Total(bs, g) => Ends(bs, g)
<1> DEFINE n == Len(bs)
           l(i) == Len(bs[i].data)
           F == [i \in Nat |-> [k \in Nat |-> IF i \in 1..n THEN k + HeaderLen + l(i) ELSE 0]]
<1>0. n \in Nat
  BY LenProperties
<1>1. \A i \in 1..n : l(i) \in Nat /\ l(i) = bs[i].length
  <2> SUFFICES ASSUME NEW i \in 1..n PROVE l(i) \in Nat /\ l(i) = bs[i].length
    OBVIOUS
  <2>1. bs[i] \in Honest
    BY ElementOfSeq
  <2> QED BY <2>1 DEF Honest, ParsedBlock
<1> HIDE DEF l
<1>2. \A i \in 1..n, k \in Nat : k + HeaderLen + l(i) \in Nat
  BY <1>1, Widths
<1>3. Steps(F, Nat) /\ \A i \in 1..n, k \in Nat : F[i][k] = k + HeaderLen + l(i)
  <2>1. ASSUME NEW i \in Nat, NEW k \in Nat
        PROVE  (IF i \in 1..n THEN k + HeaderLen + l(i) ELSE 0) \in Nat
    BY <1>2
  <2>2. F \in [Nat -> [Nat -> Nat]]
    BY <2>1
  <2>3. \A i \in 1..n : i \in Nat
    BY <1>0
  <2> QED BY <2>2, <2>3 DEF Steps
<1>4. PICK g : g \in [0..n -> Nat] /\ g[0] = 2 /\ \A i \in 1..n : g[i] = F[i][g[i - 1]]
  <2> HIDE DEF F
  <2>1. 2 \in Nat
    OBVIOUS
  <2>2. \E g : Follows(g, n, Nat, 2, F)
    BY <1>0, <1>3, <2>1, Recursion
  <2> QED BY <2>2 DEF Follows
<1> HIDE DEF F
<1>5. g = [i \in 0..n |-> IF i = 0 THEN 2 ELSE g[i - 1] + HeaderLen + l(i)]
  <2>1. ASSUME NEW i \in 0..n, i # 0 PROVE g[i] = g[i - 1] + HeaderLen + l(i)
    <3>1. i \in 1..n /\ i - 1 \in 0..n
      BY <1>0, <2>1
    <3>2. g[i - 1] \in Nat
      BY <1>4, <3>1
    <3> QED BY <1>3, <1>4, <3>1, <3>2
  <2>2. \A i \in 0..n : g[i] = IF i = 0 THEN 2 ELSE g[i - 1] + HeaderLen + l(i)
    BY <1>4, <2>1
  <2> QED BY <1>4, <2>2
<1>6. \E h : Total(bs, h)
  BY <1>5 DEF Total, l, n
<1>7. ASSUME NEW total, Total(bs, total) PROVE Ends(bs, total)
  <2> DEFINE S == {i \in Nat : i \in 0..n => total[i] \in Nat}
  <2>1. total = [i \in 0..n |-> IF i = 0 THEN 2 ELSE total[i - 1] + HeaderLen + l(i)]
    BY <1>7 DEF Total, l, n
  <2> HIDE DEF n
  <2>2. total[0] = 2 /\ \A i \in 1..n : total[i] = total[i - 1] + HeaderLen + l(i)
    <3>1. total[0] = 2
      BY <1>0, <2>1
    <3>2. ASSUME NEW i \in 1..n PROVE total[i] = total[i - 1] + HeaderLen + l(i)
      <4>1. i # 0 /\ i \in 0..n
        BY <1>0
      <4>2. total[i] = IF i = 0 THEN 2 ELSE total[i - 1] + HeaderLen + l(i)
        BY <2>1, <4>1, Zenon
      <4> QED BY <4>1, <4>2
    <3> QED BY <3>1, <3>2
  <2>3. 0 \in S /\ \A i \in Nat : i \in S => i + 1 \in S
    <3>1. ASSUME NEW i \in Nat, i + 1 \in 0..n, total[i] \in Nat PROVE total[i + 1] \in Nat
      <4>1. (i + 1) - 1 = i /\ i + 1 \in 1..n
        BY <1>0, <3>1
      <4>2. total[i + 1] = total[i] + HeaderLen + l(i + 1)
        BY <2>2, <4>1
      <4> QED BY <1>2, <3>1, <4>1, <4>2
    <3> QED BY <1>0, <2>2, <3>1
  <2> HIDE DEF S
  <2>4. \A i \in 0..n : total[i] \in Nat
    <3>1. \A i \in Nat : i \in S
      BY <2>3, SetInduction
    <3> QED BY <1>0, <3>1 DEF S
  <2>5. total \in [0..n -> Nat]
    BY <2>1, <2>4
  <2>6. Ends(bs, total)
    BY <1>1, <2>2, <2>5 DEF Ends, n
  <2> QED BY <2>6
<1> QED BY <1>6, <1>7

\* One block is written where the one before ends, and nothing else is touched.
LEMMA PutBlockIs ==
  ASSUME NEW bs \in Seq(Honest), NEW at, Ends(bs, at), NEW n \in Nat, n + 1 \in 1..Len(bs),
         NEW st, st.offset = at[n], NEW M, M = at[Len(bs)], st.buf \in [1..M -> Byte],
         Written(bs, n, at, st.buf)
  PROVE  LET next == PutBlock(st, bs[n + 1])
         IN /\ next.buf \in [1..M -> Byte] /\ next.offset = at[n + 1]
            /\ next.buf[1] = st.buf[1] /\ next.buf[2] = st.buf[2]
            /\ Written(bs, n + 1, at, next.buf)
<1> DEFINE b == bs[n + 1]
           e == Encoded(b)
           c == CopyAt(st.buf, at[n], e)
           N == Len(bs)
           next == PutBlock(st, b)
<1>0. N \in Nat /\ n \in 0..N /\ n \in 0..n+1 /\ n + 1 \in 0..N /\ N \in 0..N /\ (n + 1) - 1 = n
  BY LenProperties
<1>1. b \in Honest
  BY ElementOfSeq
<1>2. b.length \in Nat
  BY <1>1 DEF Honest, ParsedBlock
<1>3. e \in Seq(Byte) /\ Len(e) = HeaderLen + b.length /\ DOMAIN e = 1..HeaderLen+b.length
  BY <1>1, EncodedIs, LenProperties
<1>4. next = [buf |-> c, offset |-> at[n] + HeaderLen + b.length]
  BY DEF PutBlock, Encoded
<1>5. at[n + 1] = at[n] + HeaderLen + b.length
  BY <1>0 DEF Ends
<1>6. /\ at[n] \in Nat /\ 2 <= at[n]
      /\ at[n + 1] \in Nat /\ M \in Nat /\ at[n + 1] <= M
  <2>1. at[n] \in Nat /\ 2 <= at[n]
    BY <1>0, EndsRise
  <2>2. n + 1 \in 0..N /\ N \in 0..N
    BY <1>0
  <2>3. at[n + 1] \in Nat /\ at[N] \in Nat /\ at[n + 1] <= at[N]
    BY <2>2, EndsRise
  <2> QED BY <2>1, <2>3
<1> HIDE DEF e, b, next
<1>7. /\ c \in [1..M -> Byte]
      /\ \A k \in 1..M : c[k] = IF k - at[n] \in 1..HeaderLen+b.length
                                THEN e[k - at[n]] ELSE st.buf[k]
  <2>1. \A k \in 1..M : k - at[n] \in DOMAIN e => e[k - at[n]] \in Byte
    BY <1>3, ElementOfSeq
  <2> QED BY <1>3, <2>1 DEF CopyAt
<1> HIDE DEF c
<1>8. c[1] = st.buf[1] /\ c[2] = st.buf[2]
  <2>1. 1 \in 1..M /\ 2 \in 1..M
    <3>1. at[n] <= at[n + 1]
      BY <1>2, <1>5, <1>6, Widths
    <3> QED BY <1>6, <3>1
  <2>2. ~(1 - at[n] >= 1) /\ ~(2 - at[n] >= 1)
    BY <1>6
  <2>3. ~(1 - at[n] \in 1..HeaderLen+b.length) /\ ~(2 - at[n] \in 1..HeaderLen+b.length)
    BY <1>2, <2>2, Widths
  <2> QED BY <1>7, <2>1, <2>3
<1>9. Written(bs, n + 1, at, c)
  <2> SUFFICES ASSUME NEW i \in 1..n+1, NEW j \in 1..HeaderLen+bs[i].length
               PROVE  c[at[i - 1] + j] = Encoded(bs[i])[j]
    BY DEF Written
  <2>1. CASE i = n + 1
    <3> DEFINE k == at[n] + j
    <3>0. j \in 1..HeaderLen+b.length
      BY <2>1 DEF b
    <3>1. k \in 1..M /\ k - at[n] = j
      <4> DEFINE a == at[n]
                 l == b.length
      <4>1. a \in Nat /\ l \in Nat /\ j \in 1..HeaderLen+l /\ M \in Nat /\ a + HeaderLen + l <= M
        BY <1>2, <1>5, <1>6, <3>0
      <4> HIDE DEF a, l
      <4>2. a + j \in 1..M /\ (a + j) - a = j
        BY <4>1, Widths
      <4> QED BY <4>2 DEF a
    <3>2. c[k] = e[j]
      BY <1>7, <3>0, <3>1
    <3> QED BY <1>0, <2>1, <3>2 DEF e, b
  <2>2. CASE i # n + 1
    <3> DEFINE k == at[i - 1] + j
    <3>1. i \in 1..n /\ i \in 1..N /\ i - 1 \in 0..N /\ i - 1 \in 0..n /\ i \in 0..n /\ i \in 0..N
      BY <1>0, <2>2
    <3>2. at[i] = at[i - 1] + HeaderLen + bs[i].length
      BY <3>1 DEF Ends
    <3>3. at[i] \in Nat /\ at[i] <= at[n] /\ at[i - 1] \in Nat /\ 2 <= at[i - 1]
      BY <1>0, <3>1, EndsRise
    <3>4. bs[i].length \in Nat
      <4>1. bs[i] \in Honest
        BY <3>1, ElementOfSeq
      <4> QED BY <4>1 DEF Honest, ParsedBlock
    <3>5. k \in 1..M /\ ~(k - at[n] \in 1..HeaderLen+b.length)
      <4> DEFINE l == bs[i].length
                 a == at[i - 1]
                 z == at[n]
      <4>1. /\ l \in Nat /\ a \in Nat /\ z \in Nat /\ a + HeaderLen + l <= z
            /\ j \in 1..HeaderLen+l
        BY <1>6, <3>2, <3>3, <3>4
      <4>2. k <= at[n] /\ k \in Nat /\ k >= 1
        <5> HIDE DEF l, a, z
        <5>1. a + j <= z /\ a + j \in Nat /\ a + j >= 1
          BY <4>1, Widths
        <5> QED BY <5>1 DEF a, z
      <4>3. at[n] <= M
        BY <1>2, <1>5, <1>6, Widths
      <4> QED BY <1>6, <4>2, <4>3
    <3>6. c[k] = st.buf[k]
      BY <1>7, <3>5
    <3> QED BY <3>1, <3>6 DEF Written
  <2> QED BY <2>1, <2>2
<1> QED BY <1>4, <1>5, <1>7, <1>8, <1>9 DEF next, b

WriterState(M) == [buf : [1..M -> Byte], offset : Nat]

LEMMA PutBlockType ==
  ASSUME NEW M, NEW st \in WriterState(M), NEW b \in Honest
  PROVE  PutBlock(st, b) \in WriterState(M)
<1> DEFINE e == Encoded(b)
           c == CopyAt(st.buf, st.offset, e)
<1>1. st.buf \in [1..M -> Byte] /\ st.offset \in Nat /\ b.length \in Nat
  BY DEF WriterState, Honest, ParsedBlock
<1>2. e \in Seq(Byte) /\ DOMAIN e = 1..Len(e)
  BY EncodedIs, LenProperties
<1>3. PutBlock(st, b) = [buf |-> c, offset |-> st.offset + HeaderLen + b.length]
  BY DEF PutBlock, Encoded
<1> HIDE DEF e
<1>4. c \in [1..M -> Byte]
  <2>1. \A k \in 1..M : k - st.offset \in DOMAIN e => e[k - st.offset] \in Byte
    BY <1>2, ElementOfSeq
  <2> QED BY <1>1, <2>1 DEF CopyAt
<1> HIDE DEF c
<1>5. st.offset + HeaderLen + b.length \in Nat
  BY <1>1, Widths
<1> QED BY <1>3, <1>4, <1>5 DEF WriterState

\* What Serialize makes of a frame: its type, its count and, whatever that says, all blocks.
LEMMA SerializeIs ==
  ASSUME NEW f, f.type \in Byte, f.count \in Byte, f.sessions \in Seq(Honest)
  PROVE  \E at : /\ Ends(f.sessions, at)
                 /\ Serialize(f) \in Seq(Byte) /\ Len(Serialize(f)) = at[Len(f.sessions)]
                 /\ Serialize(f)[1] = f.type /\ Serialize(f)[2] = f.count
                 /\ Written(f.sessions, Len(f.sessions), at, Serialize(f))
<1> DEFINE bs == f.sessions
           n == Len(f.sessions)
           total[i \in 0..n] == IF i = 0 THEN 2
                                ELSE total[i-1] + HeaderLen + Len(f.sessions[i].data)
           buf == [i \in 1..total[n] |-> CASE i = 1 -> f.type [] i = 2 -> f.count [] OTHER -> 0]
           after[i \in 0..n] == IF i = 0 THEN [buf |-> buf, offset |-> 2]
                                ELSE PutBlock(after[i-1], f.sessions[i])
           M == total[n]
           first == [buf |-> buf, offset |-> 2]
           T == WriterState(M)
           F == [i \in Nat |-> [st \in T |-> IF i \in 1..n THEN PutBlock(st, bs[i]) ELSE st]]
<1>1. Serialize(f) = after[n].buf
  BY Zenon DEF Serialize
<1>2. n \in Nat /\ n \in 0..n
  BY LenProperties
<1>3. Ends(bs, total)
  <2>1. \E g : g = [i \in 0..n |-> IF i = 0 THEN 2
                                   ELSE g[i-1] + HeaderLen + Len(f.sessions[i].data)]
    BY TotalIs DEF Total
  <2>2. Total(bs, total)
    BY <2>1, Zenon DEF Total
  <2> QED BY <2>2, TotalIs
<1>4. M \in Nat /\ M >= 2
  <2>1. total[n] \in Nat /\ 2 <= total[n]
    <3> HIDE DEF total, n
    <3> QED BY <1>2, <1>3, EndsRise DEF n
  <2> QED BY <2>1
<1> HIDE DEF total, M
<1>5. buf \in [1..M -> Byte] /\ buf[1] = f.type /\ buf[2] = f.count
  <2>1. buf = [i \in 1..M |-> CASE i = 1 -> f.type [] i = 2 -> f.count [] OTHER -> 0]
    BY DEF M
  <2>2. 0 \in Byte
    BY CodecAssumption DEF Byte
  <2>3. 1 \in 1..M /\ 2 \in 1..M
    BY <1>4
  <2> HIDE DEF buf
  <2> QED BY <2>1, <2>2, <2>3
<1> HIDE DEF buf
<1>6. first \in T
  BY <1>5 DEF WriterState
<1>7. \A i \in 1..n, st \in T : PutBlock(st, bs[i]) \in T
  <2> SUFFICES ASSUME NEW i \in 1..n, NEW st \in T PROVE PutBlock(st, bs[i]) \in T
    OBVIOUS
  <2>1. bs[i] \in Honest
    BY ElementOfSeq
  <2> QED BY <2>1, PutBlockType
<1> HIDE DEF T, first, n
<1>8. Steps(F, T) /\ \A i \in 1..n, st \in T : F[i][st] = PutBlock(st, bs[i])
  <2>1. ASSUME NEW i \in Nat, NEW st \in T
        PROVE  (IF i \in 1..n THEN PutBlock(st, bs[i]) ELSE st) \in T
    BY <1>7
  <2>2. F \in [Nat -> [T -> T]]
    BY <2>1
  <2>3. \A i \in 1..n : i \in Nat
    BY <1>2
  <2> QED BY <2>2, <2>3 DEF Steps
<1>9. PICK g : g \in [0..n -> T] /\ g[0] = first /\ \A i \in 1..n : g[i] = F[i][g[i - 1]]
  <2> HIDE DEF F
  <2>1. \E g : Follows(g, n, T, first, F)
    BY <1>2, <1>6, <1>8, Recursion
  <2> QED BY <2>1 DEF Follows
<1> HIDE DEF F
<1>10. g = [i \in 0..n |-> IF i = 0 THEN first ELSE PutBlock(g[i - 1], bs[i])]
  <2>1. ASSUME NEW i \in 0..n, i # 0 PROVE g[i] = PutBlock(g[i - 1], bs[i])
    <3>1. i \in 1..n /\ i - 1 \in 0..n
      BY <1>2, <2>1
    <3>2. g[i - 1] \in T
      BY <1>9, <3>1
    <3> QED BY <1>8, <1>9, <3>1, <3>2
  <2>2. \A i \in 0..n : g[i] = IF i = 0 THEN first ELSE PutBlock(g[i - 1], bs[i])
    BY <1>9, <2>1
  <2> QED BY <1>9, <2>2
<1>11. after = [i \in 0..n |-> IF i = 0 THEN first ELSE PutBlock(after[i - 1], bs[i])]
  BY <1>10, Zenon DEF first
<1> HIDE DEF after
<1> DEFINE S == {i \in Nat : i \in 0..n => /\ after[i].buf \in [1..M -> Byte]
                                           /\ after[i].offset = total[i]
                                           /\ after[i].buf[1] = f.type /\ after[i].buf[2] = f.count
                                           /\ Written(bs, i, total, after[i].buf)}
<1>12. 0 \in S
  <2>1. after[0] = first
    BY <1>2, <1>11
  <2>2. Written(bs, 0, total, buf)
    BY DEF Written
  <2>3. total[0] = 2
    BY <1>3 DEF Ends
  <2>4. first.buf = buf /\ first.offset = 2
    BY DEF first
  <2> QED BY <1>5, <2>1, <2>2, <2>3, <2>4
<1>13. ASSUME NEW i \in Nat, i \in S PROVE i + 1 \in S
  <2> SUFFICES ASSUME i + 1 \in 0..n
               PROVE  /\ after[i + 1].buf \in [1..M -> Byte]
                      /\ after[i + 1].offset = total[i + 1]
                      /\ after[i + 1].buf[1] = f.type /\ after[i + 1].buf[2] = f.count
                      /\ Written(bs, i + 1, total, after[i + 1].buf)
    OBVIOUS
  <2> DEFINE st == after[i]
  <2>1. i \in 0..n /\ i + 1 \in 1..n /\ (i + 1) - 1 = i /\ i + 1 # 0
    BY <1>2
  <2>2. /\ st.buf \in [1..M -> Byte] /\ st.offset = total[i]
        /\ st.buf[1] = f.type /\ st.buf[2] = f.count
        /\ Written(bs, i, total, st.buf)
    BY <1>13, <2>1
  <2>3. after[i + 1] = PutBlock(st, bs[i + 1])
    <3>1. after[i + 1] = IF i + 1 = 0 THEN first ELSE PutBlock(after[(i + 1) - 1], bs[i + 1])
      BY <1>11, Zenon
    <3> QED BY <2>1, <3>1
  <2> HIDE DEF st, bs
  <2>4. bs \in Seq(Honest) /\ i + 1 \in 1..Len(bs) /\ M = total[Len(bs)]
    BY <2>1 DEF bs, n, M
  <2>5. LET next == PutBlock(st, bs[i + 1])
        IN /\ next.buf \in [1..M -> Byte] /\ next.offset = total[i + 1]
           /\ next.buf[1] = st.buf[1] /\ next.buf[2] = st.buf[2]
           /\ Written(bs, i + 1, total, next.buf)
    BY <1>3, <2>2, <2>4, PutBlockIs
  <2> QED BY <2>2, <2>3, <2>5
<1> HIDE DEF S
<1>14. n \in S
  BY <1>2, <1>12, <1>13, SetInduction
<1> DEFINE w == after[n].buf
<1>15. w \in [1..M -> Byte] /\ w[1] = f.type /\ w[2] = f.count /\ Written(bs, n, total, w)
  BY <1>2, <1>14 DEF S
<1> HIDE DEF w
<1>16. w \in Seq(Byte) /\ Len(w) = M
  BY <1>4, <1>15, SeqDef, LenProperties
<1>17. Serialize(f) = w
  BY <1>1 DEF w
<1> QED BY <1>3, <1>15, <1>16, <1>17 DEF n, M

\* The bytes that stand in a message are what is cut out of it.
LEMMA CutOut ==
  ASSUME NEW text \in Seq(Byte), NEW m \in Nat, NEW s \in Seq(Byte), m + Len(s) <= Len(text),
         \A j \in 1..Len(s) : text[m + j] = s[j]
  PROVE  SubSeq(text, m + 1, m + Len(s)) = s
<1> DEFINE l == m + 1
           r == m + Len(s)
           t == SubSeq(text, l, r)
<1>0. Len(s) \in Nat /\ Len(text) \in Nat /\ l \in Nat /\ r \in Nat
  BY LenProperties
<1>1. \A i \in l..r : text[i] \in Byte
  <2> SUFFICES ASSUME NEW i \in l..r PROVE text[i] \in Byte
    OBVIOUS
  <2>1. i \in 1..Len(text)
    BY <1>0
  <2> QED BY <2>1, ElementOfSeq
<1> HIDE DEF l, r
<1>2. /\ t \in Seq(Byte) /\ Len(t) = (IF l <= r THEN r - l + 1 ELSE 0)
      /\ \A i \in 1..r-l+1 : t[i] = text[l + i - 1]
  BY <1>0, <1>1, SubSeqProperties
<1> HIDE DEF t
<1>3. Len(t) = Len(s) /\ r - l + 1 = Len(s)
  BY <1>0, <1>2 DEF l, r
<1>4. ASSUME NEW i \in 1..Len(s) PROVE t[i] = s[i]
  <2>1. i \in 1..r-l+1 /\ l + i - 1 = m + i
    BY <1>0, <1>3 DEF l
  <2> QED BY <1>2, <2>1
<1>5. t = s
  BY <1>2, <1>3, <1>4, SeqEqual
<1> QED BY <1>5 DEF t, l, r

\* A block whose id and length fit their bytes.
Fits == {b \in Honest : Uint(PutUint(b.id, IdBytes)) = b.id
                        /\ Uint(PutUint(b.length, LenBytes)) = b.length}

\* Such a block is read where it stands.
LEMMA ReadBack ==
  ASSUME NEW text \in Seq(Byte), NEW m \in Nat, NEW b \in Fits,
         m + HeaderLen + b.length <= Len(text),
         \A j \in 1..HeaderLen+b.length : text[m + j] = Encoded(b)[j]
  PROVE  FitsAt(text, m) /\ EndAt(text, m) = m + HeaderLen + b.length /\ BlockAt(text, m) = b
<1> DEFINE p == PutUint(b.id, IdBytes)
           q == PutUint(b.length, LenBytes)
           d == b.data
           len == b.length
           e == Encoded(b)
<1>1. /\ b \in Honest /\ b \in ParsedBlock /\ b.id \in Nat /\ len \in Nat /\ d \in Seq(Byte)
      /\ Len(d) = len /\ Uint(p) = b.id /\ Uint(q) = len
  BY DEF Fits, Honest, ParsedBlock
<1>2. p \in Seq(Byte) /\ Len(p) = IdBytes /\ q \in Seq(Byte) /\ Len(q) = LenBytes
  BY <1>1, Widths, PutUintIs
<1>3. /\ \A j \in 1..IdBytes : e[j] = p[j]
      /\ \A j \in 1..LenBytes : e[IdBytes + j] = q[j]
      /\ \A j \in 1..len : e[HeaderLen + j] = d[j]
  BY <1>1, EncodedIs
<1>4. HeaderLen = IdBytes + LenBytes /\ Len(text) \in Nat
  BY LenProperties DEF HeaderLen
<1>5. m + HeaderLen + len <= Len(text) /\ \A j \in 1..HeaderLen+len : text[m + j] = e[j]
  OBVIOUS
<1> HIDE DEF p, q, d, len, e
<1>6. SubSeq(text, m + 1, m + IdBytes) = p
  <2>1. \A j \in 1..Len(p) : text[m + j] = p[j]
    <3> SUFFICES ASSUME NEW j \in 1..IdBytes PROVE text[m + j] = p[j]
      BY <1>2
    <3>1. j \in 1..HeaderLen+len
      BY <1>1, <1>4, Widths
    <3> QED BY <1>3, <1>5, <3>1
  <2>2. m + Len(p) <= Len(text)
    BY <1>1, <1>2, <1>4, <1>5, Widths
  <2> QED BY <1>2, <2>1, <2>2, CutOut
<1>7. SubSeq(text, m + IdBytes + 1, m + HeaderLen) = q
  <2> DEFINE k == m + IdBytes
  <2>1. \A j \in 1..Len(q) : text[k + j] = q[j]
    <3> SUFFICES ASSUME NEW j \in 1..LenBytes PROVE text[k + j] = q[j]
      BY <1>2
    <3>1. IdBytes + j \in 1..HeaderLen+len /\ m + (IdBytes + j) = k + j
      BY <1>1, <1>4, Widths
    <3>2. text[m + (IdBytes + j)] = e[IdBytes + j]
      BY <1>5, <3>1
    <3> QED BY <1>3, <3>1, <3>2
  <2>2. k \in Nat /\ k + Len(q) <= Len(text) /\ k + Len(q) = m + HeaderLen
    BY <1>1, <1>2, <1>4, <1>5, Widths
  <2> HIDE DEF k
  <2>3. SubSeq(text, k + 1, k + Len(q)) = q
    BY <1>2, <2>1, <2>2, CutOut
  <2> QED BY <2>2, <2>3 DEF k
<1>8. SubSeq(text, m + HeaderLen + 1, m + HeaderLen + len) = d
  <2> DEFINE k == m + HeaderLen
  <2>1. \A j \in 1..Len(d) : text[k + j] = d[j]
    <3> SUFFICES ASSUME NEW j \in 1..len PROVE text[k + j] = d[j]
      BY <1>1
    <3>1. HeaderLen + j \in 1..HeaderLen+len /\ m + (HeaderLen + j) = k + j
      BY <1>1, <1>4, Widths
    <3>2. text[m + (HeaderLen + j)] = e[HeaderLen + j]
      BY <1>5, <3>1
    <3> QED BY <1>3, <3>1, <3>2
  <2>2. k \in Nat /\ k + Len(d) <= Len(text) /\ Len(d) = len
    BY <1>1, <1>4, <1>5, Widths
  <2> HIDE DEF k
  <2>3. SubSeq(text, k + 1, k + Len(d)) = d
    BY <1>1, <2>1, <2>2, CutOut
  <2> QED BY <2>2, <2>3 DEF k
<1>9. IdAt(text, m) = b.id /\ LengthAt(text, m) = len
  BY <1>1, <1>6, <1>7 DEF IdAt, LengthAt
<1>10. EndAt(text, m) = m + HeaderLen + len
  BY <1>9 DEF EndAt
<1>11. FitsAt(text, m)
  <2>1. m + HeaderLen <= Len(text)
    BY <1>1, <1>4, <1>5, Widths
  <2> QED BY <1>5, <1>10, <2>1 DEF FitsAt
<1>12. BlockAt(text, m) = [id |-> b.id, length |-> len, data |-> d]
  BY <1>8, <1>9, <1>10 DEF BlockAt
<1>13. b = [id |-> b.id, length |-> len, data |-> d]
  BY <1>1 DEF ParsedBlock, len, d
<1> QED BY <1>10, <1>11, <1>12, <1>13 DEF len

\* A frame whose count is not larger than the number of its blocks arrives with as many of
\* these as the count says, and if it is that number, with nothing less than all its bytes.
\* So it is for every frame that the gateway can send, of any size, whose ids and lengths fit
\* their fields (Serialize in pkg/codec/frame.go, parseFrame in workers/parser.ts).
THEOREM FramesArrive ==
  ASSUME NEW f \in [type : Byte, count : Byte, sessions : Seq(Fits)], f.count <= Len(f.sessions)
  PROVE  /\ parseFrame(Serialize(f)) = [f EXCEPT !.sessions = SubSeq(@, 1, f.count)]
         /\ f.count = Len(f.sessions) =>
              \A n \in 0..Len(Serialize(f))-1 : parseFrame(SubSeq(Serialize(f), 1, n)) = Rejected
<1> DEFINE bs == f.sessions
           c == f.count
           N == Len(bs)
           text == Serialize(f)
<1>1. /\ f.type \in Byte /\ c \in Byte /\ c \in Nat /\ bs \in Seq(Fits) /\ bs \in Seq(Honest)
      /\ N \in Nat /\ c <= N
  <2>1. f.type \in Byte /\ c \in Byte /\ bs \in Seq(Fits)
    OBVIOUS
  <2>2. c \in Nat
    BY <2>1, CodecAssumption DEF Byte
  <2>3. bs \in [1..N -> Fits] /\ N \in Nat
    BY <2>1, LenProperties
  <2>4. bs \in [1..N -> Honest]
    BY <2>3 DEF Fits
  <2>5. bs \in Seq(Honest)
    BY <2>3, <2>4, SeqDef
  <2> QED BY <2>1, <2>2, <2>3, <2>5
<1>2. PICK at : /\ Ends(bs, at) /\ text \in Seq(Byte) /\ Len(text) = at[N]
                /\ text[1] = f.type /\ text[2] = c /\ Written(bs, N, at, text)
  BY <1>1, SerializeIs
<1> HIDE DEF bs, c, N, text
<1> DEFINE o == [i \in 0..c |-> at[i]]
<1>3. /\ \A i \in 0..N : at[i] \in Nat /\ 2 <= at[i] /\ at[i] <= Len(text)
      /\ \A i \in 1..N : at[i] = at[i - 1] + HeaderLen + bs[i].length
      /\ at[0] = 2
  <2>1. \A i \in 0..N : at[i] \in Nat /\ 2 <= at[i] /\ at[i] <= at[N]
    <3> SUFFICES ASSUME NEW i \in 0..N PROVE at[i] \in Nat /\ 2 <= at[i] /\ at[i] <= at[N]
      OBVIOUS
    <3>1. N \in 0..Len(bs) /\ i \in 0..N
      BY <1>1 DEF N
    <3> QED BY <1>1, <1>2, <3>1, EndsRise
  <2> QED BY <1>2, <2>1 DEF Ends, N
<1>4. ASSUME NEW i \in 1..N
      PROVE  /\ FitsAt(text, at[i - 1]) /\ EndAt(text, at[i - 1]) = at[i]
             /\ BlockAt(text, at[i - 1]) = bs[i]
  <2> DEFINE m == at[i - 1]
             b == bs[i]
  <2>1. i - 1 \in 0..N /\ i \in 0..N
    BY <1>1
  <2>2. m \in Nat /\ at[i] = m + HeaderLen + b.length /\ at[i] <= Len(text)
    BY <1>3, <2>1
  <2>3. b \in Fits
    BY <1>1, ElementOfSeq DEF N
  <2>4. \A j \in 1..HeaderLen+b.length : text[m + j] = Encoded(b)[j]
    BY <1>2 DEF Written
  <2> HIDE DEF m, b
  <2>5. FitsAt(text, m) /\ EndAt(text, m) = m + HeaderLen + b.length /\ BlockAt(text, m) = b
    BY <1>2, <2>2, <2>3, <2>4, ReadBack
  <2> QED BY <2>2, <2>5 DEF m, b
<1>5. /\ \A i \in 0..c : i \in 0..N /\ o[i] = at[i]
      /\ \A i \in 1..c : i \in 1..N /\ i \in 0..c /\ i - 1 \in 0..c
  BY <1>1
<1>6. /\ Offsets(text, c, o)
      /\ \A i \in 1..c : BlockAt(text, o[i - 1]) = bs[i]
  <2>1. o \in [0..c -> Nat] /\ o[0] = 2
    BY <1>1, <1>3, <1>5
  <2>2. ASSUME NEW i \in 1..c
        PROVE  /\ FitsAt(text, o[i - 1]) /\ o[i] = EndAt(text, o[i - 1])
               /\ BlockAt(text, o[i - 1]) = bs[i]
    <3>1. o[i] = at[i] /\ o[i - 1] = at[i - 1] /\ i \in 1..N
      BY <1>5
    <3> QED BY <1>4, <3>1
  <2> QED BY <2>1, <2>2 DEF Offsets
<1>7. o[c] \in Nat /\ o[c] <= Len(text) /\ Len(text) \in Nat /\ Len(text) >= 2
  <2>1. c \in 0..c /\ N \in 0..N /\ c \in 0..N
    BY <1>1
  <2>2. Len(text) \in Nat /\ at[c] \in Nat /\ at[c] <= Len(text) /\ 2 <= at[c]
    BY <1>2, <1>3, <2>1
  <2> QED BY <1>5, <2>1, <2>2
<1>8. \A n \in 0..Len(text) :
        parseFrame(SubSeq(text, 1, n)) = IF n < o[c] THEN Rejected ELSE FrameAt(text, o)
  <2> HIDE DEF o
  <2> QED BY <1>2, <1>6, <1>7, CutFrames
<1>9. parseFrame(text) = FrameAt(text, o)
  <2>1. Len(text) \in 0..Len(text) /\ ~(Len(text) < o[c])
    BY <1>7
  <2>2. SubSeq(text, 1, Len(text)) = text
    <3> DEFINE p == SubSeq(text, 1, Len(text))
    <3>1. p \in Seq(Byte) /\ Len(p) = Len(text) /\ \A i \in 1..Len(text) : p[i] = text[i]
      BY <1>2, <2>1, Beginning
    <3> HIDE DEF p
    <3>2. p = text
      BY <1>2, <3>1, SeqEqual
    <3> QED BY <3>2 DEF p
  <2>3. parseFrame(SubSeq(text, 1, Len(text))) = FrameAt(text, o)
    <3> HIDE DEF o
    <3> QED BY <1>8, <2>1
  <2> QED BY <2>2, <2>3
<1>10. FrameAt(text, o) = [type |-> f.type, count |-> c, sessions |-> SubSeq(bs, 1, c)]
  <2> DEFINE s == SubSeq(bs, 1, c)
  <2>1. s = [i \in 1..c |-> bs[i]]
    <3>1. \A i \in 1..c : bs[i] \in Honest
      BY <1>1, <1>5, ElementOfSeq DEF N
    <3>2. /\ s \in Seq(Honest) /\ Len(s) = (IF 1 <= c THEN c - 1 + 1 ELSE 0)
          /\ \A i \in 1..c-1+1 : s[i] = bs[1 + i - 1]
      BY <1>1, <3>1, SubSeqProperties
    <3> HIDE DEF s
    <3>3. Len(s) = c
      BY <1>1, <3>2
    <3>4. DOMAIN s = 1..c /\ s = [i \in 1..c |-> s[i]]
      BY <3>2, <3>3, LenProperties
    <3>5. \A i \in 1..c : s[i] = bs[i]
      <4> SUFFICES ASSUME NEW i \in 1..c PROVE s[i] = bs[i]
        OBVIOUS
      <4>1. i \in 1..c-1+1 /\ 1 + i - 1 = i
        BY <1>1
      <4> QED BY <3>2, <4>1
    <3> QED BY <3>4, <3>5
  <2> HIDE DEF o, s
  <2>2. [i \in 1..c |-> BlockAt(text, o[i - 1])] = s
    BY <1>6, <2>1
  <2>3. FrameAt(text, o) = [type |-> f.type, count |-> c, sessions |-> s]
    BY <1>2, <2>2 DEF FrameAt
  <2> QED BY <2>3 DEF s
<1>11. [f EXCEPT !.sessions = SubSeq(@, 1, c)]
         = [type |-> f.type, count |-> c, sessions |-> SubSeq(bs, 1, c)]
  <2> DEFINE s == SubSeq(bs, 1, c)
  <2>1. [f EXCEPT !.sessions = SubSeq(@, 1, c)] = [f EXCEPT !.sessions = s]
    BY DEF bs
  <2> HIDE DEF s
  <2>2. [f EXCEPT !.sessions = s] = [type |-> f.type, count |-> f.count, sessions |-> s]
    OBVIOUS
  <2> QED BY <2>1, <2>2 DEF s, c
<1>12. ASSUME c = N, NEW n \in 0..Len(text)-1 PROVE parseFrame(SubSeq(text, 1, n)) = Rejected
  <2>1. o[c] = Len(text)
    BY <1>1, <1>2, <1>5, <1>12
  <2>2. n \in 0..Len(text) /\ n < o[c]
    BY <1>7, <2>1
  <2> HIDE DEF o
  <2> QED BY <1>8, <2>2
<1> QED BY <1>9, <1>10, <1>11, <1>12 DEF bs, c, N, text

\* A block that is read is what Serialize would have written there.
LEMMA WriteBack ==
  ASSUME NEW text \in Seq(Byte), NEW m \in Nat, FitsAt(text, m)
  PROVE  /\ BlockAt(text, m) \in Honest /\ BlockAt(text, m).length = LengthAt(text, m)
         /\ LengthAt(text, m) \in Nat
         /\ \A j \in 1..HeaderLen+LengthAt(text, m) : Encoded(BlockAt(text, m))[j] = text[m + j]
<1> DEFINE b == BlockAt(text, m)
           len == LengthAt(text, m)
           x == SubSeq(text, m + 1, m + IdBytes)
           y == SubSeq(text, m + IdBytes + 1, m + HeaderLen)
           d == SubSeq(text, m + HeaderLen + 1, m + HeaderLen + len)
           e == Encoded(b)
<1>1. m + HeaderLen <= Len(text) /\ m + HeaderLen + len <= Len(text) /\ Len(text) \in Nat
  BY LenProperties DEF FitsAt, EndAt
<1>2. len \in Nat /\ b \in ParsedBlock /\ b = [id |-> Uint(x), length |-> len, data |-> d]
  BY <1>1, FieldTypes DEF BlockAt, EndAt, IdAt
<1>3. HeaderLen = IdBytes + LenBytes
  BY DEF HeaderLen
<1> HIDE DEF len
<1>4. ASSUME NEW l \in Nat, NEW k \in Nat, l + k <= Len(text)
      PROVE  LET s == SubSeq(text, l + 1, l + k)
             IN s \in Seq(Byte) /\ Len(s) = k /\ \A j \in 1..k : s[j] = text[l + j]
  <2> DEFINE a == l + 1
             r == l + k
             s == SubSeq(text, a, r)
  <2>1. a \in Nat /\ r \in Nat /\ \A i \in a..r : i \in 1..Len(text)
    BY <1>1, <1>4
  <2>2. \A i \in a..r : text[i] \in Byte
    BY <2>1, ElementOfSeq
  <2> HIDE DEF a, r
  <2>3. /\ s \in Seq(Byte) /\ Len(s) = (IF a <= r THEN r - a + 1 ELSE 0)
        /\ \A i \in 1..r-a+1 : s[i] = text[a + i - 1]
    BY <2>1, <2>2, SubSeqProperties
  <2> HIDE DEF s
  <2>4. r - a + 1 = k /\ Len(s) = k
    BY <2>3 DEF a, r
  <2>5. ASSUME NEW j \in 1..k PROVE s[j] = text[l + j]
    <3>1. j \in 1..r-a+1 /\ a + j - 1 = l + j
      BY <2>4 DEF a
    <3> QED BY <2>3, <3>1
  <2> QED BY <2>3, <2>4, <2>5 DEF s, a, r
<1>5. x \in Seq(Byte) /\ Len(x) = IdBytes /\ \A j \in 1..IdBytes : x[j] = text[m + j]
  <2>1. m + IdBytes <= Len(text)
    BY <1>1, <1>3, Widths
  <2> QED BY <1>4, <2>1, Widths
<1>6. y \in Seq(Byte) /\ Len(y) = LenBytes /\ \A j \in 1..LenBytes : y[j] = text[(m + IdBytes) + j]
  <2> DEFINE l == m + IdBytes
  <2>1. l \in Nat /\ l + LenBytes <= Len(text) /\ l + LenBytes = m + HeaderLen
    BY <1>1, <1>3, Widths
  <2>2. y = SubSeq(text, l + 1, l + LenBytes)
    BY <2>1
  <2> HIDE DEF l, y
  <2>3. y \in Seq(Byte) /\ Len(y) = LenBytes /\ \A j \in 1..LenBytes : y[j] = text[l + j]
    BY <1>4, <2>1, <2>2, Widths
  <2> QED BY <2>3 DEF l
<1>7. d \in Seq(Byte) /\ Len(d) = len /\ \A j \in 1..len : d[j] = text[(m + HeaderLen) + j]
  <2> DEFINE l == m + HeaderLen
  <2>1. l \in Nat /\ l + len <= Len(text)
    BY <1>1, <1>2, Widths
  <2> HIDE DEF l
  <2>2. LET s == SubSeq(text, l + 1, l + len)
        IN s \in Seq(Byte) /\ Len(s) = len /\ \A j \in 1..len : s[j] = text[l + j]
    BY <1>2, <1>4, <2>1
  <2> QED BY <2>2 DEF l
<1>8. len = Uint(y)
  BY DEF len, LengthAt
<1> HIDE DEF x, y, d, b
<1>9. b.id = Uint(x) /\ b.length = len /\ b.data = d
  BY <1>2
<1>10. b \in Honest
  BY <1>2, <1>7, <1>9 DEF Honest
<1>11. PutUint(b.id, IdBytes) = x /\ PutUint(b.length, LenBytes) = y
  BY <1>5, <1>6, <1>8, <1>9, PutOfUint
<1>12. /\ \A j \in 1..IdBytes : e[j] = x[j]
       /\ \A j \in 1..LenBytes : e[IdBytes + j] = y[j]
       /\ \A j \in 1..len : e[HeaderLen + j] = d[j]
  BY <1>9, <1>10, <1>11, EncodedIs
<1> HIDE DEF e
<1>13. ASSUME NEW j \in 1..HeaderLen+len PROVE e[j] = text[m + j]
  <2>0. j \in Nat
    BY <1>2, Widths
  <2>1. CASE j <= IdBytes
    <3>1. j \in 1..IdBytes
      BY <2>0, <2>1, Widths
    <3> QED BY <1>5, <1>12, <3>1
  <2>2. CASE IdBytes < j /\ j <= HeaderLen
    <3> DEFINE k == j - IdBytes
    <3>1. k \in 1..LenBytes /\ IdBytes + k = j /\ (m + IdBytes) + k = m + j
      BY <1>3, <2>0, <2>2, Widths
    <3> QED BY <1>6, <1>12, <3>1
  <2>3. CASE HeaderLen < j
    <3> DEFINE k == j - HeaderLen
    <3>1. k \in 1..len /\ HeaderLen + k = j /\ (m + HeaderLen) + k = m + j
      BY <1>2, <2>0, <2>3, Widths
    <3> QED BY <1>7, <1>12, <3>1
  <2> QED BY <2>0, <2>1, <2>2, <2>3, Widths
<1> QED BY <1>2, <1>9, <1>10, <1>13 DEF b, len, e

\* Whatever the parsers accept is, up to the end of the last block, what Serialize makes of
\* the frame that they return: no field is skipped, read twice or taken from beyond the message
\* (GetBlock stands for the loop body of Deserialize and of parseFrame).
THEOREM NothingInvented ==
  ASSUME NEW text \in Seq(Byte), parseFrame(text) # Rejected
  PROVE  IsPrefix(Serialize(parseFrame(text)), text)
<1> DEFINE n == text[2]
           f == parseFrame(text)
           bs == f.sessions
           w == Serialize(f)
<1>1. PICK o : Len(text) >= 2 /\ Offsets(text, n, o) /\ f = FrameAt(text, o)
  BY ParsesExactly
<1>2. n \in Nat /\ n \in Byte /\ text[1] \in Byte /\ Len(text) \in Nat /\ 0 \in 0..n /\ n \in 0..n
  <2>1. Len(text) \in Nat /\ 1 \in 1..Len(text) /\ 2 \in 1..Len(text)
    BY <1>1, LenProperties
  <2>2. n \in Byte /\ text[1] \in Byte
    BY <2>1, ElementOfSeq
  <2>3. n \in Nat
    BY <2>2, CodecAssumption DEF Byte
  <2> QED BY <2>1, <2>2, <2>3
<1>3. /\ \A i \in 0..n : o[i] \in Nat
      /\ o[0] = 2 /\ \A i \in 1..n : FitsAt(text, o[i - 1]) /\ o[i] = EndAt(text, o[i - 1])
  BY <1>1 DEF Offsets
<1>4. \A i \in 1..n : i - 1 \in 0..n /\ i \in 0..n /\ o[i - 1] \in Nat /\ o[i] \in Nat
  BY <1>2, <1>3
<1>5. f.type = text[1] /\ f.count = n /\ bs = [i \in 1..n |-> BlockAt(text, o[i - 1])]
  BY <1>1 DEF FrameAt
<1> HIDE DEF n, f
<1>6. \A i \in 1..n : bs[i] = BlockAt(text, o[i - 1])
  BY <1>5
<1> HIDE DEF bs
<1>7. ASSUME NEW i \in 1..n
      PROVE  /\ bs[i] \in Honest /\ bs[i].length \in Nat
             /\ o[i] = o[i - 1] + HeaderLen + bs[i].length
             /\ \A j \in 1..HeaderLen+bs[i].length : Encoded(bs[i])[j] = text[o[i - 1] + j]
  <2> DEFINE m == o[i - 1]
  <2>1. m \in Nat /\ FitsAt(text, m) /\ o[i] = EndAt(text, m) /\ bs[i] = BlockAt(text, m)
    BY <1>3, <1>4, <1>6
  <2> HIDE DEF m
  <2>2. /\ bs[i] \in Honest /\ bs[i].length = LengthAt(text, m) /\ LengthAt(text, m) \in Nat
        /\ \A j \in 1..HeaderLen+LengthAt(text, m) : Encoded(bs[i])[j] = text[m + j]
    BY <2>1, WriteBack
  <2>3. o[i] = m + HeaderLen + bs[i].length
    BY <2>1, <2>2 DEF EndAt
  <2> QED BY <2>2, <2>3 DEF m
<1>8. bs \in Seq(Honest) /\ Len(bs) = n
  <2>1. bs \in [1..n -> Honest]
    BY <1>5, <1>7 DEF bs
  <2> QED BY <1>2, <2>1, SeqDef, LenProperties
<1>9. PICK at : /\ Ends(bs, at) /\ w \in Seq(Byte) /\ Len(w) = at[n]
                /\ w[1] = text[1] /\ w[2] = n /\ Written(bs, n, at, w)
  <2>1. f.type \in Byte /\ f.count \in Byte /\ f.sessions \in Seq(Honest) /\ Len(f.sessions) = n
    BY <1>2, <1>5, <1>8 DEF bs
  <2>2. \E at : /\ Ends(f.sessions, at)
                /\ Serialize(f) \in Seq(Byte) /\ Len(Serialize(f)) = at[Len(f.sessions)]
                /\ Serialize(f)[1] = f.type /\ Serialize(f)[2] = f.count
                /\ Written(f.sessions, Len(f.sessions), at, Serialize(f))
    BY <2>1, SerializeIs
  <2> QED BY <1>5, <2>1, <2>2 DEF bs
<1> HIDE DEF w
<1>10. /\ at[0] = 2 /\ \A i \in 1..n : at[i] = at[i - 1] + HeaderLen + bs[i].length
  BY <1>8, <1>9 DEF Ends
<1> DEFINE S == {i \in Nat : i \in 0..n => at[i] = o[i] /\ \A k \in 1..o[i] : w[k] = text[k]}
<1>11. 0 \in S
  <2>1. \A k \in 1..2 : w[k] = text[k]
    <3>1. \A k \in 1..2 : k = 1 \/ k = 2
      OBVIOUS
    <3>2. w[1] = text[1] /\ w[2] = text[2]
      BY <1>9 DEF n
    <3> QED BY <3>1, <3>2
  <2> QED BY <1>3, <1>10, <2>1
<1>12. ASSUME NEW i \in Nat, i \in S PROVE i + 1 \in S
  <2> SUFFICES ASSUME i + 1 \in 0..n
               PROVE  at[i + 1] = o[i + 1] /\ \A k \in 1..o[i + 1] : w[k] = text[k]
    OBVIOUS
  <2> DEFINE b == bs[i + 1]
             l == b.length
             m == o[i]
  <2>1. i \in 0..n /\ i + 1 \in 1..n /\ (i + 1) - 1 = i
    BY <1>2
  <2>2. at[i] = m /\ m \in Nat /\ \A k \in 1..m : w[k] = text[k]
    BY <1>3, <1>12, <2>1
  <2>3. /\ l \in Nat /\ o[i + 1] = m + HeaderLen + l
        /\ \A j \in 1..HeaderLen+l : Encoded(b)[j] = text[m + j]
    BY <1>7, <2>1
  <2>4. at[i + 1] = at[i] + HeaderLen + l
    BY <1>10, <2>1
  <2>5. \A j \in 1..HeaderLen+l : w[m + j] = Encoded(b)[j]
    BY <1>9, <2>1, <2>2, SMTT(30) DEF Written
  <2> HIDE DEF l, m, b
  <2>6. ASSUME NEW k \in 1..m+HeaderLen+l PROVE w[k] = text[k]
    <3>1. CASE k <= m
      <4>1. k \in 1..m
        BY <2>2, <3>1
      <4> QED BY <2>2, <4>1
    <3>2. CASE ~(k <= m)
      <4> DEFINE j == k - m
      <4>1. j \in 1..HeaderLen+l /\ m + j = k
        BY <2>2, <2>3, <3>2, Widths
      <4>2. w[m + j] = text[m + j]
        BY <2>3, <2>5, <4>1
      <4> QED BY <4>1, <4>2
    <3> QED BY <3>1, <3>2
  <2> QED BY <2>2, <2>3, <2>4, <2>6
<1> HIDE DEF S
<1>13. at[n] = o[n] /\ \A k \in 1..o[n] : w[k] = text[k]
  <2>1. n \in S
    BY <1>2, <1>11, <1>12, SetInduction
  <2> QED BY <1>2, <2>1 DEF S
<1>14. o[n] \in Nat /\ o[n] <= Len(text)
  <2>1. CASE n = 0
    BY <1>1, <1>2, <1>3, <2>1
  <2>2. CASE n # 0
    <3>1. n \in 1..n
      BY <1>2, <2>2
    <3>2. FitsAt(text, o[n - 1]) /\ o[n] = EndAt(text, o[n - 1])
      BY <1>3, <3>1
    <3> QED BY <1>2, <1>3, <3>2 DEF FitsAt
  <2> QED BY <2>1, <2>2
<1>15. SubSeq(w, 1, Len(w)) = SubSeq(text, 1, Len(w))
  <2> DEFINE z == o[n]
             p == SubSeq(w, 1, z)
             q == SubSeq(text, 1, z)
  <2>1. z \in 0..Len(w) /\ z \in 0..Len(text) /\ Len(w) = z
    BY <1>2, <1>9, <1>13, <1>14
  <2>2. \A k \in 1..z : w[k] = text[k]
    BY <1>13
  <2> HIDE DEF z
  <2>3. p \in Seq(Byte) /\ Len(p) = z /\ \A k \in 1..z : p[k] = w[k]
    BY <1>9, <2>1, Beginning
  <2>4. q \in Seq(Byte) /\ Len(q) = z /\ \A k \in 1..z : q[k] = text[k]
    BY <2>1, Beginning
  <2> HIDE DEF p, q
  <2>5. p = q
    BY <2>2, <2>3, <2>4, SeqEqual
  <2> QED BY <2>1, <2>5 DEF p, q
<1>16. Len(w) <= Len(text)
  BY <1>9, <1>13, <1>14
<1>17. IsPrefix(w, text)
  BY <1>15, <1>16 DEF IsPrefix
<1> QED BY <1>17 DEF w, f

-----------------------------------------------------------------------------
(* WireExact *)

LEMMA ShiftZero ==
  ASSUME NEW w \in Nat
  PROVE  ShiftBytes(0, w) = 0
<1> DEFINE S == {i \in Nat : ShiftBytes(0, i) = 0}
<1>1. 0 \in Nat /\ 0 \div Base = 0
  BY CodecAssumption
<1>2. 0 \in S
  BY <1>1, ShiftStep
<1>3. ASSUME NEW i \in Nat, i \in S PROVE i + 1 \in S
  <2>1. ShiftBytes(0, i + 1) = ShiftBytes(0, i) \div Base
    BY <1>1, ShiftStep
  <2> QED BY <1>1, <1>3, <2>1
<1> HIDE DEF S
<1>4. w \in S
  BY <1>2, <1>3, SetInduction
<1> QED BY <1>4 DEF S

\* A block that the gateway builds from an id and data that fit.
LEMMA BlockFits ==
  ASSUME NEW id \in Nat, NEW data \in Seq(Byte), ShiftBytes(id, IdBytes) = 0,
         ShiftBytes(Len(data), LenBytes) = 0
  PROVE  Block(id, data) \in Fits
<1> DEFINE b == Block(id, data)
<1>1. Len(data) \in Nat
  BY LenProperties
<1>2. Uint(PutUint(Len(data), LenBytes)) = Len(data) /\ Uint(PutUint(id, IdBytes)) = id
  BY <1>1, Widths, UintOfPut
<1>3. b = [id |-> id, length |-> Len(data), data |-> data]
  BY <1>2 DEF Block
<1> HIDE DEF b
<1>4. b.id = id /\ b.length = Len(data) /\ b.data = data
  BY <1>3
<1>5. b \in ParsedBlock
  BY <1>1, <1>3 DEF ParsedBlock
<1>6. b \in Fits
  BY <1>2, <1>4, <1>5 DEF Fits, Honest
<1> QED BY <1>6 DEF b

LEMMA SamplesFit ==
  ASSUME NEW b \in SampleBlocks
  PROVE  b \in Fits /\ Block(0, b.data) \in Fits
<1>1. /\ b = Block(b.id, b.data) /\ b.id \in Nat /\ b.data \in Seq(Byte)
      /\ ShiftBytes(b.id, IdBytes) = 0 /\ ShiftBytes(Len(b.data), LenBytes) = 0
  BY SampleAssumption DEF Byte
<1>2. Block(b.id, b.data) \in Fits
  BY <1>1, BlockFits
<1>3. ShiftBytes(0, IdBytes) = 0 /\ 0 \in Nat
  BY Widths, ShiftZero
<1>4. Block(0, b.data) \in Fits
  BY <1>1, <1>3, BlockFits
<1> QED BY <1>1, <1>2, <1>4

\* The frames of WireExact are frames whose blocks fit, with a count that is that of their blocks.
LEMMA SampleFramesAre ==
  ASSUME NEW f \in SampleFrames
  PROVE  /\ f \in [type : Byte, count : Byte, sessions : Seq(Fits)]
         /\ f.count = Len(f.sessions)
<1>0. /\ Base \in Nat /\ Base > 1 /\ 1 \in Byte
      /\ TerminalOutput \in Byte /\ Maintenance \in Byte
  BY CodecAssumption DEF Byte
<1>1. CASE \E bs \in SeqOf(SampleBlocks, MaxBlocks) : Len(bs) \in 1..Base-1 /\ f = RoundFrame(bs)
  <2>1. PICK bs \in SeqOf(SampleBlocks, MaxBlocks) : Len(bs) \in 1..Base-1 /\ f = RoundFrame(bs)
    BY <1>1
  <2>2. PICK m \in 0..MaxBlocks : bs \in [1..m -> SampleBlocks]
    BY DEF SeqOf
  <2>3. m \in Nat
    BY <2>2, CodecAssumption
  <2>4. bs \in [1..m -> Fits]
    BY <2>2, SamplesFit
  <2>5. bs \in Seq(Fits) /\ Len(bs) = m
    BY <2>3, <2>4, SeqDef, LenProperties
  <2>6. m % Base \in Byte /\ m % Base = m
    BY <1>0, <2>1, <2>3, <2>5 DEF Byte
  <2>7. f = [type |-> TerminalOutput, count |-> m % Base, sessions |-> bs]
    BY <2>1, <2>5 DEF RoundFrame
  <2> HIDE DEF RoundFrame
  <2>8. f.count = m % Base /\ f.sessions = bs
    BY <2>7
  <2> QED BY <1>0, <2>5, <2>6, <2>7, <2>8
<1>2. CASE \E b \in SampleBlocks : f = MaintenanceFrame(b.data)
  <2>1. PICK b \in SampleBlocks : f = MaintenanceFrame(b.data)
    BY <1>2
  <2> DEFINE x == Block(0, b.data)
             s == <<x>>
  <2>2. x \in Fits
    BY SamplesFit
  <2>3. f = [type |-> Maintenance, count |-> 1, sessions |-> s]
    BY <2>1 DEF MaintenanceFrame
  <2> HIDE DEF x
  <2>4. s \in Seq(Fits) /\ Len(s) = 1
    BY <2>2
  <2> HIDE DEF s
  <2>5. f.count = 1 /\ f.sessions = s
    BY <2>3
  <2>6. f \in [type : Byte, count : Byte, sessions : Seq(Fits)]
    BY <1>0, <2>3, <2>4
  <2>7. f.count = Len(f.sessions)
    <3>1. Len(f.sessions) = 1
      BY <2>4, <2>5, Zenon
    <3>2. f.count = 1
      BY <2>5
    <3> QED BY <3>1, <3>2, Zenon
  <2> QED BY <2>6, <2>7
<1> QED BY <1>1, <1>2 DEF SampleFrames

LEMMA NoneMisread == Misread = {} /\ Invented = {}
<1>1. ASSUME NEW f \in Misread PROVE FALSE
  <2> DEFINE wire == Serialize(f)
  <2>1. f \in SampleFrames
    BY DEF Misread
  <2>2. parseFrame(wire) # f
    BY DEF Misread, SerializeMaintenance
  <2>3. f \in [type : Byte, count : Byte, sessions : Seq(Fits)] /\ f.count = Len(f.sessions)
    BY <2>1, SampleFramesAre
  <2>4. f.count <= Len(f.sessions)
    <3>1. f.count \in Nat
      BY <2>3, CodecAssumption DEF Byte
    <3> QED BY <2>3, <3>1
  <2>5. parseFrame(wire) = [f EXCEPT !.sessions = SubSeq(@, 1, f.count)]
    BY <2>3, <2>4, FramesArrive
  <2>6. SubSeq(f.sessions, 1, f.count) = f.sessions
    BY <2>3, SubSeqFull, Zenon
  <2>7. [f EXCEPT !.sessions = SubSeq(@, 1, f.count)] = f
    BY <2>3, <2>6
  <2> QED BY <2>2, <2>5, <2>7
<1>2. ASSUME NEW text \in Invented PROVE FALSE
  <2>1. text \in SeqOf(SampleBytes, MaxText) /\ parseFrame(text) # Rejected
        /\ ~IsPrefix(Serialize(parseFrame(text)), text)
    BY DEF Invented
  <2>2. PICK m \in 0..MaxText : text \in [1..m -> SampleBytes]
    BY <2>1 DEF SeqOf
  <2>3. m \in Nat /\ text \in [1..m -> Byte]
    <3>1. SampleBytes \subseteq Byte /\ MaxText \in Nat
      BY CodecAssumption DEF Byte
    <3>2. m \in Nat
      BY <2>2, <3>1
    <3> QED BY <2>2, <3>1, <3>2
  <2>4. text \in Seq(Byte)
    BY <2>3, SeqDef
  <2> QED BY <2>1, <2>4, NothingInvented
<1> QED BY <1>1, <1>2

\* A frame of fewer than Base blocks that Serialize (pkg/codec/frame.go, server/graceful.go)
\* writes and that arrives whole is read as it was written, and what parseFrame
\* (workers/parser.ts) accepts is a frame, byte for byte.  That holds for bytes of any number
\* of values, ids and lengths of any width, and any blocks that fit them.
THEOREM WireIsExact == PageSpec => []WireExact
<1>1. WireExact
  BY NoneMisread DEF WireExact
<1> QED BY <1>1, PTL
=============================================================================
