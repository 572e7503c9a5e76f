-------------------------- MODULE PromptProbe_proofs --------------------------
(***************************************************************************)
(* What the SSH manager keeps, for every set of hosts and goroutines and   *)
(* every number of connections, while one shell is being probed; and that  *)
(* the probe's verdict follows from what it has read.                      *)
(*                                                                         *)
(* OrphanNeedsRace and ClosedEntryLeaves speak of the map and the links    *)
(* only.  What makes them inductive is what the goroutines hold: a client  *)
(* that is to be stored is in no other hand and not in the map (FreshOnce);*)
(* and unless calls of a host have overlapped, a goroutine that dials      *)
(* still finds no entry, and one that closes still finds the entry it read *)
(* (LookupHolds), because no second call of its kind is under way (Alone). *)
(***************************************************************************)
EXTENDS PromptProbe, SequenceTheorems, TLAPS

\* A connection that has come about has been used, and no other.
LinksDialled == \A k \in Client : link[k] = "unused" <=> k > dialled

\* An entry of the map is a client of its host.
EntriesOwn == \A h \in Host : clients[h] # 0 => clients[h] <= dialled /\ of[clients[h]] = h

\* A goroutine holds a client of its host from the moment it has one to the end of its call.
HandsOwn == \A c \in Caller :
              /\ pc[c] \in {"idle", "dial"} => hand[c] = 0
              /\ pc[c] \notin {"idle", "dial"} =>
                   hand[c] # 0 /\ hand[c] <= dialled /\ of[hand[c]] = host[c]

\* The client that GetOrCreate is about to store is not known to anyone else.
FreshOnce == \A c \in Caller : pc[c] = "store" =>
               /\ link[hand[c]] # "closed"
               /\ \A d \in Caller \ {c} : hand[d] # hand[c]
               /\ \A h \in Host : clients[h] # hand[c]

\* The client of a Close that is about to delete the entry is closed.
DeletesClosed == \A c \in Caller : pc[c] = "delete" => link[hand[c]] = "closed"

\* Set-up steps are counted from nothing, and the count is not complete before the shell.
StepsCounted == \A c \in Caller : /\ pc[c] \notin {"setup", "shell"} => step[c] = 0
                                  /\ pc[c] = "setup" => step[c] < SetUpSteps

Dialling == {"dial", "store"}
Closing == {"close", "delete"}

\* Two calls of the same kind under way for a host have raced.
Alone == \A c, d \in Caller :
           \/ c = d \/ host[c] # host[d] \/ host[c] \in raced
           \/ ~(pc[c] \in Dialling /\ pc[d] \in Dialling) /\ ~(pc[c] \in Closing /\ pc[d] \in Closing)

\* What a call has found in the map is still so, unless calls of its host have raced.
LookupHolds == \A c \in Caller : host[c] \notin raced =>
                 /\ pc[c] \in Dialling => clients[host[c]] = 0
                 /\ pc[c] \in Closing => clients[host[c]] = hand[c]

Holdings == LinksDialled /\ EntriesOwn /\ HandsOwn /\ FreshOnce /\ DeletesClosed /\ StepsCounted
Races == Alone /\ LookupHolds
SSHInv == SSHTypeOK /\ Holdings /\ Races /\ OrphanNeedsRace /\ ClosedEntryLeaves /\ ChannelsAccounted

\* A step of the manager, of a shell on one of its clients, or of the network.
SSHStep == \/ \E c \in Caller : ManagerStep(c) \/ NewSession(c) \/ SetUp(c) \/ ShellClose(c)
           \/ \E k \in Client : LinkDrops(k)

\* No probe is under way, and none has returned, on a shell that is being set up.
NewShellUnprobed == pc[Owner] = "setup" => probe = "idle" /\ verdict = "none"

Inv == SSHInv /\ NewShellUnprobed /\ VerdictJustified

\* A step of a shell on a client.
ShellStep(c) == NewSession(c) \/ SetUp(c) \/ ShellClose(c)

\* What such a step does to the goroutine: it goes on with its client, or lets it go.
GoesOn(c) == /\ pc[c] \in {"have", "setup", "shell"} /\ UNCHANGED <<poolVars, host, hand>>
             /\ pc' = [pc EXCEPT ![c] = "setup"] \/ pc' = [pc EXCEPT ![c] = "shell"]
GoesIdle(c) == /\ pc[c] \in {"have", "setup", "shell"} /\ UNCHANGED <<poolVars, host>>
               /\ pc' = [pc EXCEPT ![c] = "idle"] /\ hand' = [hand EXCEPT ![c] = 0]

\* What Connect does: the dial fails, or yields connection n, which nobody knows yet.
DialFails(c) == /\ pc[c] = "dial" /\ pc' = [pc EXCEPT ![c] = "idle"]
                /\ UNCHANGED <<poolVars, host, hand, step, open>>
DialYields(c, n) == /\ pc[c] = "dial" /\ pc' = [pc EXCEPT ![c] = "store"]
                    /\ hand' = [hand EXCEPT ![c] = n]
                    /\ n \in Client /\ n \in 0..MaxClients /\ n = dialled + 1 /\ dialled' = n
                    /\ link' = [link EXCEPT ![n] = "live"] /\ of' = [of EXCEPT ![n] = host[c]]
                    /\ link[n] = "unused"
                    /\ \A h \in Host : clients[h] # n
                    /\ \A d \in Caller : hand[d] # n
                    /\ UNCHANGED <<clients, raced, host, step, open>>

-----------------------------------------------------------------------------
\* OpenPTY and ptySession.Close change nothing in the manager; the goroutine goes on
\* with its client, or lets it go.
LEMMA ShellStepEffect ==
  ASSUME SSHTypeOK, NEW c \in Caller, ShellStep(c)
  PROVE  GoesOn(c) \/ GoesIdle(c)
<1>1. CASE NewSession(c)
  BY <1>1 DEF NewSession, LetGo, Goto, GoesOn, GoesIdle
<1>2. CASE SetUp(c)
  BY <1>2 DEF SetUp, LetGo, Goto, GoesOn, GoesIdle
<1>3. CASE ShellClose(c)
  BY <1>3 DEF ShellClose, LetGo, Goto, GoesOn, GoesIdle
<1> QED BY <1>1, <1>2, <1>3 DEF ShellStep

\* A goroutine on its way holds a connection that has come about.
LEMMA HandClient ==
  ASSUME SSHInv, NEW c \in Caller, pc[c] \notin {"idle", "dial"}
  PROVE  /\ hand[c] \in Client /\ hand[c] <= dialled
         /\ of[hand[c]] = host[c] /\ link[hand[c]] # "unused"
<1>1. hand[c] # 0 /\ hand[c] <= dialled /\ of[hand[c]] = host[c]
  BY DEF SSHInv, Holdings, HandsOwn
<1>2. hand[c] \in 0..MaxClients /\ dialled \in 0..MaxClients
  BY DEF SSHInv, SSHTypeOK
<1>3. hand[c] \in Client
  BY <1>1, <1>2 DEF Client
<1>4. ~(hand[c] > dialled)
  BY <1>1, <1>2
<1>5. link[hand[c]] # "unused"
  BY <1>3, <1>4 DEF SSHInv, Holdings, LinksDialled
<1> QED BY <1>1, <1>3, <1>5

\* ssh.Dial fails, or yields a connection that neither the map nor any goroutine knows.
LEMMA ConnectEffect ==
  ASSUME SSHInv, NEW c \in Caller, Connect(c)
  PROVE  DialFails(c) \/ DialYields(c, dialled + 1)
<1>1. pc[c] = "dial" /\ UNCHANGED <<clients, raced, host, step, open>>
  BY DEF Connect
<1>2. CASE Goto(c, "idle") /\ UNCHANGED <<dialled, link, of, hand>>
  BY <1>1, <1>2 DEF Goto, DialFails, poolVars
<1>3. CASE ~(Goto(c, "idle") /\ UNCHANGED <<dialled, link, of, hand>>)
  <2>1. /\ dialled < MaxClients /\ dialled' = dialled + 1
        /\ link' = [link EXCEPT ![dialled + 1] = "live"]
        /\ of' = [of EXCEPT ![dialled + 1] = host[c]]
        /\ hand' = [hand EXCEPT ![c] = dialled + 1] /\ pc' = [pc EXCEPT ![c] = "store"]
    BY <1>3 DEF Connect, Goto
  <2>2. dialled \in 0..MaxClients
    BY DEF SSHInv, SSHTypeOK
  <2>3. dialled + 1 \in Client /\ dialled + 1 \in 0..MaxClients /\ dialled + 1 > dialled /\ dialled \in Nat
    BY <2>1, <2>2, MaxClientsAssumption DEF Client
  <2>4. link[dialled + 1] = "unused"
    BY <2>3 DEF SSHInv, Holdings, LinksDialled
  <2>5. ASSUME NEW h \in Host PROVE clients[h] # dialled + 1
    <3>1. clients[h] = 0 \/ clients[h] <= dialled
      BY DEF SSHInv, Holdings, EntriesOwn
    <3> QED BY <2>3, <3>1
  <2>6. ASSUME NEW d \in Caller PROVE hand[d] # dialled + 1
    <3>1. hand[d] = 0 \/ hand[d] <= dialled
      BY DEF SSHInv, Holdings, HandsOwn
    <3> QED BY <2>3, <3>1
  <2> QED BY <1>1, <2>1, <2>3, <2>4, <2>5, <2>6 DEF DialYields
<1> QED BY <1>2, <1>3

\* The types of the manager's variables are kept by every step.
LEMMA SSHTypeStep ==
  ASSUME SSHInv, SSHStep
  PROVE  SSHTypeOK'
<1>1. ASSUME NEW c \in Caller, NEW h \in Host, GetOrCreate(c, h) PROVE SSHTypeOK'
  <2>1. clients[h] \in 0..MaxClients
    BY DEF SSHInv, SSHTypeOK
  <2>2. hand' \in [Caller -> 0..MaxClients] /\ pc' \in [Caller -> Where] /\ raced' \subseteq Host
    BY <1>1, <2>1 DEF GetOrCreate, Goto, SSHInv, SSHTypeOK, Where
  <2>3. host' \in [Caller -> Host] /\ UNCHANGED <<clients, link, dialled, of, step, open>>
    BY <1>1 DEF GetOrCreate, SSHInv, SSHTypeOK
  <2> QED BY <2>2, <2>3 DEF SSHInv, SSHTypeOK
<1>2. ASSUME NEW c \in Caller, Connect(c) PROVE SSHTypeOK'
  <2>1. CASE DialFails(c)
    BY <2>1 DEF DialFails, poolVars, SSHInv, SSHTypeOK, Where
  <2>2. CASE DialYields(c, dialled + 1)
    BY <2>2 DEF DialYields, SSHInv, SSHTypeOK, Where
  <2> QED BY <1>2, <2>1, <2>2, ConnectEffect
<1>3. ASSUME NEW c \in Caller, Store(c) PROVE SSHTypeOK'
  BY <1>3 DEF Store, Goto, SSHInv, SSHTypeOK, Where
<1>4. ASSUME NEW c \in Caller, NEW h \in Host, Close(c, h) PROVE SSHTypeOK'
  BY <1>4 DEF Close, Goto, SSHInv, SSHTypeOK, Where
<1>5. ASSUME NEW c \in Caller, CloseClient(c) PROVE SSHTypeOK'
  BY <1>5, HandClient DEF CloseClient, Goto, SSHInv, SSHTypeOK, Without, Where
<1>6. ASSUME NEW c \in Caller, Delete(c) PROVE SSHTypeOK'
  BY <1>6, MaxClientsAssumption DEF Delete, Goto, SSHInv, SSHTypeOK, Where
<1>7. ASSUME NEW c \in Caller, ShellStep(c) PROVE SSHTypeOK'
  <2>1. UNCHANGED <<poolVars, host>> /\ pc' \in [Caller -> Where] /\ hand' \in [Caller -> 0..MaxClients]
    BY <1>7, ShellStepEffect, MaxClientsAssumption DEF GoesOn, GoesIdle, SSHInv, SSHTypeOK, Where
  <2>2. hand[c] \in Client
    BY <1>7, ShellStepEffect, HandClient DEF SSHInv, GoesOn, GoesIdle
  <2>5. step[c] \in 0..SetUpSteps /\ (pc[c] = "setup" => step[c] < SetUpSteps)
    BY DEF SSHInv, SSHTypeOK, Holdings, StepsCounted
  <2>3. step' \in [Caller -> 0..SetUpSteps]
    <3>1. CASE step' = [step EXCEPT ![c] = 0]
      BY <3>1 DEF SSHInv, SSHTypeOK, SetUpSteps
    <3>2. CASE step' = step
      BY <3>2 DEF SSHInv, SSHTypeOK
    <3>3. CASE pc[c] = "setup" /\ step' = [step EXCEPT ![c] = @ + 1]
      <4>1. step[c] + 1 \in 0..SetUpSteps
        BY <3>3, <2>5 DEF SetUpSteps
      <4> QED BY <3>3, <4>1 DEF SSHInv, SSHTypeOK
    <3> QED BY <1>7, <3>1, <3>2, <3>3 DEF ShellStep, NewSession, SetUp, ShellClose, LetGo
  <2>4. open' \subseteq Client \X Caller
    <3>1. open' \subseteq open \cup {<<hand[c], c>>}
      BY <1>7 DEF ShellStep, NewSession, SetUp, ShellClose
    <3> QED BY <2>2, <3>1 DEF SSHInv, SSHTypeOK
  <2> QED BY <2>1, <2>3, <2>4 DEF SSHInv, SSHTypeOK, poolVars
<1>8. ASSUME NEW k \in Client, LinkDrops(k) PROVE SSHTypeOK'
  BY <1>8 DEF LinkDrops, SSHInv, SSHTypeOK, callVars, Without
<1> QED BY <1>1, <1>2, <1>3, <1>4, <1>5, <1>6, <1>7, <1>8 DEF SSHStep, ManagerStep, ShellStep

\* Only a dial makes an unused connection a used one.
LEMMA LinksDialledStep ==
  ASSUME SSHInv, SSHStep
  PROVE  LinksDialled'
<1>1. ASSUME NEW c \in Caller, NEW h \in Host, GetOrCreate(c, h) PROVE LinksDialled'
  BY <1>1 DEF GetOrCreate, Goto, SSHInv, Holdings, LinksDialled
<1>2. ASSUME NEW c \in Caller, Connect(c) PROVE LinksDialled'
  <2>1. CASE DialFails(c)
    BY <2>1 DEF DialFails, poolVars, SSHInv, Holdings, LinksDialled
  <2>2. CASE DialYields(c, dialled + 1)
    BY <2>2 DEF DialYields, SSHInv, SSHTypeOK, Holdings, LinksDialled, Client
  <2> QED BY <1>2, <2>1, <2>2, ConnectEffect
<1>3. ASSUME NEW c \in Caller, Store(c) PROVE LinksDialled'
  BY <1>3 DEF Store, Goto, SSHInv, Holdings, LinksDialled
<1>4. ASSUME NEW c \in Caller, NEW h \in Host, Close(c, h) PROVE LinksDialled'
  BY <1>4 DEF Close, Goto, SSHInv, Holdings, LinksDialled
<1>5. ASSUME NEW c \in Caller, CloseClient(c) PROVE LinksDialled'
  <2>1. hand[c] \in Client /\ link[hand[c]] # "unused"
    BY <1>5, HandClient DEF CloseClient
  <2>2. link' = [link EXCEPT ![hand[c]] = "closed"] /\ dialled' = dialled
    BY <1>5 DEF CloseClient
  <2> QED BY <2>1, <2>2 DEF SSHInv, Holdings, LinksDialled
<1>6. ASSUME NEW c \in Caller, Delete(c) PROVE LinksDialled'
  BY <1>6 DEF Delete, Goto, SSHInv, Holdings, LinksDialled
<1>7. ASSUME NEW c \in Caller, ShellStep(c) PROVE LinksDialled'
  <2>1. CASE GoesOn(c)
    BY <2>1 DEF GoesOn, poolVars, SSHInv, Holdings, LinksDialled
  <2>2. CASE GoesIdle(c)
    BY <2>2 DEF GoesIdle, poolVars, SSHInv, Holdings, LinksDialled
  <2> QED BY <1>7, <2>1, <2>2, ShellStepEffect DEF SSHInv
<1>8. ASSUME NEW k \in Client, LinkDrops(k) PROVE LinksDialled'
  BY <1>8 DEF LinkDrops, SSHInv, callVars, Holdings, LinksDialled
<1> QED BY <1>1, <1>2, <1>3, <1>4, <1>5, <1>6, <1>7, <1>8 DEF SSHStep, ManagerStep, ShellStep

\* An entry is only ever overwritten by a client of its host.
LEMMA EntriesOwnStep ==
  ASSUME SSHInv, SSHStep
  PROVE  EntriesOwn'
<1>1. ASSUME NEW c \in Caller, NEW h \in Host, GetOrCreate(c, h) PROVE EntriesOwn'
  BY <1>1 DEF GetOrCreate, Goto, SSHInv, Holdings, EntriesOwn
<1>2. ASSUME NEW c \in Caller, Connect(c) PROVE EntriesOwn'
  <2>1. CASE DialFails(c)
    BY <2>1 DEF DialFails, poolVars, SSHInv, Holdings, EntriesOwn
  <2>2. CASE DialYields(c, dialled + 1)
    BY <2>2 DEF DialYields, SSHInv, SSHTypeOK, Holdings, EntriesOwn
  <2> QED BY <1>2, <2>1, <2>2, ConnectEffect
<1>3. ASSUME NEW c \in Caller, Store(c) PROVE EntriesOwn'
  BY <1>3 DEF Store, Goto, SSHInv, Holdings, EntriesOwn, HandsOwn
<1>4. ASSUME NEW c \in Caller, NEW h \in Host, Close(c, h) PROVE EntriesOwn'
  BY <1>4 DEF Close, Goto, SSHInv, Holdings, EntriesOwn
<1>5. ASSUME NEW c \in Caller, CloseClient(c) PROVE EntriesOwn'
  BY <1>5, HandClient DEF CloseClient, Goto, SSHInv, Holdings, EntriesOwn
<1>6. ASSUME NEW c \in Caller, Delete(c) PROVE EntriesOwn'
  BY <1>6 DEF Delete, Goto, SSHInv, Holdings, EntriesOwn
<1>7. ASSUME NEW c \in Caller, ShellStep(c) PROVE EntriesOwn'
  <2>1. CASE GoesOn(c)
    BY <2>1 DEF GoesOn, poolVars, SSHInv, Holdings, EntriesOwn
  <2>2. CASE GoesIdle(c)
    BY <2>2 DEF GoesIdle, poolVars, SSHInv, Holdings, EntriesOwn
  <2> QED BY <1>7, <2>1, <2>2, ShellStepEffect DEF SSHInv
<1>8. ASSUME NEW k \in Client, LinkDrops(k) PROVE EntriesOwn'
  BY <1>8 DEF LinkDrops, SSHInv, callVars, Holdings, EntriesOwn
<1> QED BY <1>1, <1>2, <1>3, <1>4, <1>5, <1>6, <1>7, <1>8 DEF SSHStep, ManagerStep, ShellStep

\* A goroutine gets its client from the dial or from the entry of its host.
LEMMA HandsOwnStep ==
  ASSUME SSHInv, SSHStep
  PROVE  HandsOwn'
<1>1. ASSUME NEW c \in Caller, NEW h \in Host, GetOrCreate(c, h) PROVE HandsOwn'
  BY <1>1 DEF GetOrCreate, Goto, SSHInv, SSHTypeOK, Holdings, EntriesOwn, HandsOwn
<1>2. ASSUME NEW c \in Caller, Connect(c) PROVE HandsOwn'
  <2>1. CASE DialFails(c)
    BY <2>1 DEF DialFails, poolVars, SSHInv, Holdings, HandsOwn
  <2>2. CASE DialYields(c, dialled + 1)
    BY <2>2 DEF DialYields, SSHInv, SSHTypeOK, Holdings, HandsOwn
  <2> QED BY <1>2, <2>1, <2>2, ConnectEffect
<1>3. ASSUME NEW c \in Caller, Store(c) PROVE HandsOwn'
  BY <1>3 DEF Store, Goto, SSHInv, Holdings, HandsOwn
<1>4. ASSUME NEW c \in Caller, NEW h \in Host, Close(c, h) PROVE HandsOwn'
  BY <1>4 DEF Close, Goto, SSHInv, SSHTypeOK, Holdings, EntriesOwn, HandsOwn
<1>5. ASSUME NEW c \in Caller, CloseClient(c) PROVE HandsOwn'
  BY <1>5, HandClient DEF CloseClient, Goto, SSHInv, Holdings, HandsOwn
<1>6. ASSUME NEW c \in Caller, Delete(c) PROVE HandsOwn'
  BY <1>6 DEF Delete, Goto, SSHInv, SSHTypeOK, Holdings, HandsOwn
<1>7. ASSUME NEW c \in Caller, ShellStep(c) PROVE HandsOwn'
  <2>1. CASE GoesOn(c)
    BY <2>1 DEF GoesOn, poolVars, SSHInv, SSHTypeOK, Holdings, HandsOwn
  <2>2. CASE GoesIdle(c)
    BY <2>2 DEF GoesIdle, poolVars, SSHInv, SSHTypeOK, Holdings, HandsOwn
  <2> QED BY <1>7, <2>1, <2>2, ShellStepEffect DEF SSHInv
<1>8. ASSUME NEW k \in Client, LinkDrops(k) PROVE HandsOwn'
  BY <1>8 DEF LinkDrops, SSHInv, callVars, Holdings, HandsOwn
<1> QED BY <1>1, <1>2, <1>3, <1>4, <1>5, <1>6, <1>7, <1>8 DEF SSHStep, ManagerStep, ShellStep

\* A new client is known to nobody until it is stored, so nobody closes it before.
LEMMA FreshOnceStep ==
  ASSUME SSHInv, SSHStep
  PROVE  FreshOnce'
<1>1. ASSUME NEW c \in Caller, NEW h \in Host, GetOrCreate(c, h) PROVE FreshOnce'
  <2> SUFFICES ASSUME NEW d \in Caller, pc'[d] = "store"
               PROVE  /\ link[hand'[d]] # "closed"
                      /\ \A e \in Caller \ {d} : hand'[e] # hand'[d]
                      /\ \A g \in Host : clients[g] # hand'[d]
    BY <1>1 DEF FreshOnce, GetOrCreate
  <2>1. pc[d] = "store" /\ d # c
    BY <1>1 DEF GetOrCreate, Goto, SSHInv, SSHTypeOK
  <2>2. hand'[d] = hand[d] /\ \A e \in Caller : hand'[e] = hand[e] \/ hand'[e] = clients[h]
    BY <1>1, <2>1 DEF GetOrCreate, SSHInv, SSHTypeOK
  <2> QED BY <2>1, <2>2 DEF SSHInv, Holdings, FreshOnce
<1>2. ASSUME NEW c \in Caller, Connect(c) PROVE FreshOnce'
  <2>1. CASE DialFails(c)
    BY <2>1 DEF DialFails, poolVars, SSHInv, Holdings, FreshOnce
  <2>2. CASE DialYields(c, dialled + 1)
    BY <2>2 DEF DialYields, SSHInv, SSHTypeOK, Holdings, FreshOnce
  <2> QED BY <1>2, <2>1, <2>2, ConnectEffect
<1>3. ASSUME NEW c \in Caller, Store(c) PROVE FreshOnce'
  BY <1>3 DEF Store, Goto, SSHInv, SSHTypeOK, Holdings, FreshOnce
<1>4. ASSUME NEW c \in Caller, NEW h \in Host, Close(c, h) PROVE FreshOnce'
  BY <1>4 DEF Close, Goto, SSHInv, Holdings, FreshOnce
<1>5. ASSUME NEW c \in Caller, CloseClient(c) PROVE FreshOnce'
  BY <1>5, MaxClientsAssumption, HandClient DEF CloseClient, Goto, SSHInv, Holdings, FreshOnce
<1>6. ASSUME NEW c \in Caller, Delete(c) PROVE FreshOnce'
  BY <1>6 DEF Delete, Goto, SSHInv, Holdings, HandsOwn, FreshOnce
<1>7. ASSUME NEW c \in Caller, ShellStep(c) PROVE FreshOnce'
  <2>1. CASE GoesOn(c)
    BY <2>1 DEF GoesOn, poolVars, SSHInv, SSHTypeOK, Holdings, FreshOnce
  <2>2. CASE GoesIdle(c)
    BY <2>2 DEF GoesIdle, poolVars, SSHInv, Holdings, HandsOwn, FreshOnce
  <2> QED BY <1>7, <2>1, <2>2, ShellStepEffect DEF SSHInv
<1>8. ASSUME NEW k \in Client, LinkDrops(k) PROVE FreshOnce'
  BY <1>8 DEF LinkDrops, SSHInv, callVars, Holdings, FreshOnce
<1> QED BY <1>1, <1>2, <1>3, <1>4, <1>5, <1>6, <1>7, <1>8 DEF SSHStep, ManagerStep, ShellStep

\* A closed connection stays closed.
LEMMA DeletesClosedStep ==
  ASSUME SSHInv, SSHStep
  PROVE  DeletesClosed'
<1>1. ASSUME NEW c \in Caller, NEW h \in Host, GetOrCreate(c, h) PROVE DeletesClosed'
  BY <1>1 DEF GetOrCreate, Goto, SSHInv, SSHTypeOK, Holdings, DeletesClosed
<1>2. ASSUME NEW c \in Caller, Connect(c) PROVE DeletesClosed'
  <2>1. CASE DialFails(c)
    BY <2>1 DEF DialFails, poolVars, SSHInv, Holdings, DeletesClosed
  <2>2. CASE DialYields(c, dialled + 1)
    BY <2>2 DEF DialYields, SSHInv, Holdings, DeletesClosed
  <2> QED BY <1>2, <2>1, <2>2, ConnectEffect
<1>3. ASSUME NEW c \in Caller, Store(c) PROVE DeletesClosed'
  BY <1>3 DEF Store, Goto, SSHInv, Holdings, DeletesClosed
<1>4. ASSUME NEW c \in Caller, NEW h \in Host, Close(c, h) PROVE DeletesClosed'
  BY <1>4 DEF Close, Goto, SSHInv, Holdings, DeletesClosed
<1>5. ASSUME NEW c \in Caller, CloseClient(c) PROVE DeletesClosed'
  <2> SUFFICES ASSUME NEW d \in Caller, pc'[d] = "delete" PROVE link'[hand'[d]] = "closed"
    BY DEF DeletesClosed
  <2>1. hand[c] \in Client
    BY <1>5, HandClient DEF CloseClient
  <2>2. d = c \/ pc[d] = "delete"
    BY <1>5 DEF CloseClient, Goto
  <2> QED BY <1>5, <2>1, <2>2 DEF CloseClient, SSHInv, SSHTypeOK, Holdings, DeletesClosed
<1>6. ASSUME NEW c \in Caller, Delete(c) PROVE DeletesClosed'
  BY <1>6 DEF Delete, Goto, SSHInv, SSHTypeOK, Holdings, DeletesClosed
<1>7. ASSUME NEW c \in Caller, ShellStep(c) PROVE DeletesClosed'
  <2>1. CASE GoesOn(c)
    BY <2>1 DEF GoesOn, poolVars, SSHInv, SSHTypeOK, Holdings, DeletesClosed
  <2>2. CASE GoesIdle(c)
    BY <2>2 DEF GoesIdle, poolVars, SSHInv, Holdings, DeletesClosed
  <2> QED BY <1>7, <2>1, <2>2, ShellStepEffect DEF SSHInv
<1>8. ASSUME NEW k \in Client, LinkDrops(k) PROVE DeletesClosed'
  BY <1>8 DEF LinkDrops, SSHInv, callVars, Holdings, DeletesClosed
<1> QED BY <1>1, <1>2, <1>3, <1>4, <1>5, <1>6, <1>7, <1>8 DEF SSHStep, ManagerStep, ShellStep

\* A goroutine without a session has counted no step of OpenPTY.
LEMMA StepsCountedStep ==
  ASSUME SSHInv, SSHStep
  PROVE  StepsCounted'
<1>1. ASSUME NEW c \in Caller, NEW h \in Host, GetOrCreate(c, h) PROVE StepsCounted'
  BY <1>1 DEF GetOrCreate, Goto, SSHInv, SSHTypeOK, Holdings, StepsCounted
<1>2. ASSUME NEW c \in Caller, Connect(c) PROVE StepsCounted'
  <2>1. CASE DialFails(c)
    BY <2>1 DEF DialFails, poolVars, SSHInv, Holdings, StepsCounted
  <2>2. CASE DialYields(c, dialled + 1)
    BY <2>2 DEF DialYields, SSHInv, Holdings, StepsCounted
  <2> QED BY <1>2, <2>1, <2>2, ConnectEffect
<1>3. ASSUME NEW c \in Caller, Store(c) PROVE StepsCounted'
  BY <1>3 DEF Store, Goto, SSHInv, Holdings, StepsCounted
<1>4. ASSUME NEW c \in Caller, NEW h \in Host, Close(c, h) PROVE StepsCounted'
  BY <1>4 DEF Close, Goto, SSHInv, Holdings, StepsCounted
<1>5. ASSUME NEW c \in Caller, CloseClient(c) PROVE StepsCounted'
  BY <1>5, HandClient DEF CloseClient, Goto, SSHInv, Holdings, StepsCounted
<1>6. ASSUME NEW c \in Caller, Delete(c) PROVE StepsCounted'
  BY <1>6 DEF Delete, Goto, SSHInv, Holdings, StepsCounted
<1>7. ASSUME NEW c \in Caller, ShellStep(c) PROVE StepsCounted'
  <2> SUFFICES ASSUME NEW d \in Caller
               PROVE  /\ pc'[d] \notin {"setup", "shell"} => step'[d] = 0
                      /\ pc'[d] = "setup" => step'[d] < SetUpSteps
    BY DEF StepsCounted
  <2>1. step[c] \in 0..3 /\ step[d] \in 0..3
    BY DEF SSHInv, SSHTypeOK, SetUpSteps
  <2>2. /\ pc[d] \notin {"setup", "shell"} => step[d] = 0
        /\ pc[d] = "setup" => step[d] < SetUpSteps
    BY DEF SSHInv, Holdings, StepsCounted
  <2>3. CASE d # c
    BY <1>7, <2>2, <2>3 DEF ShellStep, NewSession, SetUp, ShellClose, LetGo, Goto, SSHInv, SSHTypeOK
  <2>4. CASE d = c /\ NewSession(c)
    BY <2>2, <2>4 DEF NewSession, LetGo, Goto, SSHInv, SSHTypeOK, SetUpSteps
  <2>5. CASE d = c /\ SetUp(c)
    BY <2>1, <2>2, <2>5 DEF SetUp, LetGo, Goto, SSHInv, SSHTypeOK, SetUpSteps
  <2>6. CASE d = c /\ ShellClose(c)
    BY <2>2, <2>6 DEF ShellClose, LetGo, Goto, SSHInv, SSHTypeOK
  <2> QED BY <1>7, <2>3, <2>4, <2>5, <2>6 DEF ShellStep
<1>8. ASSUME NEW k \in Client, LinkDrops(k) PROVE StepsCounted'
  BY <1>8 DEF LinkDrops, SSHInv, callVars, Holdings, StepsCounted
<1> QED BY <1>1, <1>2, <1>3, <1>4, <1>5, <1>6, <1>7, <1>8 DEF SSHStep, ManagerStep, ShellStep

\* A second call of a kind is seen by Busy when it begins.
LEMMA AloneStep ==
  ASSUME SSHInv, SSHStep
  PROVE  Alone'
<1>1. ASSUME NEW c \in Caller, NEW h \in Host, GetOrCreate(c, h) PROVE Alone'
  BY <1>1 DEF GetOrCreate, Goto, SSHInv, SSHTypeOK, Busy, Races, Alone, Dialling, Closing
<1>2. ASSUME NEW c \in Caller, Connect(c) PROVE Alone'
  <2>1. CASE DialFails(c)
    BY <2>1 DEF DialFails, poolVars, SSHInv, Races, Alone, Dialling, Closing
  <2>2. CASE DialYields(c, dialled + 1)
    BY <2>2 DEF DialYields, SSHInv, Races, Alone, Dialling, Closing
  <2> QED BY <1>2, <2>1, <2>2, ConnectEffect
<1>3. ASSUME NEW c \in Caller, Store(c) PROVE Alone'
  BY <1>3 DEF Store, Goto, SSHInv, Races, Alone, Dialling, Closing
<1>4. ASSUME NEW c \in Caller, NEW h \in Host, Close(c, h) PROVE Alone'
  BY <1>4 DEF Close, Goto, SSHInv, SSHTypeOK, Busy, Races, Alone, Dialling, Closing
<1>5. ASSUME NEW c \in Caller, CloseClient(c) PROVE Alone'
  BY <1>5, HandClient DEF CloseClient, Goto, SSHInv, Races, Alone, Dialling, Closing
<1>6. ASSUME NEW c \in Caller, Delete(c) PROVE Alone'
  BY <1>6 DEF Delete, Goto, SSHInv, Races, Alone, Dialling, Closing
<1>7. ASSUME NEW c \in Caller, ShellStep(c) PROVE Alone'
  <2>1. CASE GoesOn(c)
    BY <2>1 DEF GoesOn, poolVars, SSHInv, SSHTypeOK, Races, Alone, Dialling, Closing
  <2>2. CASE GoesIdle(c)
    BY <2>2 DEF GoesIdle, poolVars, SSHInv, Races, Alone, Dialling, Closing
  <2> QED BY <1>7, <2>1, <2>2, ShellStepEffect DEF SSHInv
<1>8. ASSUME NEW k \in Client, LinkDrops(k) PROVE Alone'
  BY <1>8 DEF LinkDrops, SSHInv, callVars, Races, Alone, Dialling, Closing
<1> QED BY <1>1, <1>2, <1>3, <1>4, <1>5, <1>6, <1>7, <1>8 DEF SSHStep, ManagerStep, ShellStep

\* Without an overlap nobody changes the entry under a call.
LEMMA LookupHoldsStep ==
  ASSUME SSHInv, SSHStep
  PROVE  LookupHolds'
<1>1. ASSUME NEW c \in Caller, NEW h \in Host, GetOrCreate(c, h) PROVE LookupHolds'
  BY <1>1 DEF GetOrCreate, Goto, SSHInv, SSHTypeOK, Races, Alone, LookupHolds, Dialling,
     Closing
<1>2. ASSUME NEW c \in Caller, Connect(c) PROVE LookupHolds'
  <2>1. CASE DialFails(c)
    BY <2>1 DEF DialFails, poolVars, SSHInv, Races, Alone, LookupHolds, Dialling, Closing
  <2>2. CASE DialYields(c, dialled + 1)
    BY <2>2 DEF DialYields, SSHInv, Races, Alone, LookupHolds, Dialling, Closing
  <2> QED BY <1>2, <2>1, <2>2, ConnectEffect
<1>3. ASSUME NEW c \in Caller, Store(c) PROVE LookupHolds'
  BY <1>3 DEF Store, Goto, SSHInv, SSHTypeOK, Races, Alone, LookupHolds, Dialling, Closing,
     Holdings, HandsOwn
<1>4. ASSUME NEW c \in Caller, NEW h \in Host, Close(c, h) PROVE LookupHolds'
  BY <1>4 DEF Close, Goto, SSHInv, SSHTypeOK, Races, Alone, LookupHolds, Dialling, Closing
<1>5. ASSUME NEW c \in Caller, CloseClient(c) PROVE LookupHolds'
  BY <1>5, HandClient DEF CloseClient, Goto, SSHInv, Races, Alone, LookupHolds, Dialling,
     Closing
<1>6. ASSUME NEW c \in Caller, Delete(c) PROVE LookupHolds'
  BY <1>6 DEF Delete, Goto, SSHInv, SSHTypeOK, Races, Alone, LookupHolds, Dialling, Closing
<1>7. ASSUME NEW c \in Caller, ShellStep(c) PROVE LookupHolds'
  <2>1. CASE GoesOn(c)
    BY <2>1 DEF GoesOn, poolVars, SSHInv, SSHTypeOK, Races, Alone, LookupHolds, Dialling,
       Closing
  <2>2. CASE GoesIdle(c)
    BY <2>2 DEF GoesIdle, poolVars, SSHInv, Races, Alone, LookupHolds, Dialling, Closing
  <2> QED BY <1>7, <2>1, <2>2, ShellStepEffect DEF SSHInv
<1>8. ASSUME NEW k \in Client, LinkDrops(k) PROVE LookupHolds'
  BY <1>8 DEF LinkDrops, SSHInv, callVars, Races, Alone, LookupHolds, Dialling, Closing
<1> QED BY <1>1, <1>2, <1>3, <1>4, <1>5, <1>6, <1>7, <1>8 DEF SSHStep, ManagerStep, ShellStep

\* A live client that leaves the map, or that is not stored in it, is one of a race.
LEMMA OrphanStep ==
  ASSUME SSHInv, SSHStep
  PROVE  OrphanNeedsRace'
<1>1. ASSUME NEW c \in Caller, NEW h \in Host, GetOrCreate(c, h) PROVE OrphanNeedsRace'
  <2> SUFFICES ASSUME NEW k \in Client, link[k] = "live", clients[of[k]] # k, of[k] \notin raced
               PROVE  \E d \in Caller : pc'[d] = "store" /\ hand'[d] = k
    BY <1>1 DEF OrphanNeedsRace, GetOrCreate
  <2>1. PICK d \in Caller : pc[d] = "store" /\ hand[d] = k
    BY DEF SSHInv, OrphanNeedsRace
  <2>2. d # c
    BY <1>1, <2>1 DEF GetOrCreate
  <2> QED BY <1>1, <2>1, <2>2 DEF GetOrCreate, Goto, SSHInv, SSHTypeOK
<1>2. ASSUME NEW c \in Caller, Connect(c) PROVE OrphanNeedsRace'
  <2> SUFFICES ASSUME NEW k \in Client, link'[k] = "live", clients'[of'[k]] # k, of'[k] \notin raced'
               PROVE  \E d \in Caller : pc'[d] = "store" /\ hand'[d] = k
    BY DEF OrphanNeedsRace
  <2>1. CASE k = dialled + 1 /\ hand'[c] = k /\ pc'[c] = "store"
    BY <2>1
  <2>2. CASE link'[k] = link[k] /\ of'[k] = of[k]
    <3>1. PICK d \in Caller : pc[d] = "store" /\ hand[d] = k
      BY <1>2, <2>2 DEF Connect, SSHInv, OrphanNeedsRace
    <3> QED BY <1>2, <3>1 DEF Connect, Goto, SSHInv, SSHTypeOK
  <2> QED BY <1>2, <2>1, <2>2 DEF Connect, Goto, SSHInv, SSHTypeOK
<1>3. ASSUME NEW c \in Caller, Store(c) PROVE OrphanNeedsRace'
  <2> SUFFICES ASSUME NEW k \in Client, link[k] = "live", clients'[of[k]] # k, of[k] \notin raced
               PROVE  \E d \in Caller : pc'[d] = "store" /\ hand'[d] = k
    BY <1>3 DEF OrphanNeedsRace, Store
  <2>1. of[k] \in Host /\ host[c] \in Host
    BY DEF SSHInv, SSHTypeOK
  <2>2. clients[of[k]] # k
    <3>1. CASE of[k] = host[c]
      <4>1. clients[host[c]] = 0
        BY <1>3, <3>1 DEF Store, SSHInv, Races, LookupHolds, Dialling
      <4> QED BY <3>1, <4>1 DEF Client
    <3>2. CASE of[k] # host[c]
      BY <1>3, <2>1, <3>2 DEF Store
    <3> QED BY <3>1, <3>2
  <2>3. PICK d \in Caller : pc[d] = "store" /\ hand[d] = k
    BY <2>2 DEF SSHInv, OrphanNeedsRace
  <2>4. d # c
    <3> SUFFICES ASSUME d = c PROVE FALSE
      OBVIOUS
    <3>1. of[k] = host[c]
      BY <2>3 DEF SSHInv, Holdings, HandsOwn
    <3> QED BY <1>3, <2>1, <2>3, <3>1 DEF Store, SSHInv, SSHTypeOK
  <2> QED BY <1>3, <2>3, <2>4 DEF Store, Goto
<1>4. ASSUME NEW c \in Caller, NEW h \in Host, Close(c, h) PROVE OrphanNeedsRace'
  BY <1>4 DEF Close, Goto, SSHInv, OrphanNeedsRace
<1>5. ASSUME NEW c \in Caller, CloseClient(c) PROVE OrphanNeedsRace'
  BY <1>5, HandClient DEF CloseClient, Goto, SSHInv, OrphanNeedsRace
<1>6. ASSUME NEW c \in Caller, Delete(c) PROVE OrphanNeedsRace'
  <2> SUFFICES ASSUME NEW k \in Client, link[k] = "live", clients'[of[k]] # k, of[k] \notin raced
               PROVE  \E d \in Caller : pc'[d] = "store" /\ hand'[d] = k
    BY <1>6 DEF OrphanNeedsRace, Delete
  <2>1. of[k] \in Host /\ host[c] \in Host
    BY DEF SSHInv, SSHTypeOK
  <2>2. clients[of[k]] # k
    <3>1. CASE of[k] = host[c]
      <4>1. clients[host[c]] = hand[c] /\ link[hand[c]] = "closed"
        BY <1>6, <3>1 DEF Delete, SSHInv, Races, LookupHolds, Closing, Holdings, DeletesClosed
      <4> QED BY <3>1, <4>1
    <3>2. CASE of[k] # host[c]
      BY <1>6, <2>1, <3>2 DEF Delete
    <3> QED BY <3>1, <3>2
  <2>3. PICK d \in Caller : pc[d] = "store" /\ hand[d] = k
    BY <2>2 DEF SSHInv, OrphanNeedsRace
  <2>4. d # c
    BY <1>6, <2>3 DEF Delete
  <2> QED BY <1>6, <2>3, <2>4 DEF Delete, Goto
<1>7. ASSUME NEW c \in Caller, ShellStep(c) PROVE OrphanNeedsRace'
  <2>1. CASE GoesOn(c)
    BY <2>1 DEF GoesOn, poolVars, SSHInv, SSHTypeOK, OrphanNeedsRace
  <2>2. CASE GoesIdle(c)
    BY <2>2 DEF GoesIdle, poolVars, SSHInv, OrphanNeedsRace
  <2> QED BY <1>7, <2>1, <2>2, ShellStepEffect DEF SSHInv
<1>8. ASSUME NEW k \in Client, LinkDrops(k) PROVE OrphanNeedsRace'
  BY <1>8 DEF LinkDrops, SSHInv, callVars, OrphanNeedsRace
<1> QED BY <1>1, <1>2, <1>3, <1>4, <1>5, <1>6, <1>7, <1>8 DEF SSHStep, ManagerStep, ShellStep

\* A closed client is in the map only as long as its Close is at work.
LEMMA ClosedStep ==
  ASSUME SSHInv, SSHStep
  PROVE  ClosedEntryLeaves'
<1>1. ASSUME NEW c \in Caller, NEW h \in Host, GetOrCreate(c, h) PROVE ClosedEntryLeaves'
  BY <1>1 DEF GetOrCreate, Goto, SSHInv, SSHTypeOK, ClosedEntryLeaves
<1>2. ASSUME NEW c \in Caller, Connect(c) PROVE ClosedEntryLeaves'
  <2> SUFFICES ASSUME NEW h \in Host, clients'[h] # 0, link'[clients'[h]] = "closed"
               PROVE  \E d \in Caller : pc'[d] = "delete" /\ host'[d] = h /\ hand'[d] = clients'[h]
    BY DEF ClosedEntryLeaves
  <2>1. clients'[h] = clients[h] /\ link[clients[h]] = "closed"
    BY <1>2, MaxClientsAssumption, SMTT(30)
       DEF Connect, SSHInv, SSHTypeOK, Holdings, EntriesOwn, Client
  <2>2. PICK d \in Caller : pc[d] = "delete" /\ host[d] = h /\ hand[d] = clients[h]
    BY <2>1 DEF SSHInv, ClosedEntryLeaves
  <2> QED BY <1>2, <2>1, <2>2 DEF Connect, Goto, SSHInv, SSHTypeOK
<1>3. ASSUME NEW c \in Caller, Store(c) PROVE ClosedEntryLeaves'
  <2> SUFFICES ASSUME NEW h \in Host, clients'[h] # 0, link'[clients'[h]] = "closed"
               PROVE  \E d \in Caller : pc'[d] = "delete" /\ host'[d] = h /\ hand'[d] = clients'[h]
    BY DEF ClosedEntryLeaves
  <2>1. clients'[h] = clients[h] /\ link[clients[h]] = "closed"
    BY <1>3 DEF Store, SSHInv, Holdings, FreshOnce
  <2>2. PICK d \in Caller : pc[d] = "delete" /\ host[d] = h /\ hand[d] = clients[h]
    BY <2>1 DEF SSHInv, ClosedEntryLeaves
  <2> QED BY <1>3, <2>1, <2>2 DEF Store, Goto
<1>4. ASSUME NEW c \in Caller, NEW h \in Host, Close(c, h) PROVE ClosedEntryLeaves'
  BY <1>4 DEF Close, Goto, SSHInv, ClosedEntryLeaves
<1>5. ASSUME NEW c \in Caller, CloseClient(c) PROVE ClosedEntryLeaves'
  BY <1>5, HandClient DEF CloseClient, Goto, SSHInv, SSHTypeOK, ClosedEntryLeaves, Holdings,
     EntriesOwn
<1>6. ASSUME NEW c \in Caller, Delete(c) PROVE ClosedEntryLeaves'
  <2> SUFFICES ASSUME NEW h \in Host, clients'[h] # 0, link'[clients'[h]] = "closed"
               PROVE  \E d \in Caller : pc'[d] = "delete" /\ host'[d] = h /\ hand'[d] = clients'[h]
    BY DEF ClosedEntryLeaves
  <2>1. clients'[h] = clients[h] /\ link[clients[h]] = "closed"
    BY <1>6 DEF Delete
  <2>2. PICK d \in Caller : pc[d] = "delete" /\ host[d] = h /\ hand[d] = clients[h]
    BY <2>1 DEF SSHInv, ClosedEntryLeaves
  <2> QED BY <1>6, <2>1, <2>2 DEF Delete, Goto, SSHInv, SSHTypeOK
<1>7. ASSUME NEW c \in Caller, ShellStep(c) PROVE ClosedEntryLeaves'
  <2>1. CASE GoesOn(c)
    BY <2>1 DEF GoesOn, poolVars, SSHInv, SSHTypeOK, ClosedEntryLeaves
  <2>2. CASE GoesIdle(c)
    BY <2>2 DEF GoesIdle, poolVars, SSHInv, ClosedEntryLeaves
  <2> QED BY <1>7, <2>1, <2>2, ShellStepEffect DEF SSHInv
<1>8. ASSUME NEW k \in Client, LinkDrops(k) PROVE ClosedEntryLeaves'
  BY <1>8 DEF LinkDrops, SSHInv, callVars, ClosedEntryLeaves
<1> QED BY <1>1, <1>2, <1>3, <1>4, <1>5, <1>6, <1>7, <1>8 DEF SSHStep, ManagerStep, ShellStep

\* A channel ends with its connection, with a failure of OpenPTY, or with its shell.
LEMMA ChannelsStep ==
  ASSUME SSHInv, SSHStep
  PROVE  ChannelsAccounted'
<1>1. ASSUME NEW c \in Caller, NEW h \in Host, GetOrCreate(c, h) PROVE ChannelsAccounted'
  BY <1>1 DEF GetOrCreate, Goto, SSHInv, SSHTypeOK, ChannelsAccounted
<1>2. ASSUME NEW c \in Caller, Connect(c) PROVE ChannelsAccounted'
  <2> SUFFICES ASSUME NEW ch \in open
               PROVE  /\ link'[ch[1]] = "live"
                      /\ hand'[ch[2]] = ch[1] /\ pc'[ch[2]] \in {"setup", "shell"}
    BY <1>2 DEF ChannelsAccounted, Connect
  <2>1. ch[1] \in Client /\ ch[2] \in Caller
    BY DEF SSHInv, SSHTypeOK
  <2>2. link[ch[1]] = "live" /\ hand[ch[2]] = ch[1] /\ pc[ch[2]] \in {"setup", "shell"}
    BY DEF SSHInv, ChannelsAccounted
  <2> QED BY <1>2, <2>1, <2>2 DEF Connect, Goto, SSHInv, SSHTypeOK
<1>3. ASSUME NEW c \in Caller, Store(c) PROVE ChannelsAccounted'
  BY <1>3 DEF Store, Goto, SSHInv, ChannelsAccounted
<1>4. ASSUME NEW c \in Caller, NEW h \in Host, Close(c, h) PROVE ChannelsAccounted'
  BY <1>4 DEF Close, Goto, SSHInv, ChannelsAccounted
<1>5. ASSUME NEW c \in Caller, CloseClient(c) PROVE ChannelsAccounted'
  BY <1>5, HandClient DEF CloseClient, Goto, SSHInv, Without, ChannelsAccounted
<1>6. ASSUME NEW c \in Caller, Delete(c) PROVE ChannelsAccounted'
  BY <1>6 DEF Delete, Goto, SSHInv, ChannelsAccounted
<1>7. ASSUME NEW c \in Caller, ShellStep(c) PROVE ChannelsAccounted'
  <2> SUFFICES ASSUME NEW ch \in open'
               PROVE  /\ link'[ch[1]] = "live"
                      /\ hand'[ch[2]] = ch[1] /\ pc'[ch[2]] \in {"setup", "shell"}
    BY DEF ChannelsAccounted
  <2>1. link' = link /\ hand[c] \in 0..MaxClients
    BY <1>7, ShellStepEffect DEF GoesOn, GoesIdle, SSHInv, SSHTypeOK, poolVars
  <2>2. CASE ch \in open /\ ch[2] # c
    <3>1. ch[2] \in Caller /\ link[ch[1]] = "live" /\ hand[ch[2]] = ch[1] /\ pc[ch[2]] \in {"setup", "shell"}
      BY <2>2 DEF SSHInv, SSHTypeOK, ChannelsAccounted
    <3> QED BY <1>7, <2>1, <2>2, <3>1, ShellStepEffect DEF GoesOn, GoesIdle, SSHInv, SSHTypeOK
  <2>3. CASE ch \in open /\ ch[2] = c
    <3>1. ch = <<hand[c], c>> /\ link[ch[1]] = "live" /\ pc[c] # "have"
      BY <2>3 DEF SSHInv, SSHTypeOK, ChannelsAccounted
    <3>2. pc'[c] \in {"setup", "shell"} /\ hand' = hand
      BY <1>7, <3>1 DEF ShellStep, NewSession, SetUp, ShellClose, Goto, SSHInv, SSHTypeOK
    <3> QED BY <2>1, <2>3, <3>1, <3>2
  <2>4. CASE ch \notin open
    <3>1. ch = <<hand[c], c>> /\ link[hand[c]] = "live" /\ Goto(c, "setup") /\ hand' = hand
      BY <1>7, <2>4 DEF ShellStep, NewSession, SetUp, ShellClose
    <3> QED BY <2>1, <3>1 DEF Goto, SSHInv, SSHTypeOK
  <2> QED BY <2>2, <2>3, <2>4
<1>8. ASSUME NEW k \in Client, LinkDrops(k) PROVE ChannelsAccounted'
  BY <1>8 DEF LinkDrops, SSHInv, callVars, Without, ChannelsAccounted
<1> QED BY <1>1, <1>2, <1>3, <1>4, <1>5, <1>6, <1>7, <1>8 DEF SSHStep, ManagerStep, ShellStep

\* Every step of the system keeps what holds of the manager.
LEMMA SSHInvStep ==
  ASSUME SSHInv, SSHStep \/ UNCHANGED sshVars
  PROVE  SSHInv'
<1>1. CASE SSHStep
  <2>1. Holdings'
    BY <1>1, LinksDialledStep, EntriesOwnStep, HandsOwnStep, FreshOnceStep, DeletesClosedStep,
       StepsCountedStep DEF Holdings
  <2>2. Races'
    BY <1>1, AloneStep, LookupHoldsStep DEF Races
  <2> QED BY <1>1, <2>1, <2>2, SSHTypeStep, OrphanStep, ClosedStep, ChannelsStep DEF SSHInv
<1>2. CASE UNCHANGED sshVars
  <2>1. UNCHANGED <<clients, link, dialled, of, raced, pc, host, hand, step, open>>
    BY <1>2 DEF sshVars, poolVars, callVars
  <2>2. SSHTypeOK' /\ Races'
    BY <2>1 DEF SSHInv, SSHTypeOK, Races, Alone, LookupHolds
  <2>3. Holdings'
    BY <2>1 DEF SSHInv, Holdings, LinksDialled, EntriesOwn, HandsOwn, FreshOnce, DeletesClosed,
       StepsCounted
  <2>4. OrphanNeedsRace' /\ ClosedEntryLeaves' /\ ChannelsAccounted'
    BY <2>1 DEF SSHInv, OrphanNeedsRace, ClosedEntryLeaves, ChannelsAccounted
  <2> QED BY <2>2, <2>3, <2>4 DEF SSHInv
<1> QED BY <1>1, <1>2

\* A step of the system is one of the manager, a shell or the network, or leaves them alone.
LEMMA NextIsSSHStep ==
  ASSUME [Next]_vars
  PROVE  SSHStep \/ UNCHANGED sshVars
<1>1. CASE OwnerStep
  BY <1>1, OwnerAssumption DEF OwnerStep, SSHStep
<1>2. ASSUME NEW c \in Caller \ {Owner}, OtherStep(c) PROVE SSHStep
  BY <1>2 DEF OtherStep, SSHStep
<1>3. ASSUME NEW k \in Client, LinkDrops(k) PROVE SSHStep
  BY <1>3 DEF SSHStep
<1>4. ASSUME NEW t \in Output, HostWrites(t) PROVE UNCHANGED sshVars
  BY <1>4 DEF HostWrites
<1>5. CASE Expire \/ ProbeWrite \/ ProbeStep
  BY <1>5 DEF Expire, ProbeWrite, ProbeStep, LoopTop, ReadSome, ReadEnds
<1>6. CASE UNCHANGED vars
  BY <1>6 DEF vars
<1> QED BY <1>1, <1>2, <1>3, <1>4, <1>5, <1>6 DEF Next

-----------------------------------------------------------------------------
(* The probe *)

\* An empty response is neither a prompt nor an escape sequence.
LEMMA EmptyResponse == ~IsPrompt(<<>>) /\ ~HasEscape(<<>>)
  BY DEF IsPrompt, HasEscape

\* What has been cut off the output are tokens, and so is the response with it.
LEMMA CutTypes ==
  ASSUME NEW o \in Seq(Token), NEW r \in Seq(Token), NEW n \in 1..Len(o)
  PROVE  SubSeq(o, n + 1, Len(o)) \in Seq(Token) /\ r \o SubSeq(o, 1, n) \in Seq(Token)
<1>1. Len(o) \in Nat /\ n \in 1..Len(o)
  BY LenProperties
<1>2. \A i \in 1..Len(o) : o[i] \in Token
  BY ElementOfSeq
<1>3. SubSeq(o, n + 1, Len(o)) \in Seq(Token)
  BY <1>1, <1>2, SubSeqProperties
<1>4. SubSeq(o, 1, n) \in Seq(Token)
  BY <1>1, <1>2, SubSeqProperties
<1> QED BY <1>3, <1>4, ConcatProperties

\* The types of the stream's and the probe's variables.
ProbeTypeOK == /\ out \in Seq(Token) /\ sent \in 0..MaxWrites
               /\ probe \in {"idle", "loop", "read", "done"} /\ probes \in 0..MaxProbes
               /\ raw \in Seq(Token) /\ expired \in BOOLEAN /\ verdict \in Verdict

\* The variables of the stream and of the probe keep their types.
LEMMA ProbeTypeStep ==
  ASSUME ProbeTypeOK, [Next]_vars
  PROVE  ProbeTypeOK'
<1> USE ProbeBoundsAssumption DEF ProbeTypeOK, Verdict
<1>0. <<>> \in Seq(Token)
  OBVIOUS
<1>1. CASE UNCHANGED <<streamVars, probeVars>>
  BY <1>1 DEF streamVars, probeVars
<1>2. CASE Discard
  BY <1>0, <1>2 DEF Discard
<1>3. ASSUME NEW t \in Output, HostWrites(t) PROVE ProbeTypeOK'
  <2>1. t \in Seq(Token)
    BY OutputAssumption DEF Token
  <2>2. out' \in Seq(Token)
    BY <1>3, <2>1, ConcatProperties DEF HostWrites
  <2>3. sent' \in 0..MaxWrites
    BY <1>3 DEF HostWrites
  <2> QED BY <1>3, <2>2, <2>3 DEF HostWrites, probeVars
<1>4. CASE Expire
  BY <1>4 DEF Expire, streamVars
<1>5. CASE ProbeWrite
  <2>1. probes' \in 0..MaxProbes
    BY <1>5 DEF ProbeWrite
  <2> QED BY <1>0, <1>5, <2>1 DEF ProbeWrite, Return, streamVars
<1>6. CASE LoopTop
  BY <1>6 DEF LoopTop, Return, streamVars
<1>7. CASE ReadSome
  <2>1. PICK n \in 1..Len(out) : /\ raw' = raw \o SubSeq(out, 1, n)
                                 /\ out' = SubSeq(out, n + 1, Len(out)) /\ Classify(raw')
    BY <1>7 DEF ReadSome
  <2>2. raw' \in Seq(Token) /\ out' \in Seq(Token)
    BY <2>1, CutTypes
  <2>3. probe' \in {"loop", "done"} /\ verdict' \in Verdict
    BY <2>1 DEF Classify, Return
  <2> QED BY <1>7, <2>2, <2>3 DEF ReadSome
<1>8. CASE ReadEnds
  <2>1. out' \in Seq(Token)
    BY <1>8, CutTypes DEF ReadEnds
  <2> QED BY <1>8, <2>1 DEF ReadEnds, Return
<1>9. CASE UNCHANGED vars
  BY <1>1, <1>9 DEF vars
<1> QED BY <1>1, <1>2, <1>3, <1>4, <1>5, <1>6, <1>7, <1>8, <1>9
        DEF Next, OwnerStep, OtherStep, ProbeStep

\* A stream that is down does not come up again, except as a new one that has been set up.
LEMMA StreamStaysDown ==
  ASSUME SSHInv, SSHStep \/ UNCHANGED sshVars, ~StreamUp, StreamUp'
  PROVE  pc[Owner] = "setup"
<1> SUFFICES ASSUME pc[Owner] # "setup" PROVE FALSE
  OBVIOUS
<1>1. Owner \in Caller /\ pc'[Owner] = "shell" /\ <<hand'[Owner], Owner>> \in open'
  BY OwnerAssumption DEF StreamUp
<1>2. pc \in [Caller -> Where] /\ hand \in [Caller -> 0..MaxClients]
  BY DEF SSHInv, SSHTypeOK
<1>3. ASSUME NEW c \in Caller, ManagerStep(c) PROVE FALSE
  <2>1. open' \subseteq open /\ \E w \in Where \ {"shell"} : pc' = [pc EXCEPT ![c] = w]
    BY <1>3 DEF ManagerStep, Connect, Store, CloseClient, Delete, GetOrCreate, Close, Goto, Without, Where
  <2>2. c # Owner /\ pc[Owner] = "shell"
    BY <1>1, <1>2, <2>1
  <2>3. hand'[Owner] = hand[Owner]
    BY <1>1, <1>2, <1>3, <2>2
       DEF ManagerStep, Connect, Store, CloseClient, Delete, GetOrCreate, Close
  <2> QED BY <1>1, <2>1, <2>2, <2>3 DEF StreamUp
<1>4. ASSUME NEW c \in Caller, ShellStep(c) PROVE FALSE
  <2>1. CASE c = Owner
    BY <1>1, <1>2, <1>4, <2>1 DEF ShellStep, NewSession, SetUp, ShellClose, LetGo, Goto, StreamUp
  <2>2. CASE c # Owner
    <3>1. pc[Owner] = "shell" /\ hand'[Owner] = hand[Owner]
      BY <1>1, <1>2, <1>4, <2>2 DEF ShellStep, NewSession, SetUp, ShellClose, LetGo, Goto
    <3>2. open' \subseteq open \cup {<<hand[c], c>>}
      BY <1>4 DEF ShellStep, NewSession, SetUp, ShellClose
    <3> QED BY <1>1, <2>2, <3>1, <3>2 DEF StreamUp
  <2> QED BY <2>1, <2>2
<1>5. ASSUME NEW k \in Client, LinkDrops(k) PROVE FALSE
  BY <1>1, <1>5 DEF LinkDrops, Without, callVars, StreamUp
<1>6. CASE UNCHANGED sshVars
  BY <1>1, <1>6 DEF sshVars, callVars, StreamUp
<1> QED BY <1>3, <1>4, <1>5, <1>6 DEF SSHStep, ShellStep

\* The verdict and the response fit each other.
VerdictRight ==
  /\ verdict = "shell" => IsPrompt(raw)
  /\ verdict = "tui" => HasEscape(raw) /\ ~IsPrompt(raw)
  /\ verdict = "unknown" => ~HasEscape(raw) /\ ~IsPrompt(raw) /\ (expired \/ ~StreamUp)
  /\ Probing => verdict = "none" /\ ~HasEscape(raw) /\ ~IsPrompt(raw)

\* VerdictJustified is the types and VerdictRight.
LEMMA VerdictParts == VerdictJustified <=> SSHTypeOK /\ ProbeTypeOK /\ VerdictRight
  BY DEF VerdictJustified, TypeOK, ProbeTypeOK, VerdictRight

\* A step that leaves the probe alone keeps its verdict right.
LEMMA VerdictKept ==
  ASSUME Inv, SSHStep \/ UNCHANGED sshVars, UNCHANGED probeVars
  PROVE  VerdictRight'
<1>1. UNCHANGED <<probe, probes, raw, expired, verdict>>
  BY DEF probeVars
<1>2. VerdictRight
  BY VerdictParts DEF Inv
<1>3. verdict = "unknown" /\ ~StreamUp => ~StreamUp'
  BY StreamStaysDown DEF Inv, NewShellUnprobed
<1>4. Probing' = Probing /\ IsPrompt(raw)' = IsPrompt(raw) /\ HasEscape(raw)' = HasEscape(raw)
  BY <1>1 DEF Probing, IsPrompt, HasEscape
<1> QED BY <1>1, <1>2, <1>3, <1>4 DEF VerdictRight

\* Nothing is claimed of a probe that has not run.
LEMMA VerdictNone ==
  ASSUME verdict' = "none", probe' = "idle"
  PROVE  VerdictRight'
BY DEF VerdictRight, Probing

\* The verdict is right after every step.
LEMMA VerdictStep ==
  ASSUME Inv, [Next]_vars
  PROVE  VerdictRight'
<1>1. SSHStep \/ UNCHANGED sshVars
  BY NextIsSSHStep
<1>2. VerdictRight
  BY VerdictParts DEF Inv
<1>3. CASE UNCHANGED probeVars
  BY <1>1, <1>3, VerdictKept
<1>4. CASE Discard
  BY <1>4, VerdictNone DEF Discard
<1>5. CASE Expire
  <2>1. UNCHANGED <<pc, hand, open, raw, verdict, probe>> /\ expired' = TRUE
    BY <1>5 DEF Expire, sshVars, callVars
  <2>2. Probing' = Probing /\ IsPrompt(raw)' = IsPrompt(raw) /\ HasEscape(raw)' = HasEscape(raw)
    BY <2>1 DEF Probing, IsPrompt, HasEscape
  <2> QED BY <1>2, <2>1, <2>2 DEF VerdictRight
<1>6. CASE ProbeWrite
  <2>1. raw' = <<>> /\ (verdict' = "none" \/ (verdict' = "error" /\ probe' = "done"))
    BY <1>6 DEF ProbeWrite, Return
  <2>2. ~IsPrompt(raw)' /\ ~HasEscape(raw)'
    BY <2>1, EmptyResponse DEF IsPrompt, HasEscape
  <2> QED BY <2>1, <2>2 DEF VerdictRight, Probing
<1>7. CASE LoopTop
  <2>1. /\ UNCHANGED <<raw, expired>> /\ Probing
        /\ (expired /\ verdict' = "unknown" /\ probe' = "done") \/ UNCHANGED verdict
    BY <1>7 DEF LoopTop, Return, Probing
  <2>2. ~IsPrompt(raw)' /\ ~HasEscape(raw)' /\ verdict = "none"
    BY <1>2, <2>1 DEF VerdictRight, IsPrompt, HasEscape
  <2> QED BY <2>1, <2>2 DEF VerdictRight, Probing
<1>8. CASE ReadSome
  <2>1. Classify(raw') /\ Probing
    BY <1>8 DEF ReadSome, Probing
  <2>2. verdict = "none"
    BY <1>2, <2>1 DEF VerdictRight
  <2> QED BY <2>1, <2>2 DEF Classify, Return, VerdictRight, Probing, IsPrompt, HasEscape
<1>9. CASE ReadEnds
  <2>1. /\ UNCHANGED <<pc, hand, open, raw>> /\ probe' = "done" /\ Probing /\ ~StreamUp
        /\ verdict' \in {"unknown", "error"}
    BY <1>9 DEF ReadEnds, Return, Probing, sshVars, callVars
  <2>2. ~IsPrompt(raw)' /\ ~HasEscape(raw)' /\ ~StreamUp'
    BY <1>2, <2>1 DEF VerdictRight, IsPrompt, HasEscape, StreamUp
  <2> QED BY <2>1, <2>2 DEF VerdictRight, Probing
<1> QED BY <1>3, <1>4, <1>5, <1>6, <1>7, <1>8, <1>9
        DEF Next, OwnerStep, OtherStep, HostWrites, ProbeStep, vars

\* The shell that comes into being is a new stream: its probe starts afresh.
LEMMA NewShellStep ==
  ASSUME Inv, [Next]_vars
  PROVE  NewShellUnprobed'
<1> SUFFICES ASSUME pc'[Owner] = "setup" PROVE probe' = "idle" /\ verdict' = "none"
  BY DEF NewShellUnprobed
<1>1. Owner \in Caller /\ pc \in [Caller -> Where]
  BY OwnerAssumption DEF Inv, SSHInv, SSHTypeOK
<1>2. pc[Owner] = "setup" => probe = "idle" /\ verdict = "none"
  BY DEF Inv, NewShellUnprobed
<1>3. CASE OwnerStep
  <2>1. CASE ShellClose(Owner) \/ ManagerStep(Owner)
    BY <1>1, <2>1 DEF ShellClose, LetGo, ManagerStep, Connect, Store, CloseClient, Delete,
       GetOrCreate, Close, Goto
  <2>2. CASE NewSession(Owner) /\ Discard
    BY <2>2 DEF Discard
  <2>3. CASE SetUp(Owner) /\ UNCHANGED <<streamVars, probeVars>>
    BY <1>2, <2>3 DEF SetUp, probeVars
  <2> QED BY <1>3, <2>1, <2>2, <2>3 DEF OwnerStep
<1>4. ASSUME NEW c \in Caller \ {Owner}, OtherStep(c) PROVE probe' = "idle" /\ verdict' = "none"
  <2>1. pc'[Owner] = pc[Owner]
    BY <1>1, <1>4 DEF OtherStep, NewSession, SetUp, ShellClose, LetGo, ManagerStep, Connect, Store,
       CloseClient, Delete, GetOrCreate, Close, Goto
  <2> QED BY <1>2, <1>4, <2>1 DEF OtherStep, probeVars
<1>5. ASSUME NEW k \in Client, LinkDrops(k), UNCHANGED <<streamVars, probeVars>>
      PROVE  probe' = "idle" /\ verdict' = "none"
  BY <1>2, <1>5 DEF LinkDrops, callVars, probeVars
<1>6. ASSUME NEW t \in Output, HostWrites(t) PROVE probe' = "idle" /\ verdict' = "none"
  BY <1>2, <1>6 DEF HostWrites, sshVars, callVars, probeVars
<1>7. CASE Expire \/ ProbeStep \/ ProbeWrite
  BY <1>2, <1>7 DEF Expire, ProbeStep, LoopTop, ReadSome, ReadEnds, ProbeWrite, Probing, sshVars, callVars
<1>8. CASE UNCHANGED vars
  BY <1>2, <1>8 DEF vars, sshVars, callVars, probeVars
<1> QED BY <1>3, <1>4, <1>5, <1>6, <1>7, <1>8 DEF Next

-----------------------------------------------------------------------------
\* The invariant holds of a gateway that has just started.
LEMMA InitInv == Init => Inv
<1> SUFFICES ASSUME Init PROVE Inv
  OBVIOUS
<1> DEFINE h0 == CHOOSE h \in Host : TRUE
<1>1. h0 \in Host
  BY HostAssumption
<1>2. SSHTypeOK
  <2>1. 0 \in 0..MaxClients /\ 0 \in 0..SetUpSteps
    BY MaxClientsAssumption DEF SetUpSteps
  <2>2. host = [c \in Caller |-> h0] /\ of = [k \in Client |-> h0]
    BY DEF Init, SSHInit
  <2>3. host \in [Caller -> Host] /\ of \in [Client -> Host]
    BY <1>1, <2>2
  <2> QED BY <2>1, <2>3 DEF Init, SSHInit, SSHTypeOK, Where
<1>3. Holdings
  BY DEF Init, SSHInit, Holdings, LinksDialled, EntriesOwn, HandsOwn, FreshOnce, DeletesClosed,
     StepsCounted, SetUpSteps, Client
<1>4. Races
  BY DEF Init, SSHInit, Races, Alone, LookupHolds, Dialling, Closing
<1>5. OrphanNeedsRace /\ ClosedEntryLeaves /\ ChannelsAccounted
  BY DEF Init, SSHInit, OrphanNeedsRace, ClosedEntryLeaves, ChannelsAccounted
<1>6. ProbeTypeOK
  <2>1. <<>> \in Seq(Token)
    OBVIOUS
  <2>2. 0 \in 0..MaxWrites /\ 0 \in 0..MaxProbes
    BY ProbeBoundsAssumption
  <2>3. expired \in BOOLEAN
    BY Zenon DEF Init
  <2> QED BY <2>1, <2>2, <2>3 DEF Init, ProbeTypeOK, Verdict
<1>7. VerdictRight
  BY DEF Init, VerdictRight, Probing
<1>8. NewShellUnprobed
  BY DEF Init, NewShellUnprobed
<1> QED BY <1>2, <1>3, <1>4, <1>5, <1>6, <1>7, <1>8, VerdictParts DEF Inv, SSHInv

\* The invariant is inductive.
LEMMA NextInv == Inv /\ [Next]_vars => Inv'
<1> SUFFICES ASSUME Inv, [Next]_vars PROVE Inv'
  OBVIOUS
<1>1. SSHInv'
  BY NextIsSSHStep, SSHInvStep DEF Inv
<1>2. ProbeTypeOK'
  BY ProbeTypeStep, VerdictParts DEF Inv
<1>3. SSHTypeOK'
  BY <1>1 DEF SSHInv
<1>4. (VerdictJustified <=> SSHTypeOK /\ ProbeTypeOK /\ VerdictRight)'
  BY DEF VerdictJustified, TypeOK, ProbeTypeOK, VerdictRight
<1> QED BY <1>1, <1>2, <1>3, <1>4, VerdictStep, NewShellStep DEF Inv

\* The invariant holds throughout.
LEMMA Invariance == Spec => []Inv
BY InitInv, NextInv, PTL DEF Spec

\* For every set of hosts and goroutines and every number of connections: a live client
\* that no Close can reach is one of two GetOrCreate, or two Close, that overlapped.
THEOREM OrphansNeedRaces == Spec => []OrphanNeedsRace
<1>1. Inv => OrphanNeedsRace
  BY DEF Inv, SSHInv
<1> QED BY <1>1, Invariance, PTL

\* However GetOrCreate, Connect, Close and Delete of any number of goroutines interleave,
\* the map holds a client that was closed only while its Close is about to delete it.
THEOREM ClosedEntriesLeave == Spec => []ClosedEntryLeaves
<1>1. Inv => ClosedEntryLeaves
  BY DEF Inv, SSHInv
<1> QED BY <1>1, Invariance, PTL

\* Every open channel is that of a goroutine in OpenPTY or with a shell, on a live
\* connection: no path through OpenPTY or Close leaks one.
THEOREM ChannelsAreAccounted == Spec => []ChannelsAccounted
<1>1. Inv => ChannelsAccounted
  BY DEF Inv, SSHInv
<1> QED BY <1>1, Invariance, PTL

\* For every output of the shell and every way it is cut into reads: the verdict of
\* ProbeSession follows from what it has read.  The variables have their types.
THEOREM VerdictsJustified == Spec => []VerdictJustified
<1>1. Inv => VerdictJustified
  BY DEF Inv
<1> QED BY <1>1, Invariance, PTL
=============================================================================
