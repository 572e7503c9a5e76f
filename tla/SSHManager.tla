----------------------------- MODULE SSHManager -----------------------------
(***************************************************************************)
(* The SSH clients of the gateway (ssh/manager.go, ssh/client.go): one per *)
(* host in a sync.Map that several goroutines use at once, and the shell   *)
(* that a goroutine opens on the client it got.  Every step between two    *)
(* accesses to the map, the library or the network is an action.           *)
(*                                                                         *)
(* A client is known by the number of its connection.  The library notices *)
(* when a connection breaks; the manager does not, for nothing starts      *)
(* keepaliveLoop.                                                          *)
(***************************************************************************)
EXTENDS Naturals

CONSTANTS Host,      \* hosts
          Caller,    \* goroutines
          MaxClients \* bound: connections that come about

ASSUME HostAssumption == Host # {}
ASSUME MaxClientsAssumption == MaxClients \in Nat

VARIABLES clients, \* m.clients: of a host its client, 0 for none
          link,    \* of a client: unused, live, down (the network), closed (by Close)
          dialled, \* connections that have come about
          pc, host, hand, \* of a goroutine: where it is, for which host, with which client
          step,    \* of a goroutine: set-up steps of OpenPTY that are done
          open,    \* channels that are open at the library: <<client, goroutine>>
          of,      \* history: of a client, its host
          raced    \* history: hosts for which two GetOrCreate or two Close overlapped

poolVars == <<clients, link, dialled, of, raced>>
callVars == <<pc, host, hand>>
sshVars == <<poolVars, callVars, step, open>>

Client == 1..MaxClients
SetUpSteps == 3   \* RequestPty, the three pipes, Shell
Where == {"idle", "dial", "store", "have", "setup", "shell", "close", "delete"}

SSHTypeOK == /\ clients \in [Host -> 0..MaxClients]
             /\ link \in [Client -> {"unused", "live", "down", "closed"}]
             /\ dialled \in 0..MaxClients
             /\ pc \in [Caller -> Where] /\ host \in [Caller -> Host]
             /\ hand \in [Caller -> 0..MaxClients] /\ step \in [Caller -> 0..SetUpSteps]
             /\ open \subseteq Client \X Caller
             /\ of \in [Client -> Host] /\ raced \subseteq Host

SSHInit == LET h0 == CHOOSE h \in Host : TRUE
           IN /\ clients = [h \in Host |-> 0]
              /\ link = [k \in Client |-> "unused"] /\ dialled = 0
              /\ pc = [c \in Caller |-> "idle"] /\ host = [c \in Caller |-> h0]
              /\ hand = [c \in Caller |-> 0] /\ step = [c \in Caller |-> 0]
              /\ open = {} /\ of = [k \in Client |-> h0] /\ raced = {}

Goto(c, where) == pc' = [pc EXCEPT ![c] = where]

\* Another goroutine is at one of the places W for host h.
Busy(c, h, W) == \E d \in Caller \ {c} : host[d] = h /\ pc[d] \in W

\* The channels that outlive the end of client k.
Without(k) == {ch \in open : ch[1] # k}

-----------------------------------------------------------------------------
(* Manager *)

\* GetOrCreate up to the look-up: the client of the map is handed out as it is.
GetOrCreate(c, h) ==
  /\ pc[c] = "idle"
  /\ host' = [host EXCEPT ![c] = h]
  /\ \/ /\ clients[h] # 0
        /\ hand' = [hand EXCEPT ![c] = clients[h]]
        /\ Goto(c, "have")
        /\ UNCHANGED raced
     \/ /\ clients[h] = 0
        /\ Goto(c, "dial")
        /\ raced' = IF Busy(c, h, {"dial", "store"}) THEN raced \cup {h} ELSE raced
        /\ UNCHANGED hand
  /\ UNCHANGED <<clients, link, dialled, of, step, open>>

\* Client.Connect: ssh.Dial succeeds, or GetOrCreate returns its error.
Connect(c) ==
  /\ pc[c] = "dial"
  /\ \/ /\ dialled < MaxClients
        /\ dialled' = dialled + 1
        /\ link' = [link EXCEPT ![dialled + 1] = "live"]
        /\ of' = [of EXCEPT ![dialled + 1] = host[c]]
        /\ hand' = [hand EXCEPT ![c] = dialled + 1]
        /\ Goto(c, "store")
     \/ Goto(c, "idle") /\ UNCHANGED <<dialled, link, of, hand>>
  /\ UNCHANGED <<clients, raced, host, step, open>>

\* Faulty variant of Store: the new client is returned and not stored.
Store_Forgotten(c) == /\ pc[c] = "store"
                      /\ Goto(c, "have")
                      /\ UNCHANGED <<poolVars, host, hand, step, open>>

\* The rest of GetOrCreate: an entry that has appeared meanwhile is overwritten.
Store(c) == /\ pc[c] = "store"
            /\ clients' = [clients EXCEPT ![host[c]] = hand[c]]
            /\ Goto(c, "have")
            /\ UNCHANGED <<link, dialled, of, raced, host, hand, step, open>>

\* Close up to the look-up; an unknown host is an error.
Close(c, h) ==
  /\ pc[c] = "idle" /\ clients[h] # 0
  /\ host' = [host EXCEPT ![c] = h] /\ hand' = [hand EXCEPT ![c] = clients[h]]
  /\ Goto(c, "close")
  /\ raced' = IF Busy(c, h, {"close", "delete"}) THEN raced \cup {h} ELSE raced
  /\ UNCHANGED <<clients, link, dialled, of, step, open>>

CloseClient(c) == /\ pc[c] = "close"
                  /\ link' = [link EXCEPT ![hand[c]] = "closed"]
                  /\ open' = Without(hand[c])
                  /\ Goto(c, "delete")
                  /\ UNCHANGED <<clients, dialled, of, raced, host, hand, step>>

\* Faulty variant of Delete: the entry stays.
Delete_Forgotten(c) == /\ pc[c] = "delete"
                       /\ hand' = [hand EXCEPT ![c] = 0]
                       /\ Goto(c, "idle")
                       /\ UNCHANGED <<poolVars, host, step, open>>

\* The rest of Close: whatever entry the host has by now is deleted.
Delete(c) == /\ pc[c] = "delete"
             /\ clients' = [clients EXCEPT ![host[c]] = 0]
             /\ hand' = [hand EXCEPT ![c] = 0]
             /\ Goto(c, "idle")
             /\ UNCHANGED <<link, dialled, of, raced, host, step, open>>

\* The connection breaks: its channels end, and the entry stays in the map.
LinkDrops(k) == /\ link[k] = "live"
                /\ link' = [link EXCEPT ![k] = "down"]
                /\ open' = Without(k)
                /\ UNCHANGED <<clients, dialled, of, raced, callVars, step>>

-----------------------------------------------------------------------------
(* OpenPTY *)

\* The goroutine gives its client back, with an error or at the end.
LetGo(c) == /\ hand' = [hand EXCEPT ![c] = 0] /\ step' = [step EXCEPT ![c] = 0]
            /\ Goto(c, "idle")

\* The first step of OpenPTY: the host opens a channel, or the call fails.
NewSession(c) ==
  /\ pc[c] = "have"
  /\ \/ /\ link[hand[c]] = "live"
        /\ open' = open \cup {<<hand[c], c>>}
        /\ Goto(c, "setup")
        /\ UNCHANGED <<hand, step>>
     \/ LetGo(c) /\ UNCHANGED open
  /\ UNCHANGED <<poolVars, host>>

\* Faulty variant of SetUp: a step that fails leaves the channel open.
SetUp_Leak(c) ==
  /\ pc[c] = "setup"
  /\ \/ /\ link[hand[c]] = "live" \/ step[c] = 1
        /\ step' = [step EXCEPT ![c] = @ + 1]
        /\ Goto(c, IF step[c] + 1 = SetUpSteps THEN "shell" ELSE "setup")
        /\ UNCHANGED <<hand, open>>
     \/ LetGo(c) /\ UNCHANGED open
  /\ UNCHANGED <<poolVars, host>>

\* The next step of OpenPTY: RequestPty and Shell need the host's answer, the pipes
\* between them do not; a step that fails closes the session.
SetUp(c) ==
  /\ pc[c] = "setup"
  /\ \/ /\ link[hand[c]] = "live" \/ step[c] = 1
        /\ step' = [step EXCEPT ![c] = @ + 1]
        /\ Goto(c, IF step[c] + 1 = SetUpSteps THEN "shell" ELSE "setup")
        /\ UNCHANGED <<hand, open>>
     \/ LetGo(c) /\ open' = open \ {<<hand[c], c>>}
  /\ UNCHANGED <<poolVars, host>>

\* ptySession.Close.
ShellClose(c) == /\ pc[c] = "shell"
                 /\ LetGo(c)
                 /\ open' = open \ {<<hand[c], c>>}
                 /\ UNCHANGED <<poolVars, host>>

-----------------------------------------------------------------------------
ManagerStep(c) == \/ Connect(c) \/ Store(c) \/ CloseClient(c) \/ Delete(c)
                  \/ \E h \in Host : GetOrCreate(c, h) \/ Close(c, h)

-----------------------------------------------------------------------------
(* Properties *)

\* A live client that the map does not know and that nobody is about to store is lost:
\* no Close reaches it.  That takes two GetOrCreate of its host that both found nothing,
\* or two Close of its host that found a client, at the same time (the second Delete may
\* hit a client that is newer than both); GetOrCreate against Close loses nothing.
OrphanNeedsRace ==
  \A k \in Client :
    \/ link[k] # "live" \/ clients[of[k]] = k \/ of[k] \in raced
    \/ \E c \in Caller : pc[c] = "store" /\ hand[c] = k

\* GetOrCreate never hands out a client that a Close has closed, except while this very
\* Close is about to delete the entry: also when Stores and Deletes of other calls come
\* in between.  (A client that the network has closed is handed out for ever.)
ClosedEntryLeaves ==
  \A h \in Host : clients[h] # 0 /\ link[clients[h]] = "closed"
                    => \E c \in Caller : pc[c] = "delete" /\ host[c] = h /\ hand[c] = clients[h]

\* An open channel belongs to a goroutine that sets up or has its shell: no failure on
\* the way through OpenPTY, and no end of the connection below it, leaves one behind.
ChannelsAccounted ==
  \A ch \in open : /\ link[ch[1]] = "live"
                   /\ hand[ch[2]] = ch[1] /\ pc[ch[2]] \in {"setup", "shell"}
=============================================================================
