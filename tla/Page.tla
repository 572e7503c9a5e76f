-------------------------------- MODULE Page --------------------------------
(***************************************************************************)
(* The page in the browser: the worker's onmessage on the bytes of a frame *)
(* (workers/ws.worker.ts with workers/parser.ts), the messages it posts to *)
(* App.vue, the store of pending confirmations (stores/risk.ts), and the   *)
(* dialog that shows and resolves the first of them (ConfirmModal.vue).    *)
(* The echo lock of the worker goes on next to it (EchoLock).              *)
(*                                                                         *)
(* A request is known by the number of its frame.  Messages of the worker  *)
(* that App.vue does nothing with are left out, and so is the flag of slow *)
(* sessions.  The JSON of a request is its session id, in one byte.        *)
(***************************************************************************)
EXTENDS EchoLock, FrameCodec

CONSTANTS Wire,      \* messages that may arrive on the socket, as bytes
          MaxConfirms \* bound: answers of the user

ASSUME MaxConfirmsAssumption == MaxConfirms \in Nat
\* A request is one for a session.
ASSUME WireAssumption ==
  \A text \in Wire : LET f == parseFrame(text)
                    IN f.type = ConfirmFrame /\ f.sessions # <<>> => f.sessions[1].data[1] \in Session

VARIABLES posted,    \* requests that the worker has posted and App.vue has not handled
          dialog,    \* pendingConfirmations, in the order of the Map
          looked,    \* <<the request that the user has read last>>, <<>> before the first
          asked,     \* history: the numbers of all requests
          resolved,  \* history: of an answer, its request and what looked was
          replaced   \* history: requests whose entry another one overwrote, and that one

confirmVars == <<posted, dialog, looked, asked, resolved, replaced>>
pageVars == <<vars, confirmVars>>

Request == [session : Session, no : Frame]

PageTypeOK == /\ TypeOK
              /\ posted \in Seq(Request) /\ dialog \in Seq(Request)
              /\ looked \in Seq(Request) /\ Len(looked) <= 1
              /\ asked \subseteq Frame
              /\ resolved \in Seq([request : Request, looked : Request])
              /\ replaced \subseteq Request \X Request

PageInit == /\ Init
            /\ posted = <<>> /\ dialog = <<>> /\ looked = <<>>
            /\ asked = {} /\ resolved = <<>> /\ replaced = {}

-----------------------------------------------------------------------------
(* The worker *)

\* The request that a confirmation frame carries is the JSON of its first block; the
\* others are not looked at.
RequestOf(f) == [session |-> f.sessions[1].data[1], no |-> frames + 1]

\* onmessage: a message that is no frame, a confirmation without a block (JSON.parse
\* throws), output, or a frame of another type, which is posted and has no effect.
Receive(k, text) ==
  LET f == parseFrame(text)
  IN \/ /\ f.type = ConfirmFrame /\ f.sessions # <<>>
        /\ Confirm(k)
        /\ posted' = Append(posted, RequestOf(f)) /\ asked' = asked \cup {frames + 1}
        /\ UNCHANGED <<dialog, looked, resolved, replaced>>
     \/ /\ f.type = TerminalOutput
        /\ Output(k, {b.id : b \in ToSet(f.sessions)})
        /\ UNCHANGED confirmVars
     \/ /\ f.type # TerminalOutput /\ (f.type = ConfirmFrame => f.sessions = <<>>)
        /\ Confirm(k)
        /\ UNCHANGED confirmVars

-----------------------------------------------------------------------------
(* The page *)

\* Faulty variant of PutRequest: an entry that is overwritten moves to the end.
PutRequest_Last(r) == Append(SelectSeq(dialog, LAMBDA d : d.session # r.session), r)

\* Map.set: an entry of the same session is overwritten in its place, and its promise
\* stays unresolved; a new one goes to the end.
PutRequest(r) ==
  IF \E d \in ToSet(dialog) : d.session = r.session
    THEN [i \in DOMAIN dialog |-> IF dialog[i].session = r.session THEN r ELSE dialog[i]]
    ELSE Append(dialog, r)

\* worker.onmessage with a request: requestConfirmation.
RequestConfirmation ==
  /\ posted # <<>>
  /\ posted' = Tail(posted)
  /\ dialog' = PutRequest(Head(posted))
  /\ replaced' = replaced \cup {<<d, Head(posted)>> : d \in {d \in ToSet(dialog) : d.session = Head(posted).session}}
  /\ UNCHANGED <<vars, looked, asked, resolved>>

\* The user reads the request that the dialog shows.
Look == /\ dialog # <<>>
        /\ looked' = <<dialog[1]>>
        /\ UNCHANGED <<vars, posted, dialog, asked, resolved, replaced>>

\* resolveConfirmation: the entry of the session, which has one, is deleted and its promise
\* resolved.
DropRequest(session) ==
  RemoveAt(dialog, CHOOSE i \in DOMAIN dialog : dialog[i].session = session)

\* Faulty variant of Resolve: the entry stays.
Resolve_Keep ==
  /\ dialog # <<>> /\ looked # <<>> /\ Len(resolved) < MaxConfirms
  /\ resolved' = Append(resolved, [request |-> dialog[1], looked |-> looked[1]])
  /\ UNCHANGED <<vars, posted, dialog, looked, asked, replaced>>

\* handleConfirm and handleCancel: a click resolves the request that is first by now, one
\* way or the other.  The user clicks having read some request, once or twice.
Resolve ==
  /\ dialog # <<>> /\ looked # <<>> /\ Len(resolved) < MaxConfirms
  /\ resolved' = Append(resolved, [request |-> dialog[1], looked |-> looked[1]])
  /\ dialog' = DropRequest(dialog[1].session)
  /\ UNCHANGED <<vars, posted, looked, asked, replaced>>

-----------------------------------------------------------------------------
WorkerStep == \/ Disconnect \/ Release
              \/ \E k \in Socket : Connect(k) \/ Opened(k) \/ Closed(k)
              \/ \E S \in SUBSET Session : Input(S)

PageNext == \/ WorkerStep /\ UNCHANGED confirmVars
            \/ \E k \in Socket, text \in Wire : Receive(k, text)
            \/ RequestConfirmation \/ Look \/ Resolve

PageSpec == PageInit /\ [][PageNext]_pageVars

\* A timer that is set fires.
FairPageSpec == PageSpec /\ WF_pageVars(Release /\ UNCHANGED confirmVars)

-----------------------------------------------------------------------------
(* Properties *)

\* A frame of fewer than Base blocks that arrives whole is read as it was written: all
\* blocks, with their ids and data.  And whatever the parsers accept is a frame, byte for
\* byte, but for what follows its end: no field is skipped, read twice or taken from
\* beyond the message.  Rounds whose count wraps around and messages that are cut short
\* are not covered.  That is settled before the first frame.
WireExact == frames = 0 => Misread = {} /\ Invented = {}

Numbers(rs) == {r.no : r \in ToSet(rs)}
Answered == {a.request.no : a \in ToSet(resolved)}
Replaced == {p[1].no : p \in replaced}

\* Every request is on its way, in the dialog, answered, or was overwritten by a later
\* one of its own session, and only one of these; none is answered twice, and requests
\* do not overtake each other on the way.  One that was overwritten is never answered:
\* its promise stays open for ever (stores/risk.ts).  A session has one entry in the
\* dialog at most.  The variables have their types.
RequestsAccounted ==
  /\ PageTypeOK
  /\ \A i, j \in DOMAIN dialog : dialog[i].session = dialog[j].session => i = j
  /\ \A i, j \in DOMAIN posted : i < j => posted[i].no < posted[j].no
  /\ \A a \in ToSet(posted), d \in ToSet(dialog) : d.no < a.no
  /\ asked = Numbers(posted) \cup Numbers(dialog) \cup Answered \cup Replaced
  /\ Numbers(dialog) \cap (Answered \cup Replaced) = {} /\ Answered \cap Replaced = {}
  /\ \A i, j \in DOMAIN resolved : resolved[i].request = resolved[j].request => i = j
  /\ \A p \in replaced : p[1].session = p[2].session /\ p[1].no < p[2].no

\* A click answers the request that the user has read.  The exceptions are that a later
\* one of the same session has taken its place, and a second click, which hits the next
\* request: a request of another session never slips under the first click.
AnswersMeant ==
  \A i \in DOMAIN resolved :
    LET r == resolved[i].request  read == resolved[i].looked
    IN \/ r.session = read.session /\ r.no >= read.no
       \/ \E j \in 1..i-1 : resolved[j].looked = read
=============================================================================
