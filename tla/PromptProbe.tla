----------------------------- MODULE PromptProbe -----------------------------
(***************************************************************************)
(* ProbeSession (session/context_checker.go) on a session whose            *)
(* ShellStream is a pty of the SSH client, while the manager and the       *)
(* network do what they do to its connection.  The read deadline that      *)
(* ProbeSession sets is ignored by the pty: a Read waits for output or for *)
(* the end of the stream.                                                  *)
(*                                                                         *)
(* Output is a sequence of tokens: a prompt sign ($ or #), white space,    *)
(* the introduction of an escape sequence (ESC [ and its digits), or a     *)
(* letter, which completes an escape sequence it follows directly.         *)
(***************************************************************************)
EXTENDS SSHManager, Sequences

CONSTANTS Owner,     \* the goroutine whose shell is the session's ShellStream
          Output,    \* what the shell may write at once, each a sequence of tokens
          MaxWrites, \* bound: writes of the shell
          MaxProbes  \* bound: calls of ProbeSession

ASSUME OwnerAssumption == Owner \in Caller
ASSUME OutputAssumption == Output \subseteq Seq({"prompt", "space", "intro", "letter"})
ASSUME ProbeBoundsAssumption == MaxWrites \in Nat /\ MaxProbes \in Nat

VARIABLES out,     \* output of the shell that nobody has read
          sent,    \* writes of the shell so far
          probe,   \* ProbeSession: idle, loop (the deadline test), read, done
          probes,  \* calls so far
          raw,     \* result.RawResponse
          expired, \* the deadline has passed
          verdict  \* what the last call returned

probeVars == <<probe, probes, raw, expired, verdict>>
streamVars == <<out, sent>>
vars == <<sshVars, streamVars, probeVars>>

Token == {"prompt", "space", "intro", "letter"}
Verdict == {"none", "shell", "tui", "unknown", "error"}

TypeOK == /\ SSHTypeOK
          /\ out \in Seq(Token) /\ sent \in 0..MaxWrites
          /\ probe \in {"idle", "loop", "read", "done"} /\ probes \in 0..MaxProbes
          /\ raw \in Seq(Token) /\ expired \in BOOLEAN /\ verdict \in Verdict

Init == /\ SSHInit
        /\ out = <<>> /\ sent = 0
        /\ probe = "idle" /\ probes = 0 /\ raw = <<>> /\ expired = FALSE /\ verdict = "none"

\* The session's channel is open.
StreamUp == pc[Owner] = "shell" /\ <<hand[Owner], Owner>> \in open

Probing == probe \in {"loop", "read"}

\* shellPromptRegex: a prompt sign with nothing but white space behind it.
IsPrompt(r) == \E i \in DOMAIN r : r[i] = "prompt" /\ \A j \in i+1..Len(r) : r[j] = "space"

\* tuiEscapeRegex: a complete escape sequence anywhere.
HasEscape(r) == \E i \in 1..Len(r)-1 : r[i] = "intro" /\ r[i+1] = "letter"

Return(v) == probe' = "done" /\ verdict' = v

-----------------------------------------------------------------------------
(* The shell on the host, and the clock *)

\* Output that comes after the last probe is left out.
HostWrites(t) == /\ StreamUp /\ sent < MaxWrites
                 /\ Probing \/ probes < MaxProbes
                 /\ out' = out \o t /\ sent' = sent + 1
                 /\ UNCHANGED <<sshVars, probeVars>>

Expire == /\ Probing /\ ~expired
          /\ expired' = TRUE
          /\ UNCHANGED <<sshVars, streamVars, probe, probes, raw, verdict>>

\* Nobody reads what is left of a stream once it is closed and its probe has returned.
Discard == /\ out' = <<>> /\ probe' = "idle" /\ raw' = <<>>
           /\ expired' = FALSE /\ verdict' = "none"
           /\ UNCHANGED <<sent, probes>>

\* The owner's goroutine closes its shell, also under a probe; it opens the next one,
\* a new stream, when that probe has returned.
OwnerStep == \/ ShellClose(Owner) /\ (IF Probing THEN UNCHANGED <<streamVars, probeVars>> ELSE Discard)
             \/ NewSession(Owner) /\ ~Probing /\ Discard
             \/ (ManagerStep(Owner) \/ SetUp(Owner)) /\ UNCHANGED <<streamVars, probeVars>>

OtherStep(c) == /\ ManagerStep(c) \/ NewSession(c) \/ SetUp(c) \/ ShellClose(c)
                /\ UNCHANGED <<streamVars, probeVars>>

-----------------------------------------------------------------------------
(* ProbeSession *)

\* The probe character is written; a stream that has ended makes that fail.
ProbeWrite == /\ pc[Owner] = "shell" /\ ~Probing /\ probes < MaxProbes
              /\ probes' = probes + 1
              /\ raw' = <<>> /\ expired' = FALSE
              /\ \/ StreamUp /\ probe' = "loop" /\ verdict' = "none"
                 \/ ~StreamUp /\ Return("error")
              /\ UNCHANGED <<sshVars, streamVars>>

\* Faulty variant of LoopTop: the deadline is not tested.
LoopTop_Endless == /\ probe = "loop"
                   /\ probe' = "read"
                   /\ UNCHANGED <<sshVars, streamVars, probes, raw, expired, verdict>>

LoopTop == /\ probe = "loop"
           /\ \/ expired /\ Return("unknown")
              \/ ~expired /\ probe' = "read" /\ UNCHANGED verdict
           /\ UNCHANGED <<sshVars, streamVars, probes, raw, expired>>

\* Faulty variant of Classify: the escape sequence is looked for first.
Classify_EscapeFirst(r) ==
  \/ HasEscape(r) /\ Return("tui")
  \/ ~HasEscape(r) /\ IsPrompt(r) /\ Return("shell")
  \/ ~HasEscape(r) /\ ~IsPrompt(r) /\ probe' = "loop" /\ UNCHANGED verdict

\* What the response so far makes of the call.
Classify(r) ==
  \/ IsPrompt(r) /\ Return("shell")
  \/ ~IsPrompt(r) /\ HasEscape(r) /\ Return("tui")
  \/ ~IsPrompt(r) /\ ~HasEscape(r) /\ probe' = "loop" /\ UNCHANGED verdict

\* Read returns some of the output that is there.
ReadSome == /\ probe = "read"
            /\ \E n \in 1..Len(out) :
                 /\ raw' = raw \o SubSeq(out, 1, n)
                 /\ out' = SubSeq(out, n + 1, Len(out))
                 /\ Classify(raw')
            /\ UNCHANGED <<sshVars, sent, probes, expired>>

\* Read at the end of the stream: io.EOF when all output has been read; with output
\* left, the library may also fail to tell the host and return that error.
ReadEnds == /\ probe = "read" /\ ~StreamUp
            /\ \/ out = <<>> /\ Return("unknown") /\ UNCHANGED out
               \/ /\ out # <<>> /\ Return("error")
                  /\ \E n \in 1..Len(out) : out' = SubSeq(out, n + 1, Len(out))
            /\ UNCHANGED <<sshVars, sent, probes, raw, expired>>

-----------------------------------------------------------------------------
ProbeStep == LoopTop \/ ReadSome \/ ReadEnds

Next == \/ OwnerStep
        \/ \E c \in Caller \ {Owner} : OtherStep(c)
        \/ \E k \in Client : LinkDrops(k) /\ UNCHANGED <<streamVars, probeVars>>
        \/ \E t \in Output : HostWrites(t)
        \/ Expire \/ ProbeWrite \/ ProbeStep

Spec == Init /\ [][Next]_vars

\* The goroutine of the probe runs.  The clock passes the deadline, but nothing makes
\* the host write or the connection end.
FairSpec == Spec /\ WF_vars(ProbeStep) /\ WF_vars(Expire)

-----------------------------------------------------------------------------
(* Properties *)

\* The verdict follows from the response, however the network cut it into reads and
\* whatever became of the stream meanwhile: a prompt wins over an escape sequence, and
\* "unknown" means that neither came before the deadline or the end of the stream.
\* While the probe goes on, it has not read past either.  The variables have their types.
VerdictJustified ==
  /\ TypeOK
  /\ verdict = "shell" => IsPrompt(raw)
  /\ verdict = "tui" => HasEscape(raw) /\ ~IsPrompt(raw)
  /\ verdict = "unknown" => ~HasEscape(raw) /\ ~IsPrompt(raw) /\ (expired \/ ~StreamUp)
  /\ Probing => verdict = "none" /\ ~HasEscape(raw) /\ ~IsPrompt(raw)

\* A probe whose deadline has passed returns with the next output or the end of the
\* stream, a Close of the client or a broken connection included.  (Without either it
\* waits for ever.)
ProbeReturns == (Probing /\ expired /\ (out # <<>> \/ ~StreamUp)) ~> ~Probing
=============================================================================
