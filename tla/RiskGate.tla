------------------------------ MODULE RiskGate ------------------------------
(***************************************************************************)
(* The risk engine (risk/engine.go) and handleInput (server/server.go):    *)
(* the read pumps of several connections have commands checked against     *)
(* the rules in force while LoadRules replaces them.                       *)
(*                                                                         *)
(* A command stands for all commands that the same patterns match, a       *)
(* pattern for the commands it matches; a pattern may also be one that     *)
(* regexp.Compile rejects.  A rule file is known by its version, the       *)
(* number of documents that have been put in its place.                    *)
(***************************************************************************)
EXTENDS Naturals, Sequences, FiniteSetsExt

CONSTANTS Command,    \* commands
          Handler,    \* read pumps of fresh connections
          Loader,     \* goroutines that call LoadRules
          Document,   \* contents that the rule file may have
          MaxEdits,   \* bound: versions of the rule file
          MaxCommands \* bound: commands per handler

\* A rule of a document; any action but block and confirm lets the command pass.
Rule == [match : SUBSET Command, compiles : BOOLEAN, action : {"allow", "block", "confirm", "other"}]

ASSUME DocumentAssumption ==
  \A d \in Document : d.form \in {"wrapped", "array", "garbage"} /\ d.rules \in Seq(Rule)
ASSUME CommandAssumption == Command # {}
ASSUME BoundsAssumption == MaxEdits \in Nat /\ MaxCommands \in Nat

VARIABLES rules,  \* e.rules
          file,   \* the documents the rule file has held; the last one is there now
          doc,    \* of a loader: the version it has read, 0 outside LoadRules
          pc, cmd, answer, \* of a handler: where it is, with which command, its last answer
          count,  \* of a handler: commands taken
          inForce, newest, \* history: version in force, newest version that was loaded
          overlap,\* history: two LoadRules were under way at once
          seen    \* history: of a handler, what the rules in force said during its command

engineVars == <<rules, file, doc, inForce, newest, overlap>>
handlerVars == <<pc, cmd, answer, count, seen>>
vars == <<engineVars, handlerVars>>

Action == {"allow", "block", "confirm"}

TypeOK == /\ rules \in Seq({r \in Rule : r.compiles})
          /\ file \in Seq(Document) /\ Len(file) <= MaxEdits
          /\ doc \in [Loader -> 0..MaxEdits]
          /\ pc \in [Handler -> {"idle", "block", "confirm"}]
          /\ cmd \in [Handler -> Command]
          /\ answer \in [Handler -> {"none", "blocked", "asked", "passed"}]
          /\ count \in [Handler -> 0..MaxCommands]
          /\ inForce \in 0..MaxEdits /\ newest \in 0..MaxEdits /\ overlap \in BOOLEAN
          /\ seen \in [Handler -> SUBSET Action]

-----------------------------------------------------------------------------
(* The engine *)

\* LoadRulesFromJSON reads an object with a nonempty risk_rules, or else an array: an
\* object with an empty list is an error, an empty array a list of no rules.
Parses(d) == (d.form = "wrapped" /\ d.rules # <<>>) \/ d.form = "array"

\* All of its patterns compile.
Loads(d) == Parses(d) /\ \A i \in DOMAIN d.rules : d.rules[i].compiles

\* The rules of AddDefaultRules; the first pattern has a look-ahead, which Go's regexp
\* does not know.
DefaultDocument ==
  LET R(c, ok, a) == [match |-> {c} \cap Command, compiles |-> ok, action |-> a]
  IN [form |-> "array",
      rules |-> <<R("rm", FALSE, "block"), R("restart", TRUE, "confirm"),
                  R("mkfs", TRUE, "block"), R("reboot", TRUE, "confirm")>>]

\* Faulty variant of Check: the last rule that matches decides.
Check_LastMatch(rs, c) ==
  LET hits == {i \in DOMAIN rs : c \in rs[i].match}
  IN IF hits = {} THEN "allow" ELSE rs[Max(hits)].action

\* Check: the action of the first rule that matches.
Check(rs, c) == LET hits == {i \in DOMAIN rs : c \in rs[i].match}
                IN IF hits = {} THEN "allow" ELSE rs[Min(hits)].action

\* What the rules rs mean for command c: the rule to which no other is prior decides.
Decides(rs, c, a) == \E i \in DOMAIN rs : /\ c \in rs[i].match /\ rs[i].action = a
                                          /\ \A j \in 1..i-1 : c \notin rs[j].match
Meaning(rs, c) == CASE Decides(rs, c, "block")   -> "block"
                    [] Decides(rs, c, "confirm") -> "confirm"
                    [] OTHER                     -> "allow"

\* init of the server package: the error of AddDefaultRules is dropped, and with it, as
\* long as one of the default patterns does not compile, all default rules.
Init == /\ rules = IF Loads(DefaultDocument) THEN DefaultDocument.rules ELSE <<>>
        /\ file = <<>> /\ doc = [l \in Loader |-> 0]
        /\ pc = [h \in Handler |-> "idle"] /\ cmd = [h \in Handler |-> CHOOSE c \in Command : TRUE]
        /\ answer = [h \in Handler |-> "none"] /\ count = [h \in Handler |-> 0]
        /\ inForce = 0 /\ newest = 0 /\ overlap = FALSE
        /\ seen = [h \in Handler |-> {}]

\* Somebody puts a document into the place of the rule file.
Edit(d) == /\ Len(file) < MaxEdits
           /\ file' = Append(file, d)
           /\ UNCHANGED <<rules, doc, inForce, newest, overlap, handlerVars>>

\* LoadRules reads the file.
LoadRead(l) == /\ doc[l] = 0 /\ file # <<>>
               /\ doc' = [doc EXCEPT ![l] = Len(file)]
               /\ overlap' = (overlap \/ \E k \in Loader \ {l} : doc[k] # 0)
               /\ UNCHANGED <<rules, file, inForce, newest, handlerVars>>

\* The rules of the engine become rs, while commands are being handled.
Install(rs) ==
  /\ rules' = rs
  /\ seen' = [h \in Handler |-> IF pc[h] = "idle" THEN seen[h]
                                ELSE seen[h] \cup {Meaning(rs, cmd[h])}]

\* Faulty variant of LoadApply: the old rules go even if the new ones are no good.
LoadApply_ClearFirst(l) ==
  /\ doc[l] # 0
  /\ IF Loads(file[doc[l]])
       THEN /\ Install(file[doc[l]].rules)
            /\ inForce' = doc[l] /\ newest' = Max({newest, doc[l]})
       ELSE Install(<<>>) /\ UNCHANGED <<inForce, newest>>
  /\ doc' = [doc EXCEPT ![l] = 0]
  /\ UNCHANGED <<file, overlap, pc, cmd, answer, count>>

\* The rest of LoadRules: all rules are replaced at once, or none and it returns an error.
LoadApply(l) ==
  /\ doc[l] # 0
  /\ IF Loads(file[doc[l]])
       THEN /\ Install(file[doc[l]].rules)
            /\ inForce' = doc[l] /\ newest' = Max({newest, doc[l]})
       ELSE UNCHANGED <<rules, seen, inForce, newest>>
  /\ doc' = [doc EXCEPT ![l] = 0]
  /\ UNCHANGED <<file, overlap, pc, cmd, answer, count>>

-----------------------------------------------------------------------------
(* handleInput *)

Take(h, c) == /\ pc[h] = "idle" /\ count[h] < MaxCommands
              /\ count' = [count EXCEPT ![h] = @ + 1]
              /\ cmd' = [cmd EXCEPT ![h] = c]
              /\ seen' = [seen EXCEPT ![h] = {Meaning(rules, c)}]
              /\ pc' = [pc EXCEPT ![h] = "block"] /\ answer' = [answer EXCEPT ![h] = "none"]
              /\ UNCHANGED engineVars

Answer(h, a) == answer' = [answer EXCEPT ![h] = a] /\ pc' = [pc EXCEPT ![h] = "idle"]

CheckAndBlock(h) ==
  /\ pc[h] = "block"
  /\ \/ Check(rules, cmd[h]) = "block" /\ Answer(h, "blocked")
     \/ Check(rules, cmd[h]) # "block" /\ pc' = [pc EXCEPT ![h] = "confirm"] /\ UNCHANGED answer
  /\ UNCHANGED <<engineVars, cmd, count, seen>>

\* CheckAndConfirm looks the command up again.
CheckAndConfirm(h) ==
  /\ pc[h] = "confirm"
  /\ \/ Check(rules, cmd[h]) = "confirm" /\ Answer(h, "asked")
     \/ Check(rules, cmd[h]) # "confirm" /\ Answer(h, "passed")
  /\ UNCHANGED <<engineVars, cmd, count, seen>>

-----------------------------------------------------------------------------
Next == \/ \E d \in Document : Edit(d)
        \/ \E l \in Loader : LoadRead(l) \/ LoadApply(l)
        \/ \E h \in Handler : \/ \E c \in Command : Take(h, c)
                              \/ CheckAndBlock(h) \/ CheckAndConfirm(h)

Spec == Init /\ [][Next]_vars

-----------------------------------------------------------------------------
(* Properties *)

\* From the first good document on, the rules in force are all the rules of one document,
\* and of the newest good one that was loaded, as long as no two LoadRules overlap (the one
\* that read an older file may finish last).  A document with a bad pattern, or an object
\* without rules, changes nothing.  Which rules there are before, when AddDefaultRules has
\* had its turn, is not said.  The variables have their types: a rule in force has a pattern
\* that compiles.
RulesCurrent ==
  /\ TypeOK
  /\ inForce # 0 => /\ rules = file[inForce].rules
                    /\ file[inForce].form = "array" \/ (file[inForce].form = "wrapped" /\ rules # <<>>)
  /\ inForce = newest \/ overlap

\* A command gets an answer that rules in force during its handling give, although the
\* engine is asked twice: blocked and asked are never made up, and a command passes only
\* if rules let it pass, or if they went from "confirm" to "block" between the questions.
VerdictSteady ==
  \A h \in Handler :
    /\ answer[h] = "blocked" => "block" \in seen[h]
    /\ answer[h] = "asked" => "confirm" \in seen[h]
    /\ answer[h] = "passed" => "allow" \in seen[h] \/ {"block", "confirm"} \subseteq seen[h]
=============================================================================
