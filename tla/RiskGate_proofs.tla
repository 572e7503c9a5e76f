--------------------------- MODULE RiskGate_proofs ---------------------------
(***************************************************************************)
(* From the first good load on the rules in force are those of one good    *)
(* document, and a command gets an answer that rules in force gave, for    *)
(* every set of documents, commands, handlers and loaders.                 *)
(*                                                                         *)
(* RulesCurrent needs what a LoadRules has in its hands: unless two have   *)
(* overlapped, no other one is under way and what it has read is no older  *)
(* than what was loaded last (LoadsInTurn).  VerdictSteady needs what a    *)
(* handler has learnt between its two questions (Asked), and that Check    *)
(* finds the rule that decides (CheckMeaning).                             *)
(***************************************************************************)
EXTENDS RiskGate, SequenceTheorems, WellFoundedInduction, TLAPS

\* A version that has been read or loaded is one that the file has had.
Versions == /\ inForce <= Len(file) /\ newest <= Len(file)
            /\ \A l \in Loader : doc[l] <= Len(file)

\* Unless two LoadRules have overlapped, one is under way at most, with the newest version.
LoadsInTurn == overlap \/ \A l \in Loader : doc[l] # 0 =>
                 newest <= doc[l] /\ \A k \in Loader \ {l} : doc[k] = 0

\* The rules in force are the document in force, and it is the newest loaded.
InForce == /\ inForce # 0 => rules = file[inForce].rules /\ Loads(file[inForce])
           /\ inForce = newest \/ overlap

\* A handler has seen what the rules in force say of its command; at the second question
\* some rules that it has seen do not block.
Asked == \A h \in Handler :
           /\ pc[h] # "idle" => answer[h] = "none" /\ Meaning(rules, cmd[h]) \in seen[h]
           /\ pc[h] = "confirm" => "allow" \in seen[h] \/ "confirm" \in seen[h]

Inv == TypeOK /\ Versions /\ LoadsInTurn /\ InForce /\ Asked /\ VerdictSteady

-----------------------------------------------------------------------------
(* The operators *)

\* A nonempty set of natural numbers has a least one.
LEMMA LeastNumber ==
  ASSUME NEW S, S \subseteq Nat, S # {}
  PROVE  \E x \in S : \A y \in S : x <= y
<1>1. PICK x \in S : \A y \in S : ~(<<y, x>> \in OpToRel(<, Nat))
  BY NatLessThanWellFounded, WFMin
<1>2. ASSUME NEW y \in S, y < x PROVE <<y, x>> \in OpToRel(<, Nat)
  <2>1. <<y, x>> \in {ss \in Nat \X Nat : ss[1] < ss[2]}
    BY <1>2
  <2> QED BY <2>1 DEF OpToRel
<1>3. \A y \in S : ~(y < x)
  BY <1>1, <1>2
<1> QED BY <1>3

\* Min yields it.
LEMMA MinProperties ==
  ASSUME NEW S, S \subseteq Nat, S # {}
  PROVE  Min(S) \in S /\ \A y \in S : Min(S) <= y
BY LeastNumber DEF Min

\* Max yields the larger of two numbers.
LEMMA MaxProperties ==
  ASSUME NEW a \in Nat, NEW b \in Nat
  PROVE  Max({a, b}) \in {a, b} /\ Max({a, b}) >= a /\ Max({a, b}) >= b
<1>1. \E x \in {a, b} : \A y \in {a, b} : x >= y
  OBVIOUS
<1> QED BY <1>1 DEF Max

\* Check, which takes the first match, finds what the rules mean: for every list of rules
\* and every command.
THEOREM CheckMeaning ==
  ASSUME NEW rs \in Seq(Rule), NEW c \in Command
  PROVE  Meaning(rs, c) = IF Check(rs, c) \in {"block", "confirm"} THEN Check(rs, c) ELSE "allow"
<1> DEFINE hits == {i \in DOMAIN rs : c \in rs[i].match}
<1>1. Len(rs) \in Nat /\ DOMAIN rs = 1..Len(rs)
  BY LenProperties
<1>2. CASE hits = {}
  <2>1. Check(rs, c) = "allow"
    BY <1>2 DEF Check
  <2>2. \A a : ~Decides(rs, c, a)
    BY <1>2 DEF Decides
  <2> QED BY <2>1, <2>2 DEF Meaning
<1>3. CASE hits # {}
  <2>1. hits \subseteq Nat
    BY <1>1
  <2> DEFINE m == Min(hits)
  <2>2. m \in hits /\ \A i \in hits : m <= i
    BY <1>3, <2>1, MinProperties
  <2>3. m \in 1..Len(rs) /\ c \in rs[m].match /\ \A j \in 1..m-1 : c \notin rs[j].match
    <3>1. m \in 1..Len(rs) /\ c \in rs[m].match
      BY <1>1, <2>2
    <3>2. ASSUME NEW j \in 1..m-1 PROVE c \notin rs[j].match
      <4>1. j \in DOMAIN rs /\ ~(m <= j)
        BY <1>1, <3>1
      <4>2. j \notin hits
        BY <2>2, <4>1
      <4> QED BY <4>1, <4>2
    <3> QED BY <3>1, <3>2
  <2>4. Check(rs, c) = rs[m].action
    BY <1>3 DEF Check
  <2> HIDE DEF m, hits
  <2>5. ASSUME NEW a PROVE Decides(rs, c, a) <=> rs[m].action = a
    <3>1. rs[m].action = a => Decides(rs, c, a)
      BY <1>1, <2>3 DEF Decides
    <3>2. ASSUME Decides(rs, c, a) PROVE rs[m].action = a
      <4>1. PICK i \in 1..Len(rs) : /\ c \in rs[i].match /\ rs[i].action = a
                                    /\ \A j \in 1..i-1 : c \notin rs[j].match
        BY <1>1, <3>2 DEF Decides
      <4>2. i = m
        BY <1>1, <2>3, <4>1
      <4> QED BY <4>1, <4>2
    <3> QED BY <3>1, <3>2
  <2> QED BY <2>4, <2>5 DEF Meaning
<1> QED BY <1>2, <1>3

\* The rules of a document that loads are compiled.
LEMMA LoadedRules ==
  ASSUME NEW d \in Document, Loads(d)
  PROVE  d.rules \in Seq({r \in Rule : r.compiles})
<1>1. d.rules \in Seq(Rule) /\ \A i \in DOMAIN d.rules : d.rules[i].compiles
  BY DocumentAssumption DEF Loads
<1>2. Len(d.rules) \in Nat /\ DOMAIN d.rules = 1..Len(d.rules)
      /\ d.rules = [i \in 1..Len(d.rules) |-> d.rules[i]]
  BY <1>1, LenProperties
<1>3. \A i \in 1..Len(d.rules) : d.rules[i] \in Rule
  BY <1>1, ElementOfSeq
<1>4. d.rules \in [1..Len(d.rules) -> {r \in Rule : r.compiles}]
  BY <1>1, <1>2, <1>3
<1> QED BY <1>2, <1>4, SeqDef

\* Rules mean one of three things.
LEMMA MeaningType == \A rs, c : Meaning(rs, c) \in Action
BY DEF Meaning, Action

\* The rules in force are rules.
LEMMA RulesAreRules ==
  ASSUME TypeOK
  PROVE  rules \in Seq(Rule)
<1>1. rules \in Seq({r \in Rule : r.compiles}) /\ {r \in Rule : r.compiles} \subseteq Rule
  BY DEF TypeOK
<1> QED BY <1>1

\* The numbers are natural numbers, and a loader that has read holds a version of the file.
LEMMA Numbers ==
  ASSUME Inv
  PROVE  /\ Len(file) \in Nat /\ inForce \in Nat /\ newest \in Nat
         /\ \A l \in Loader : doc[l] \in Nat
         /\ inForce # 0 => inForce \in 1..Len(file)
         /\ \A l \in Loader : doc[l] # 0 => doc[l] \in 1..Len(file) /\ file[doc[l]] \in Document
<1>1. Len(file) \in Nat /\ file \in Seq(Document)
  BY LenProperties DEF Inv, TypeOK
<1>2. inForce \in Nat /\ newest \in Nat /\ \A l \in Loader : doc[l] \in Nat
  BY BoundsAssumption DEF Inv, TypeOK
<1>3. inForce # 0 => inForce \in 1..Len(file)
  BY <1>1, <1>2 DEF Inv, Versions
<1>4. \A l \in Loader : doc[l] # 0 => doc[l] \in 1..Len(file)
  BY <1>1, <1>2 DEF Inv, Versions
<1>5. \A l \in Loader : doc[l] # 0 => file[doc[l]] \in Document
  BY <1>1, <1>4, ElementOfSeq
<1> QED BY <1>1, <1>2, <1>3, <1>4, <1>5

-----------------------------------------------------------------------------
(* The steps *)

\* The types are kept: a document is loaded only if all of its patterns compile.
LEMMA TypeStep ==
  ASSUME Inv, [Next]_vars
  PROVE  TypeOK'
<1>1. ASSUME NEW d \in Document, Edit(d) PROVE TypeOK'
  <2>1. file' \in Seq(Document) /\ Len(file') <= MaxEdits
    <3>1. file' = Append(file, d) /\ file \in Seq(Document) /\ Len(file) < MaxEdits
      BY <1>1 DEF Edit, Inv, TypeOK
    <3> QED BY <3>1, AppendProperties, Numbers, BoundsAssumption
  <2> QED BY <1>1, <2>1 DEF Edit, handlerVars, Inv, TypeOK
<1>2. ASSUME NEW l \in Loader, LoadRead(l) PROVE TypeOK'
  <2>1. Len(file) \in 0..MaxEdits
    BY Numbers, BoundsAssumption DEF Inv, TypeOK
  <2>2. doc' \in [Loader -> 0..MaxEdits]
    BY <1>2, <2>1 DEF LoadRead, Inv, TypeOK
  <2>3. overlap' \in BOOLEAN
    BY <1>2 DEF LoadRead, Inv, TypeOK
  <2> QED BY <1>2, <2>2, <2>3 DEF LoadRead, handlerVars, Inv, TypeOK
<1>3. ASSUME NEW l \in Loader, LoadApply(l) PROVE TypeOK'
  <2>1. doc' \in [Loader -> 0..MaxEdits] /\ UNCHANGED <<file, overlap, pc, cmd, answer, count>>
    BY <1>3, BoundsAssumption DEF LoadApply, Inv, TypeOK
  <2>2. CASE Loads(file[doc[l]])
    <3>1. rules' = file[doc[l]].rules /\ inForce' = doc[l] /\ newest' = Max({newest, doc[l]})
      BY <1>3, <2>2 DEF LoadApply, Install
    <3>2. rules' \in Seq({r \in Rule : r.compiles})
      BY <1>3, <2>2, <3>1, Numbers, LoadedRules DEF LoadApply
    <3>3. inForce' \in 0..MaxEdits /\ newest' \in 0..MaxEdits
      BY <3>1, Numbers, MaxProperties DEF Inv, TypeOK
    <3>4. seen' \in [Handler -> SUBSET Action]
      <4>1. seen \in [Handler -> SUBSET Action] /\ \A h : Meaning(rules', cmd[h]) \in Action
        BY MeaningType DEF Inv, TypeOK
      <4>2. seen' = [h \in Handler |-> IF pc[h] = "idle" THEN seen[h]
                                      ELSE seen[h] \cup {Meaning(rules', cmd[h])}]
        BY <1>3, <2>2 DEF LoadApply, Install
      <4> QED BY <4>1, <4>2
    <3> QED BY <2>1, <3>2, <3>3, <3>4 DEF Inv, TypeOK
  <2>3. CASE ~Loads(file[doc[l]])
    BY <1>3, <2>1, <2>3 DEF LoadApply, Inv, TypeOK
  <2> QED BY <2>2, <2>3
<1>4. ASSUME NEW h \in Handler, NEW c \in Command, Take(h, c) PROVE TypeOK'
  <2>1. count' \in [Handler -> 0..MaxCommands]
    BY <1>4, BoundsAssumption DEF Take, Inv, TypeOK
  <2>2. seen' \in [Handler -> SUBSET Action]
    BY <1>4, MeaningType DEF Take, Inv, TypeOK
  <2> QED BY <1>4, <2>1, <2>2 DEF Take, engineVars, Inv, TypeOK
<1>5. ASSUME NEW h \in Handler, CheckAndBlock(h) PROVE TypeOK'
  BY <1>5 DEF CheckAndBlock, Answer, engineVars, Inv, TypeOK
<1>6. ASSUME NEW h \in Handler, CheckAndConfirm(h) PROVE TypeOK'
  BY <1>6 DEF CheckAndConfirm, Answer, engineVars, Inv, TypeOK
<1>7. CASE UNCHANGED vars
  BY <1>7 DEF vars, engineVars, handlerVars, Inv, TypeOK
<1> QED BY <1>1, <1>2, <1>3, <1>4, <1>5, <1>6, <1>7 DEF Next

\* The engine's variables stay related as they are when a handler moves.
LEMMA EngineKept ==
  ASSUME Inv, UNCHANGED engineVars
  PROVE  Versions' /\ LoadsInTurn' /\ InForce'
BY DEF engineVars, Inv, Versions, LoadsInTurn, InForce

\* What was read is a version of the file, and stays one.
LEMMA VersionsStep ==
  ASSUME Inv, [Next]_vars
  PROVE  Versions'
<1>1. ASSUME NEW d \in Document, Edit(d) PROVE Versions'
  <2>1. Len(file') = Len(file) + 1 /\ UNCHANGED <<doc, inForce, newest>>
    BY <1>1, AppendProperties DEF Edit, Inv, TypeOK
  <2> QED BY <2>1, Numbers DEF Inv, Versions
<1>2. ASSUME NEW l \in Loader, LoadRead(l) PROVE Versions'
  BY <1>2, Numbers DEF LoadRead, Inv, TypeOK, Versions
<1>3. ASSUME NEW l \in Loader, LoadApply(l) PROVE Versions'
  <2>1. file' = file /\ inForce' \in {inForce, doc[l]} /\ newest' \in {newest, doc[l]}
    BY <1>3, Numbers, MaxProperties DEF LoadApply
  <2>2. \A k \in Loader : doc'[k] \in {doc[k], 0}
    BY <1>3 DEF LoadApply, Inv, TypeOK
  <2> QED BY <2>1, <2>2, Numbers DEF Inv, Versions
<1>4. CASE UNCHANGED engineVars
  BY <1>4, EngineKept
<1> QED BY <1>1, <1>2, <1>3, <1>4 DEF Next, Take, CheckAndBlock, CheckAndConfirm, vars

\* A LoadRules that begins while another is under way is an overlap.
LEMMA LoadsInTurnStep ==
  ASSUME Inv, [Next]_vars
  PROVE  LoadsInTurn'
<1>1. ASSUME NEW d \in Document, Edit(d) PROVE LoadsInTurn'
  BY <1>1 DEF Edit, Inv, LoadsInTurn
<1>2. ASSUME NEW l \in Loader, LoadRead(l) PROVE LoadsInTurn'
  <2> SUFFICES ASSUME ~overlap', NEW k \in Loader, doc'[k] # 0
               PROVE  newest' <= doc'[k] /\ \A j \in Loader \ {k} : doc'[j] = 0
    BY DEF LoadsInTurn
  <2>1. \A j \in Loader \ {l} : doc[j] = 0 /\ doc'[j] = 0
    BY <1>2 DEF LoadRead, Inv, TypeOK
  <2>2. k = l /\ doc'[l] = Len(file) /\ newest' = newest
    BY <1>2, <2>1 DEF LoadRead, Inv, TypeOK
  <2> QED BY <2>1, <2>2 DEF Inv, Versions
<1>3. ASSUME NEW l \in Loader, LoadApply(l) PROVE LoadsInTurn'
  <2> SUFFICES ASSUME ~overlap', NEW k \in Loader, doc'[k] # 0 PROVE FALSE
    BY DEF LoadsInTurn
  <2>1. k # l /\ doc[k] # 0 /\ doc[l] # 0 /\ ~overlap
    BY <1>3 DEF LoadApply, Inv, TypeOK
  <2> QED BY <2>1 DEF Inv, LoadsInTurn
<1>4. CASE UNCHANGED engineVars
  BY <1>4, EngineKept
<1> QED BY <1>1, <1>2, <1>3, <1>4 DEF Next, Take, CheckAndBlock, CheckAndConfirm, vars

\* LoadRules puts all of a good document into force, or changes nothing.
LEMMA InForceStep ==
  ASSUME Inv, [Next]_vars
  PROVE  InForce'
<1>1. ASSUME NEW d \in Document, Edit(d) PROVE InForce'
  <2>1. UNCHANGED <<rules, inForce, newest, overlap>>
    BY <1>1 DEF Edit
  <2>2. inForce # 0 => file'[inForce] = file[inForce]
    BY <1>1, Numbers, AppendProperties DEF Edit, Inv, TypeOK
  <2> QED BY <2>1, <2>2 DEF Inv, InForce
<1>2. ASSUME NEW l \in Loader, LoadRead(l) PROVE InForce'
  BY <1>2 DEF LoadRead, Inv, InForce
<1>3. ASSUME NEW l \in Loader, LoadApply(l) PROVE InForce'
  <2>1. CASE Loads(file[doc[l]])
    <3>1. /\ rules' = file[doc[l]].rules /\ inForce' = doc[l] /\ newest' = Max({newest, doc[l]})
          /\ UNCHANGED <<file, overlap>> /\ doc[l] # 0
      BY <1>3, <2>1 DEF LoadApply, Install
    <3>2. overlap \/ newest <= doc[l]
      BY <3>1 DEF Inv, LoadsInTurn
    <3>3. overlap \/ newest' = doc[l]
      BY <3>1, <3>2, Numbers, MaxProperties
    <3> QED BY <2>1, <3>1, <3>3 DEF InForce
  <2>2. CASE ~Loads(file[doc[l]])
    BY <1>3, <2>2 DEF LoadApply, Inv, InForce
  <2> QED BY <2>1, <2>2
<1>4. CASE UNCHANGED engineVars
  BY <1>4, EngineKept
<1> QED BY <1>1, <1>2, <1>3, <1>4 DEF Next, Take, CheckAndBlock, CheckAndConfirm, vars

\* What the two questions tell a handler; its answer follows from that.
LEMMA AskedStep ==
  ASSUME Inv, [Next]_vars
  PROVE  Asked' /\ VerdictSteady'
<1>1. CASE UNCHANGED <<rules, handlerVars>>
  BY <1>1 DEF handlerVars, Inv, Asked, VerdictSteady
<1>2. ASSUME NEW l \in Loader, LoadApply(l) PROVE Asked' /\ VerdictSteady'
  <2>1. CASE Loads(file[doc[l]])
    <3>1. /\ UNCHANGED <<pc, cmd, answer>>
          /\ \A h \in Handler : /\ pc[h] = "idle" => seen'[h] = seen[h]
                                /\ pc[h] # "idle" => seen'[h] = seen[h] \cup {Meaning(rules', cmd[h])}
      BY <1>2, <2>1 DEF LoadApply, Install
    <3> QED BY <3>1 DEF Inv, Asked, VerdictSteady
  <2>2. CASE ~Loads(file[doc[l]])
    BY <1>1, <1>2, <2>2 DEF LoadApply, handlerVars
  <2> QED BY <2>1, <2>2
<1>3. ASSUME NEW h \in Handler, NEW c \in Command, Take(h, c) PROVE Asked' /\ VerdictSteady'
  <2>1. \A g \in Handler \ {h} : /\ pc'[g] = pc[g] /\ cmd'[g] = cmd[g]
                                 /\ seen'[g] = seen[g] /\ answer'[g] = answer[g]
    BY <1>3 DEF Take, Inv, TypeOK
  <2>2. /\ pc'[h] = "block" /\ cmd'[h] = c /\ answer'[h] = "none" /\ rules' = rules
        /\ seen'[h] = {Meaning(rules, c)}
    BY <1>3 DEF Take, engineVars, Inv, TypeOK
  <2> QED BY <2>1, <2>2 DEF Inv, Asked, VerdictSteady
<1>4. ASSUME NEW h \in Handler, CheckAndBlock(h) \/ CheckAndConfirm(h) PROVE Asked' /\ VerdictSteady'
  <2>1. /\ UNCHANGED <<rules, cmd, seen>>
        /\ \A g \in Handler \ {h} : pc'[g] = pc[g] /\ answer'[g] = answer[g]
    BY <1>4 DEF CheckAndBlock, CheckAndConfirm, Answer, engineVars, Inv, TypeOK
  <2>2. /\ Meaning(rules, cmd[h]) \in seen[h] /\ answer[h] = "none"
        /\ pc[h] = "confirm" => "allow" \in seen[h] \/ "confirm" \in seen[h]
    BY <1>4 DEF CheckAndBlock, CheckAndConfirm, Inv, Asked
  <2>3. Meaning(rules, cmd[h]) = IF Check(rules, cmd[h]) \in {"block", "confirm"}
                                   THEN Check(rules, cmd[h]) ELSE "allow"
    BY CheckMeaning, RulesAreRules DEF Inv, TypeOK
  <2>4. CASE CheckAndBlock(h)
    <3>1. \/ Check(rules, cmd[h]) = "block" /\ answer'[h] = "blocked" /\ pc'[h] = "idle"
          \/ Check(rules, cmd[h]) # "block" /\ answer'[h] = "none" /\ pc'[h] = "confirm"
      BY <2>2, <2>4 DEF CheckAndBlock, Answer, Inv, TypeOK
    <3> QED BY <2>1, <2>2, <2>3, <3>1 DEF Inv, Asked, VerdictSteady
  <2>5. CASE CheckAndConfirm(h)
    <3>1. /\ pc[h] = "confirm" /\ pc'[h] = "idle"
          /\ \/ Check(rules, cmd[h]) = "confirm" /\ answer'[h] = "asked"
             \/ Check(rules, cmd[h]) # "confirm" /\ answer'[h] = "passed"
      BY <2>5 DEF CheckAndConfirm, Answer, Inv, TypeOK
    <3> QED BY <2>1, <2>2, <2>3, <3>1 DEF Inv, Asked, VerdictSteady
  <2> QED BY <1>4, <2>4, <2>5
<1> QED BY <1>1, <1>2, <1>3, <1>4 DEF Next, Edit, LoadRead, vars, engineVars

-----------------------------------------------------------------------------
\* AddDefaultRules fails as a whole: one of its patterns does not compile.
LEMMA DefaultsFail == ~Loads(DefaultDocument)
<1>1. 1 \in DOMAIN DefaultDocument.rules /\ ~DefaultDocument.rules[1].compiles
  BY DEF DefaultDocument
<1> QED BY <1>1 DEF Loads

\* The invariant holds when the server package has been initialised: without any rules.
LEMMA InitInv == Init => Inv
<1> SUFFICES ASSUME Init PROVE Inv
  OBVIOUS
<1>1. rules = <<>>
  BY DefaultsFail DEF Init
<1>2. TypeOK
  <2>1. 0 \in 0..MaxEdits /\ 0 \in 0..MaxCommands
    BY BoundsAssumption
  <2>2. cmd \in [Handler -> Command]
    BY CommandAssumption DEF Init
  <2>3. overlap \in BOOLEAN
    BY Zenon DEF Init
  <2>4. rules \in Seq({r \in Rule : r.compiles}) /\ file \in Seq(Document) /\ Len(file) <= MaxEdits
    <3>1. file = <<>> /\ Len(file) = 0
      BY DEF Init
    <3> QED BY <1>1, <3>1, BoundsAssumption
  <2> QED BY <2>1, <2>2, <2>3, <2>4 DEF Init, TypeOK
<1>3. Versions /\ LoadsInTurn /\ InForce
  BY <1>1 DEF Init, Versions, LoadsInTurn, InForce
<1>4. Asked /\ VerdictSteady
  BY DEF Init, Asked, VerdictSteady
<1> QED BY <1>2, <1>3, <1>4 DEF Inv

\* The invariant is inductive.
LEMMA NextInv == Inv /\ [Next]_vars => Inv'
BY TypeStep, VersionsStep, LoadsInTurnStep, InForceStep, AskedStep DEF Inv

\* The invariant holds throughout.
LEMMA Invariance == Spec => []Inv
BY InitInv, NextInv, PTL DEF Spec

\* For every history of the rule file and any number of LoadRules: once one has succeeded, the
\* engine has all the rules of one good document, the newest loaded unless two LoadRules
\* overlapped.
THEOREM RulesAreCurrent == Spec => []RulesCurrent
<1>1. Inv => RulesCurrent
  <2> SUFFICES ASSUME Inv PROVE RulesCurrent
    OBVIOUS
  <2>1. inForce # 0 => file[inForce].form = "array" \/ (file[inForce].form = "wrapped" /\ rules # <<>>)
    BY DEF Inv, InForce, Loads, Parses
  <2> QED BY <2>1 DEF Inv, InForce, RulesCurrent
<1> QED BY <1>1, Invariance, PTL

\* For every interleaving of handlers and loaders: the answer to a command is one that
\* rules in force during its handling give, except for the change from confirm to block.
THEOREM VerdictsSteady == Spec => []VerdictSteady
<1>1. Inv => VerdictSteady
  BY DEF Inv
<1> QED BY <1>1, Invariance, PTL
=============================================================================
