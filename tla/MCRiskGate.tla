------------------------------ MODULE MCRiskGate ------------------------------
(* Two handlers, two loaders and three versions of the rule file.           *)
EXTENDS RiskGate, TLC

LOCAL R(c, ok, a) == [match |-> c, compiles |-> ok, action |-> a]
LOCAL D(form, rs) == [form |-> form, rules |-> rs]

\* The default rules without their first one, a stricter set in the other form, one in
\* which an unknown action hides a later rule, one whose second pattern is no good, and
\* the two forms of no rules at all, and a text that is no JSON.
MCDocument == {D("array", <<R({"restart"}, TRUE, "confirm"), R({"mkfs"}, TRUE, "block")>>),
               D("wrapped", <<R({"restart", "mkfs"}, TRUE, "block")>>),
               D("array", <<R({"mkfs"}, TRUE, "other"), R({"mkfs", "restart"}, TRUE, "confirm")>>),
               D("array", <<R({"mkfs"}, TRUE, "block"), R({"restart"}, FALSE, "block")>>),
               D("wrapped", <<>>), D("array", <<>>), D("garbage", <<>>)}

MCSymmetry == Permutations(Handler) \cup Permutations(Loader)
=============================================================================
