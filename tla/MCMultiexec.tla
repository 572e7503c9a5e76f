---------------------------- MODULE MCMultiexec ----------------------------
(* Two hosts; "ui" is a source that is no target.                           *)
EXTENDS Multiexec
CONSTANTS s1, s2, c1, c2

MCSession == {s1, s2}
MCCaller == {c1, c2}
MCSource == {"ui", s1}
OneOrder == {<<s1, s2>>}
=============================================================================
