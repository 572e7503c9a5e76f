---------------------------- MODULE MCConnPumps ----------------------------
(* Two connections, with a Send channel short enough to fill up.  Either the *)
(* router broadcasts twice, so that order matters, or it and the signal loop *)
(* broadcast at the same time.                                               *)
EXTENDS ConnPumps

MCMaxCasts == {[b \in Caster |-> IF b = "router" THEN 2 ELSE 0], [b \in Caster |-> 1]}
=============================================================================
