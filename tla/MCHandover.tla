---------------------------- MODULE MCHandover ----------------------------
(* Two connections, two new processes, and signals enough for three rounds.  *)
EXTENDS Handover
=============================================================================
