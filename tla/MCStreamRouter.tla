--------------------------- MODULE MCStreamRouter ---------------------------
(* A buffer of 3 puts the water marks at 2 bytes and 1.  One of two sessions *)
(* gets its buffer replaced.                                                  *)
EXTENDS StreamRouter, TLC
CONSTANTS s1, s2

MCSession == {s1, s2}
OneReplaced == s1 :> 2 @@ s2 :> 1
NoneReplaced == s1 :> 1 @@ s2 :> 1
=============================================================================
