------------------------- MODULE MCSessionRegistry -------------------------
(* One session, and three handlers that race for it and against cleanup.     *)
EXTENDS SessionRegistry
=============================================================================
