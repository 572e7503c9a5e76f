------------------------------ MODULE ByteStream ------------------------------
(***************************************************************************)
(* What a terminal's output buffer promises to the stream router: the      *)
(* bytes accepted from the shell come out once each and in order, never    *)
(* more than Capacity of them are pending, and nothing is accepted after   *)
(* the stream is shut.  The promise ends, visibly, with the step that      *)
(* breaks it (lossy).                                                      *)
(***************************************************************************)
EXTENDS Naturals, Sequences

CONSTANTS Capacity, \* number of bytes that may be pending
          Symbol    \* the bytes

VARIABLES sent,  \* every byte accepted so far, in order
          got,   \* every byte handed to a consumer so far, in order
          shut,  \* the producer has closed the stream
          lossy  \* the promise has been given up

vars == <<sent, got, shut, lossy>>

Init == /\ sent = <<>>
        /\ got = <<>>
        /\ shut = FALSE
        /\ lossy = FALSE

Send == /\ ~shut /\ ~lossy
        /\ sent' \in Seq(Symbol)
        /\ Len(sent) <= Len(sent') /\ Len(sent') <= Len(got) + Capacity
        /\ SubSeq(sent', 1, Len(sent)) = sent
        /\ UNCHANGED <<got, shut, lossy>>

Receive == /\ ~lossy
           /\ \E n \in Len(got) .. Len(sent) : got' = SubSeq(sent, 1, n)
           /\ UNCHANGED <<sent, shut, lossy>>

Shut == /\ shut' = TRUE
        /\ UNCHANGED <<sent, got, lossy>>

\* After the first loss only the end of the stream is still promised: nothing
\* is accepted once it is shut.
Lose == /\ lossy' = TRUE
        /\ shut' = shut
        /\ shut => sent' = sent

Next == Send \/ Receive \/ Shut \/ Lose

Spec == Init /\ [][Next]_vars
=============================================================================
