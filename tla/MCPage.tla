------------------------------- MODULE MCPage -------------------------------
(* Two sessions, one socket, and messages with bytes from 0 to 3: output of *)
(* either or both sessions, requests for either, a maintenance frame and a  *)
(* message that is cut short.  Ids have two bytes, lengths one.             *)
EXTENDS Page

MCBlocks == {Block(1, <<0>>), Block(6, <<1, 3>>), Block(2, <<>>)}

LOCAL Ask(s) == Serialize([type |-> ConfirmFrame, count |-> 1, sessions |-> <<Block(s, <<s>>)>>])
LOCAL Out(ids) == Serialize(RoundFrame([i \in DOMAIN ids |-> Block(ids[i], <<3>>)]))

MCWire == {Out(<<1>>), Out(<<2, 1>>), Ask(1), Ask(2), SerializeMaintenance(MaintenanceFrame(<<3>>)),
           Front(Ask(1)), <<ConfirmFrame, 0>>}
=============================================================================
