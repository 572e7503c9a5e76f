---------------------------- MODULE MCAdmission ----------------------------
(* Requests of an IPv4 client, directly and through a proxy, and of an IPv6  *)
(* client.                                                                   *)
EXTENDS Admission
CONSTANTS v4, v6, proxy

MCClient == {v4, v6, proxy}
MCV6 == {v6}
MCArrival == {[xff |-> None, xri |-> None, remote |-> v4],
              [xff |-> v4, xri |-> None, remote |-> proxy],
              [xff |-> None, xri |-> v4, remote |-> proxy],
              [xff |-> None, xri |-> None, remote |-> v6]}
=============================================================================
