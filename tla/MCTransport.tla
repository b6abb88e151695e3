---------------------------- MODULE MCTransport ----------------------------
(* Instances of Transport for TLC. *)
EXTENDS TransportProperties

CONSTANTS call, pair

MCSize == [c \in Calls |-> IF c = pair THEN 2 ELSE 1]
=============================================================================
