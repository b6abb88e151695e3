------------------------------- MODULE MCDemo -------------------------------
(* Instances of Demo for TLC. *)
EXTENDS DemoProperties

CONSTANTS old, new

MCMaxRequests == [l \in Limiters |-> IF l = "read" THEN 6 ELSE 3]
=============================================================================
