------------------------------ MODULE MCHttpQueue ------------------------------
(* Three requests of two clients for TLC. *)
EXTENDS HttpQueue

CONSTANTS poll, info, other, c1, c2

\* One client polls and asks, the other asks.
MCOwner == [r \in {poll, info, other} |-> IF r = other THEN c2 ELSE c1]
==============================================================================
