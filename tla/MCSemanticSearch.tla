-------------------------- MODULE MCSemanticSearch --------------------------
(* SemanticSearch for TLC: a turn of two calls and a turn of one. *)
EXTENDS SemanticSearch

CONSTANTS A, B, c1, c2, c3

MCCallsOf == [t \in {A, B} |-> IF t = A THEN <<c1, c2>> ELSE <<c3>>]
=============================================================================
