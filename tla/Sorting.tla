------------------------------ MODULE Sorting ------------------------------
(***************************************************************************)
(* What Python's sorted does with distinct keys.  The order is a relation, *)
(* so that facts about sorting can be stated for any order; SortSeq of     *)
(* TLC.tla, which the community modules sort with, has no definition that  *)
(* a prover could use.                                                     *)
(***************************************************************************)
EXTENDS Naturals, FiniteSets

\* The elements of S, each behind those that come before it by R.
SortedBy(S, R) ==
    [i \in 1 .. Cardinality(S) |-> CHOOSE x \in S : Cardinality({y \in S : <<y, x>> \in R}) = i - 1]

Ascending(S) == SortedBy(S, {p \in S \X S : p[1] < p[2]})

\* What s has at the places given, in its order.
Pick(s, places) == [n \in DOMAIN Ascending(places) |-> s[Ascending(places)[n]]]
=============================================================================
