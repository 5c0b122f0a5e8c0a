-------------------------- MODULE MCRetrieverCache --------------------------
(* RetrieverCache for TLC: the threads are alike.                             *)
EXTENDS RetrieverCache, TLC

MCSymmetry == Permutations(Threads)
=============================================================================
