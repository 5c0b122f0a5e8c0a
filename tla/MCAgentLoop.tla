----------------------------- MODULE MCAgentLoop -----------------------------
(* AgentLoop for TLC: two requests, one conversation, one mode per provider    *)
(* family.                                                                     *)
EXTENDS AgentLoop, TLC

Symmetry == Permutations(Turns)

MCProviderOf == [m \in Modes |-> m]
=============================================================================
