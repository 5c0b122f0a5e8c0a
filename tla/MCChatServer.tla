---------------------------- MODULE MCChatServer ----------------------------
(* Instance of ChatServer for TLC: two requests that name either of two session *)
(* ids and either of two modes, one hop, room for one session.                  *)
EXTENDS ChatServer, TLC

Symmetry == Permutations(Turns) \cup Permutations(Sids)

MCProviderOf == [m \in Modes |-> m]
=============================================================================
