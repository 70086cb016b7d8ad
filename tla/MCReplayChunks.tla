--------------------------- MODULE MCReplayChunks ---------------------------
(***************************************************************************)
(* Instances of ReplayChunks for TLC: the symmetry of the events, the      *)
(* calls and the sessions.                                                 *)
(***************************************************************************)
EXTENDS ReplayChunks, TLC

Symmetric ==
  Permutations(Event) \union Permutations(Call) \union Permutations(Session)
=============================================================================
