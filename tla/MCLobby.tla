------------------------------- MODULE MCLobby -------------------------------
(* Lobby with three connections. *)
EXTENDS Lobby, TLC

Symmetry == Permutations(Conns)
=============================================================================
