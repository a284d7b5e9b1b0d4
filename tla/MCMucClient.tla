---------------------------- MODULE MCMucClient ----------------------------
(* MucClient for TLC. *)
EXTENDS MucClient, TLC

Symmetric == Permutations(Peers) \cup Permutations(Nicks)
=============================================================================
