----------------------------- MODULE MCTrading -----------------------------
(* Trading for TLC. *)
EXTENDS TradingSwap, TLC

Symmetric == Permutations(Takers) \cup Permutations(Coins)
=============================================================================
