---------------------------- MODULE MCCoinsCache ----------------------------
(* CoinsCache for TLC: the transactions and block hashes are interchangeable. *)
EXTENDS CoinsCache, TLC

Symmetry == Permutations(Txids) \cup Permutations(Outputs) \cup Permutations(Blocks)
=============================================================================
