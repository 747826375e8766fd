--------------------------- MODULE MCShieldedCache ---------------------------
(* ShieldedCache for TLC. *)
EXTENDS ShieldedCache, TLC

Symmetry == Permutations(Nullifiers) \cup Permutations(Commitments)
=============================================================================
