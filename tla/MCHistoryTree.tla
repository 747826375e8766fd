--------------------------- MODULE MCHistoryTree ---------------------------
(* HistoryTree for TLC. *)
EXTENDS HistoryTree, TLC

Symmetry == Permutations(Branches)
=============================================================================
