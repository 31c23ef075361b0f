--------------------------- MODULE MCEntryTree ---------------------------
(* EntryTree with small sets of writers, viewers and splits.                *)
EXTENDS EntryTree, TLC

Symmetry == Permutations(Writer) \cup Permutations(Split)
==========================================================================
