----------------------------- MODULE MCMarkSweep -----------------------------
(* The mark-and-sweep heap for TLC.  Cells and mutators are model values   *)
(* that no definition tells apart.                                         *)
EXTENDS MarkSweepProperties

Symmetry == Permutations(Cells) \cup Permutations(Mutators)
=============================================================================
