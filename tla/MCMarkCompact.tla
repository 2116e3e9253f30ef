---------------------------- MODULE MCMarkCompact ----------------------------
(* The mark-and-compact heap for TLC.  Null is a pair like the cells, so   *)
(* that the two can be compared.  The two spaces change places with every  *)
(* collection, and no definition tells the fields apart.                   *)
EXTENDS MarkCompactProperties, TLC

MCNull == <<"null", 0>>

MCCells == (Spaces \X (0 .. SpaceSize - 1))
              \cup ({"small"} \X (0 .. SmallSlots - 1))

Symmetry == Permutations(Spaces) \cup Permutations(Fields)

=============================================================================
