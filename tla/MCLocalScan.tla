---------------------------- MODULE MCLocalScan ----------------------------
(***************************************************************************)
(* A small instance of LocalScan: two runs over the anchor and one file.   *)
(* The anchor may be committed or not; a save may leave the tree dirty     *)
(* before the first run starts.                                            *)
(***************************************************************************)
EXTENDS LocalScan, TLC

CONSTANTS anchor, code, good, other

OfBoth(a, c) == [f \in {anchor, code} |-> IF f = anchor THEN a ELSE c]

\* The anchor is committed, or `sscsb init` wrote it and nobody has.
FirstCommits == {OfBoth(good, good), OfBoth(Absent, good)}

StartingTrees == {OfBoth(good, good)}

Symmetry == Permutations(Lane)
=============================================================================
