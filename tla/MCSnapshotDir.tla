--------------------------- MODULE MCSnapshotDir ---------------------------
(* SnapshotDir for TLC.                                                     *)
EXTENDS SnapshotDir, TLC

Symmetry == Permutations(Apps) \union Permutations(Ids)
=============================================================================
