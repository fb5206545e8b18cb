------------------------------ MODULE MCClips ------------------------------
(* Clips for TLC.                                                           *)
EXTENDS Clips, TLC

Symmetry == Permutations(Copies) \union Permutations(Pastes) \union Permutations(Wins)
=============================================================================
