------------------------------- MODULE MCQuit -------------------------------
(* Quit for TLC.                                                            *)
EXTENDS Quit, TLC

Symmetry == Permutations(Wins)
=============================================================================
