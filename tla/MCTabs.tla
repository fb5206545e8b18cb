------------------------------- MODULE MCTabs -------------------------------
(* Tabs for TLC.                                                            *)
EXTENDS Tabs, TLC

Symmetry == Permutations(Files)
=============================================================================
