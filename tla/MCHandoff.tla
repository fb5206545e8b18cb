----------------------------- MODULE MCHandoff -----------------------------
(* Handoff for model checking.  Neither the notes nor the windows differ.   *)
EXTENDS Handoff, TLC

Symmetry == Permutations(Notes) \cup Permutations(Windows)
=============================================================================
