---------------------------- MODULE MCNoteStore ----------------------------
(* NoteStore for TLC.                                                       *)
EXTENDS NoteStore, TLC

Symmetry == Permutations(Notes) \cup Permutations(Views)
=============================================================================
