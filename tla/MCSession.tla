----------------------------- MODULE MCSession -----------------------------
(* Session for TLC.                                                         *)
EXTENDS Session, TLC

Symmetry == Permutations(Threads)
OneByte == <<"n">>
Typing == {<<>>, OneByte}
CR == <<"r">>
=============================================================================
