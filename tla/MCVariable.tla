----------------------------- MODULE MCVariable -----------------------------
(* Small instances of Variable for TLC.                                     *)
EXTENDS Variable, TLC

Symmetric == Permutations(Cells) \cup Permutations(Tasks)

Zero == {0}
Bits == {0, 1}
Signed == {-1, 0, 1}
=============================================================================
