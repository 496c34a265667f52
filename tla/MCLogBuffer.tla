----------------------------- MODULE MCLogBuffer -----------------------------
(***************************************************************************)
(* Instances of LogBuffer for TLC.                                        *)
(***************************************************************************)
EXTENDS LogBuffer, TLC

CONSTANTS e1, m1, m2

Symmetry == Permutations(Lines \ ErrorLines)
=============================================================================
