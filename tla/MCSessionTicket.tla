-------------------------- MODULE MCSessionTicket --------------------------
(***************************************************************************)
(* Instances of SessionTicket for TLC.                                     *)
(***************************************************************************)
EXTENDS SessionTicket, TLC

Symmetry == Permutations(Sessions \ Legacy) \cup Permutations(Workers)
=============================================================================
