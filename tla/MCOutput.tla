------------------------------ MODULE MCOutput ------------------------------
(***************************************************************************)
(* Small instances of Output for TLC.                                      *)
(***************************************************************************)
EXTENDS Output, TLC

Symmetry == Permutations(Lent) \cup Permutations(Deleters)
=============================================================================
