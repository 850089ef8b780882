---------------------------- MODULE MCCallbacks -----------------------------
(***************************************************************************)
(* Small instances of Callbacks for TLC.                                   *)
(***************************************************************************)
EXTENDS Callbacks, TLC

Symmetry == Permutations(Reporters)
=============================================================================
