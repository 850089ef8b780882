----------------------------- MODULE MCLending ------------------------------
(* Lending for TLC: three keys, of which Swift holds the first and the     *)
(* last to be equal.                                                       *)
EXTENDS Lending

CanonicalKeys == [k \in 1 .. 3 |-> IF k = 3 THEN 1 ELSE k]

=============================================================================
