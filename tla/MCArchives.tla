----------------------------- MODULE MCArchives -----------------------------
(* Archives for TLC: the threads are interchangeable.                      *)
EXTENDS Archives, TLC

Symmetry == Permutations(Threads)

=============================================================================
