----------------------------- MODULE MCNetworks -----------------------------
(* Handles, networks, addresses and ids are interchangeable.               *)
EXTENDS Networks, TLC

Symmetry ==
  Permutations(Handles) \cup Permutations(Networks) \cup Permutations(Addresses) \cup Permutations(Ids)

=============================================================================
