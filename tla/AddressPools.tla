---------------------------- MODULE AddressPools ----------------------------
(***************************************************************************)
(* What vmnet networks promise those who connect guests to them            *)
(* (src/containerization/network/vmnet_network.rs and                      *)
(* src/containerization/container/container_manager.rs): a network has     *)
(* one pool of addresses, from which an id has one address at most and     *)
(* which gives an address to one id at most, for as long as the network is *)
(* in use, whoever owns it then and whichever copy of it keeps the record. *)
(***************************************************************************)
CONSTANTS
  Networks,   \* identities of vmnet networks, reused once they are gone
  Addresses,  \* the addresses of a network's subnet
  Ids         \* what interfaces and containers are named

VARIABLES
  open,    \* the networks in use
  leases   \* which id has which address of which network

vars == <<open, leases>>

Init == open = {} /\ leases = {}

Open(n) ==
  /\ n \notin open
  /\ open' = open \cup {n}
  /\ UNCHANGED leases

Lease(n, id, a) ==
  /\ n \in open
  /\ \A b \in Addresses : <<n, id, b>> \notin leases
  /\ \A i \in Ids : <<n, i, a>> \notin leases
  /\ leases' = leases \cup {<<n, id, a>>}
  /\ UNCHANGED open

Release(n, id, a) ==
  /\ <<n, id, a>> \in leases
  /\ leases' = leases \ {<<n, id, a>>}
  /\ UNCHANGED open

Close(n) ==
  /\ n \in open
  /\ open' = open \ {n}
  /\ leases' = leases \ ({n} \X Ids \X Addresses)

Next ==
  \E n \in Networks :
    \/ Open(n) \/ Close(n)
    \/ \E id \in Ids, a \in Addresses : Lease(n, id, a) \/ Release(n, id, a)

Spec == Init /\ [][Next]_vars

=============================================================================
