------------------------------ MODULE Networks ------------------------------
(***************************************************************************)
(* Who hands out a vmnet network's addresses                               *)
(* (src/containerization/network/vmnet_network.rs and                      *)
(* src/containerization/container/container_manager.rs, over               *)
(* VmnetNetwork.swift and ContainerManager.swift).                         *)
(*                                                                         *)
(* Containerization's VmnetNetwork is a struct: a copy of it has a record  *)
(* of its own of which id was given which address, while all copies share  *)
(* one allocator of addresses.  Rust owns each struct through a handle     *)
(* that cannot be cloned, and a manager that is made on a network takes    *)
(* the network's handle, though the bridge copies the struct.              *)
(***************************************************************************)
EXTENDS Naturals

CONSTANTS
  Handles,    \* Rust's VmnetNetworks and ContainerManagers
  Networks,   \* identities of vmnet networks, reused once they are gone
  Addresses,  \* the addresses of a network's subnet
  Ids,        \* what interfaces and containers are named
  None

ASSUME NetworksAssumption ==
  None \notin Networks \cup Addresses \cup Ids

VARIABLES
  kind,         \* what each handle is: none, network, or manager
  network,      \* the network its Swift struct is a copy of, if any
  allocations,  \* the struct's own record: the address each id was given
  free,         \* each network's allocator: the addresses not handed out
  creating      \* the id each manager's `create` is making, if it is in one

vars == <<kind, network, allocations, free, creating>>

TypeOK ==
  /\ kind \in [Handles -> {"none", "network", "manager"}]
  /\ network \in [Handles -> Networks \cup {None}]
  /\ allocations \in [Handles -> [Ids -> Addresses \cup {None}]]
  /\ free \in [Networks -> SUBSET Addresses]
  /\ creating \in [Handles -> Ids \cup {None}]

Nothing == [id \in Ids |-> None]

Init ==
  /\ kind = [h \in Handles |-> "none"]
  /\ network = [h \in Handles |-> None]
  /\ allocations = [h \in Handles |-> Nothing]
  /\ free = [n \in Networks |-> Addresses]
  /\ creating = [h \in Handles |-> None]

Holders(n) == {h \in Handles : network[h] = n}

-----------------------------------------------------------------------------
(* `VmnetNetwork::new`: a network, with its addresses all free.            *)
New(h, n) ==
  /\ kind[h] = "none" /\ Holders(n) = {}
  /\ kind' = [kind EXCEPT ![h] = "network"]
  /\ network' = [network EXCEPT ![h] = n]
  /\ allocations' = [allocations EXCEPT ![h] = Nothing]
  /\ free' = [free EXCEPT ![n] = Addresses]
  /\ UNCHANGED creating

(* What the struct does with an id that has no address yet, and with one   *)
(* that has.  An id that has one already is refused, and so is any id when *)
(* no address is left: nothing changes.                                    *)
Allocate(h, id) ==
  \E a \in free[network[h]] :
    /\ allocations[h][id] = None
    /\ allocations' = [allocations EXCEPT ![h][id] = a]
    /\ free' = [free EXCEPT ![network[h]] = @ \ {a}]

Deallocate(h, id) ==
  /\ allocations[h][id] # None
  /\ allocations' = [allocations EXCEPT ![h][id] = None]
  /\ free' = [free EXCEPT ![network[h]] = @ \cup {allocations[h][id]}]

(* `create_interface` and its two siblings.                                *)
CreateInterface(h, id) ==
  /\ kind[h] = "network"
  /\ Allocate(h, id)
  /\ UNCHANGED <<kind, network, creating>>

ReleaseInterface(h, id) ==
  /\ kind[h] = "network"
  /\ Deallocate(h, id)
  /\ UNCHANGED <<kind, network, creating>>

-----------------------------------------------------------------------------
(* Mutant: `ContainerManager::new` borrows the network it copies.          *)
NewManagerBorrowing(h, m) ==
  /\ kind[h] = "network" /\ kind[m] = "none"
  /\ kind' = [kind EXCEPT ![m] = "manager"]
  /\ network' = [network EXCEPT ![m] = network[h]]
  /\ allocations' = [allocations EXCEPT ![m] = allocations[h]]
  /\ UNCHANGED <<free, creating>>

(* Every constructor of a manager: `network_crossing` has `asNetwork` copy *)
(* the struct, and drops the handle that was moved into it.                *)
NewManager(h, m) ==
  /\ kind[h] = "network" /\ kind[m] = "none"
  /\ kind' = [kind EXCEPT ![h] = "none", ![m] = "manager"]
  /\ network' = [network EXCEPT ![h] = None, ![m] = network[h]]
  /\ allocations' = [allocations EXCEPT ![h] = Nothing, ![m] = allocations[h]]
  /\ UNCHANGED <<free, creating>>

(* A constructor that throws frees its copy as well: the network is gone.  *)
NewManagerThrows(h) ==
  /\ kind[h] = "network"
  /\ kind' = [kind EXCEPT ![h] = "none"]
  /\ network' = [network EXCEPT ![h] = None]
  /\ allocations' = [allocations EXCEPT ![h] = Nothing]
  /\ UNCHANGED <<free, creating>>

(* A manager that is given no network.                                     *)
NewManagerAlone(m) ==
  /\ kind[m] = "none"
  /\ kind' = [kind EXCEPT ![m] = "manager"]
  /\ UNCHANGED <<network, allocations, free, creating>>

(* `create`, `create_with_reference` and `create_with_rootfs` take         *)
(* `&mut self`: nothing else is done with the manager until they return.   *)
BeginCreate(m, id) ==
  /\ kind[m] = "manager" /\ creating[m] = None
  /\ creating' = [creating EXCEPT ![m] = id]
  /\ UNCHANGED <<kind, network, allocations, free>>

(* Unless `networking` is off, the manager seeds the configuration with an *)
(* interface, before Rust's closure gets it.                               *)
SeedInterface(m) ==
  /\ creating[m] # None /\ network[m] # None
  /\ Allocate(m, creating[m])
  /\ UNCHANGED <<kind, network, creating>>

(* It returns.  If it throws, the id keeps the address it may have: only   *)
(* `release_network` and `delete` give that back.                          *)
EndCreate(m) ==
  /\ creating[m] # None
  /\ creating' = [creating EXCEPT ![m] = None]
  /\ UNCHANGED <<kind, network, allocations, free>>

(* `release_network`, and `delete`, which releases before it removes.      *)
ReleaseNetwork(m, id) ==
  /\ kind[m] = "manager" /\ creating[m] = None /\ network[m] # None
  /\ Deallocate(m, id)
  /\ UNCHANGED <<kind, network, creating>>

-----------------------------------------------------------------------------
(* The handle is dropped, and its struct with it.                          *)
Drop(h) ==
  /\ kind[h] # "none" /\ creating[h] = None
  /\ kind' = [kind EXCEPT ![h] = "none"]
  /\ network' = [network EXCEPT ![h] = None]
  /\ allocations' = [allocations EXCEPT ![h] = Nothing]
  /\ UNCHANGED <<free, creating>>

Next ==
  \/ \E h \in Handles, n \in Networks : New(h, n)
  \/ \E h \in Handles, id \in Ids :
       CreateInterface(h, id) \/ ReleaseInterface(h, id) \/ BeginCreate(h, id) \/ ReleaseNetwork(h, id)
  \/ \E h, m \in Handles : NewManager(h, m)
  \/ \E h \in Handles :
       NewManagerThrows(h) \/ NewManagerAlone(h) \/ SeedInterface(h) \/ EndCreate(h) \/ Drop(h)

Spec == Init /\ [][Next]_vars

-----------------------------------------------------------------------------
(* No address of a network is in use twice: two ids never have the same    *)
(* one, whoever gave it to them, and the allocator will not hand out one   *)
(* that an id still has.                                                   *)
NoSharedAddress ==
  \A g, h \in Handles : network[g] = network[h] /\ network[g] # None =>
    \A i, j \in Ids : allocations[g][i] # None =>
      /\ allocations[g][i] \notin free[network[g]]
      /\ i # j => allocations[g][i] # allocations[h][j]

(* No address is stranded: while a network is in use, one that is not free *)
(* is on the record of somebody who can release it.                        *)
NothingStranded ==
  \A h \in Handles : network[h] # None =>
    \A a \in Addresses \ free[network[h]] :
      \E g \in Holders(network[h]), i \in Ids : allocations[g][i] = a

(* Moves from a network to a manager, constructors that throw and creates  *)
(* that fail halfway are nothing to those who hold addresses: what all the *)
(* copies record together is one pool for each network in use.             *)
Promised ==
  INSTANCE AddressPools WITH
    open <- {n \in Networks : Holders(n) # {}},
    leases <- {lease \in Networks \X Ids \X Addresses :
                 \E h \in Holders(lease[1]) : allocations[h][lease[2]] = lease[3]}

ImplementsAddressPools == Promised!Spec

=============================================================================
