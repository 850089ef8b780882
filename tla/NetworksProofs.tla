--------------------------- MODULE NetworksProofs ---------------------------
(***************************************************************************)
(* No address of a vmnet network is ever in use twice, and none that is    *)
(* out of the allocator is ever out of reach, however many handles,        *)
(* networks, addresses and ids there are.                                  *)
(*                                                                         *)
(* Both rest on ownership: a network in use has exactly one holder, the    *)
(* handle it was made with or the manager that took it.                    *)
(***************************************************************************)
EXTENDS Networks, TLAPS

OneHolder ==
  \A g, h \in Handles : network[g] = network[h] /\ network[g] # None => g = h

(* A handle that is a network has one, and one that is nothing has none;   *)
(* only a manager is ever inside `create`.                                 *)
KindInv ==
  \A h \in Handles :
    /\ kind[h] = "network" => network[h] # None
    /\ kind[h] = "none" => network[h] = None
    /\ creating[h] # None => kind[h] = "manager"

(* A holder's record and the allocator split the network's addresses.      *)
RecordInv ==
  \A h \in Handles : network[h] # None =>
    /\ \A i \in Ids : allocations[h][i] \notin free[network[h]]
    /\ \A i, j \in Ids : allocations[h][i] # None /\ i # j => allocations[h][i] # allocations[h][j]
    /\ \A a \in Addresses \ free[network[h]] : \E i \in Ids : allocations[h][i] = a

IInv == TypeOK /\ OneHolder /\ KindInv /\ RecordInv

-----------------------------------------------------------------------------
(* The invariant holds at the start, when there are no handles.            *)
LEMMA InitIInv == Init => IInv
BY NetworksAssumption DEF Init, IInv, TypeOK, OneHolder, KindInv, RecordInv, Nothing

(* Handing an address of a network to an id keeps the record straight.     *)
LEMMA AllocateIInv ==
  ASSUME NEW h \in Handles, NEW id \in Ids, IInv, network[h] # None,
         Allocate(h, id), UNCHANGED <<kind, network, creating>>
  PROVE  IInv'
<1>1. PICK a \in free[network[h]] :
        /\ allocations[h][id] = None
        /\ allocations' = [allocations EXCEPT ![h][id] = a]
        /\ free' = [free EXCEPT ![network[h]] = @ \ {a}]
  BY DEF Allocate
<1>2. network[h] \in Networks /\ a \in Addresses /\ a # None
  BY <1>1, NetworksAssumption DEF IInv, TypeOK
<1>3. TypeOK'
  <2>1. allocations' \in [Handles -> [Ids -> Addresses \cup {None}]]
    BY <1>1, <1>2 DEF IInv, TypeOK
  <2>2. free' \in [Networks -> SUBSET Addresses]
    BY <1>1, <1>2 DEF IInv, TypeOK
  <2> QED
    BY <2>1, <2>2 DEF IInv, TypeOK
<1>4. OneHolder' /\ KindInv'
  BY DEF IInv, OneHolder, KindInv
<1>5. \A i \in Ids : allocations'[h][i] = IF i = id THEN a ELSE allocations[h][i]
  BY <1>1 DEF IInv, TypeOK
<1>6. \A g \in Handles : g # h => allocations'[g] = allocations[g]
  BY <1>1 DEF IInv, TypeOK
<1>7. \A n \in Networks : free'[n] = IF n = network[h] THEN free[n] \ {a} ELSE free[n]
  BY <1>1, <1>2 DEF IInv, TypeOK
<1>8. RecordInv'
  <2> SUFFICES ASSUME NEW g \in Handles, network[g] # None
               PROVE  /\ \A i \in Ids : allocations'[g][i] \notin free'[network[g]]
                      /\ \A i, j \in Ids : allocations'[g][i] # None /\ i # j =>
                           allocations'[g][i] # allocations'[g][j]
                      /\ \A b \in Addresses \ free'[network[g]] : \E i \in Ids : allocations'[g][i] = b
    BY DEF RecordInv
  <2>1. CASE g = h
    <3>1. \A i \in Ids : allocations[h][i] \notin free[network[h]]
      BY <2>1 DEF IInv, RecordInv
    <3>2. \A i, j \in Ids : allocations[h][i] # None /\ i # j => allocations[h][i] # allocations[h][j]
      BY <2>1 DEF IInv, RecordInv
    <3>3. \A b \in Addresses \ free[network[h]] : \E i \in Ids : allocations[h][i] = b
      BY <2>1 DEF IInv, RecordInv
    <3>4. \A i \in Ids : allocations'[h][i] \notin free'[network[h]]
      BY <3>1, <1>2, <1>5, <1>7
    <3>5. \A i, j \in Ids : allocations'[h][i] # None /\ i # j => allocations'[h][i] # allocations'[h][j]
      BY <3>1, <3>2, <1>1, <1>2, <1>5
    <3>6. \A b \in Addresses \ free'[network[h]] : \E i \in Ids : allocations'[h][i] = b
      <4> SUFFICES ASSUME NEW b \in Addresses, b \notin free'[network[h]]
                   PROVE  \E i \in Ids : allocations'[h][i] = b
        OBVIOUS
      <4>1. CASE b = a
        BY <4>1, <1>5
      <4>2. CASE b # a
        <5>1. b \notin free[network[h]]
          BY <4>2, <1>2, <1>7
        <5>2. PICK i \in Ids : allocations[h][i] = b
          BY <5>1, <3>3
        <5>3. i # id
          BY <5>2, <1>1, NetworksAssumption
        <5> QED
          BY <5>2, <5>3, <1>5
      <4> QED
        BY <4>1, <4>2
    <3> QED
      BY <2>1, <3>4, <3>5, <3>6
  <2>2. CASE g # h
    <3>1. network[g] \in Networks /\ network[g] # network[h]
      BY <2>2 DEF IInv, TypeOK, OneHolder
    <3>2. free'[network[g]] = free[network[g]] /\ allocations'[g] = allocations[g]
      BY <2>2, <3>1, <1>6, <1>7
    <3> QED
      BY <3>2 DEF IInv, RecordInv
  <2> QED
    BY <2>1, <2>2
<1> QED
  BY <1>3, <1>4, <1>8 DEF IInv

(* Taking an address back from an id keeps the record straight.            *)
LEMMA DeallocateIInv ==
  ASSUME NEW h \in Handles, NEW id \in Ids, IInv, network[h] # None,
         Deallocate(h, id), UNCHANGED <<kind, network, creating>>
  PROVE  IInv'
<1> DEFINE a == allocations[h][id]
<1>1. /\ a # None
      /\ allocations' = [allocations EXCEPT ![h][id] = None]
      /\ free' = [free EXCEPT ![network[h]] = @ \cup {a}]
  BY DEF Deallocate
<1>2. network[h] \in Networks /\ a \in Addresses
  BY <1>1 DEF IInv, TypeOK
<1> HIDE DEF a
<1>3. TypeOK'
  <2>1. allocations' \in [Handles -> [Ids -> Addresses \cup {None}]]
    BY <1>1 DEF IInv, TypeOK
  <2>2. free' \in [Networks -> SUBSET Addresses]
    BY <1>1, <1>2 DEF IInv, TypeOK
  <2> QED
    BY <2>1, <2>2 DEF IInv, TypeOK
<1>4. OneHolder' /\ KindInv'
  BY DEF IInv, OneHolder, KindInv
<1>5. \A i \in Ids : allocations'[h][i] = IF i = id THEN None ELSE allocations[h][i]
  BY <1>1 DEF IInv, TypeOK
<1>6. \A g \in Handles : g # h => allocations'[g] = allocations[g]
  BY <1>1 DEF IInv, TypeOK
<1>7. \A n \in Networks : free'[n] = IF n = network[h] THEN free[n] \cup {a} ELSE free[n]
  BY <1>1, <1>2 DEF IInv, TypeOK
<1>8. RecordInv'
  <2> SUFFICES ASSUME NEW g \in Handles, network[g] # None
               PROVE  /\ \A i \in Ids : allocations'[g][i] \notin free'[network[g]]
                      /\ \A i, j \in Ids : allocations'[g][i] # None /\ i # j =>
                           allocations'[g][i] # allocations'[g][j]
                      /\ \A b \in Addresses \ free'[network[g]] : \E i \in Ids : allocations'[g][i] = b
    BY DEF RecordInv
  <2>1. CASE g = h
    <3>0. /\ \A i \in Ids : allocations[h][i] \notin free[network[h]]
          /\ \A i, j \in Ids : allocations[h][i] # None /\ i # j => allocations[h][i] # allocations[h][j]
          /\ \A b \in Addresses \ free[network[h]] : \E i \in Ids : allocations[h][i] = b
      BY <2>1 DEF IInv, RecordInv
    <3>1. a = allocations[h][id]
      BY DEF a
    <3>2. None \notin free'[network[h]]
      BY <1>2, <1>3, NetworksAssumption DEF TypeOK
    <3>4. \A i \in Ids : allocations'[h][i] \notin free'[network[h]]
      BY <3>0, <3>1, <3>2, <1>1, <1>2, <1>5, <1>7
    <3>5. \A i, j \in Ids : allocations'[h][i] # None /\ i # j => allocations'[h][i] # allocations'[h][j]
      BY <3>0, <1>5
    <3>6. \A b \in Addresses \ free'[network[h]] : \E i \in Ids : allocations'[h][i] = b
      <4> SUFFICES ASSUME NEW b \in Addresses, b \notin free'[network[h]]
                   PROVE  \E i \in Ids : allocations'[h][i] = b
        OBVIOUS
      <4>1. b \notin free[network[h]] /\ b # a
        BY <1>2, <1>7
      <4>2. PICK i \in Ids : allocations[h][i] = b
        BY <4>1, <3>0
      <4>3. i # id
        BY <4>1, <4>2, <3>1
      <4> QED
        BY <4>2, <4>3, <1>5
    <3> QED
      BY <2>1, <3>4, <3>5, <3>6
  <2>2. CASE g # h
    <3>1. network[g] \in Networks /\ network[g] # network[h]
      BY <2>2 DEF IInv, TypeOK, OneHolder
    <3>2. free'[network[g]] = free[network[g]] /\ allocations'[g] = allocations[g]
      BY <2>2, <3>1, <1>6, <1>7
    <3> QED
      BY <3>2 DEF IInv, RecordInv
  <2> QED
    BY <2>1, <2>2
<1> QED
  BY <1>3, <1>4, <1>8 DEF IInv

(* A network is nobody's when its handle takes it, and its record empty.   *)
LEMMA NewIInv ==
  ASSUME NEW h \in Handles, NEW n \in Networks, IInv, New(h, n)
  PROVE  IInv'
<1>1. TypeOK'
  BY DEF IInv, TypeOK, New, Nothing
<1>2. network[h] = None /\ \A g \in Handles : network[g] # n
  BY DEF IInv, KindInv, New, Holders
<1>3. \A g \in Handles : network'[g] = IF g = h THEN n ELSE network[g]
  BY DEF IInv, TypeOK, New
<1>4. n # None
  BY NetworksAssumption
<1>5. OneHolder'
  BY <1>2, <1>3, <1>4 DEF IInv, OneHolder
<1>6. KindInv'
  BY <1>3, <1>4 DEF IInv, TypeOK, KindInv, New
<1>7. RecordInv'
  <2> SUFFICES ASSUME NEW g \in Handles, network'[g] # None
               PROVE  /\ \A i \in Ids : allocations'[g][i] \notin free'[network'[g]]
                      /\ \A i, j \in Ids : allocations'[g][i] # None /\ i # j =>
                           allocations'[g][i] # allocations'[g][j]
                      /\ \A b \in Addresses \ free'[network'[g]] : \E i \in Ids : allocations'[g][i] = b
    BY DEF RecordInv
  <2>1. CASE g = h
    <3>1. allocations'[g] = [i \in Ids |-> None] /\ free'[network'[g]] = Addresses
      BY <2>1, <1>3 DEF IInv, TypeOK, New, Nothing
    <3> QED
      BY <3>1, NetworksAssumption
  <2>2. CASE g # h
    <3>1. network'[g] = network[g] /\ network[g] # n /\ network[g] \in Networks
      BY <2>2, <1>2, <1>3 DEF IInv, TypeOK
    <3>2. allocations'[g] = allocations[g] /\ free'[network[g]] = free[network[g]]
      BY <2>2, <3>1 DEF IInv, TypeOK, New
    <3> QED
      BY <3>1, <3>2 DEF IInv, RecordInv
  <2> QED
    BY <2>1, <2>2
<1> QED
  BY <1>1, <1>5, <1>6, <1>7 DEF IInv

(* A manager takes its network over from the handle, record and all.       *)
LEMMA NewManagerIInv ==
  ASSUME NEW h \in Handles, NEW m \in Handles, IInv, NewManager(h, m)
  PROVE  IInv'
<1>1. h # m /\ network[h] # None /\ network[m] = None
  BY DEF IInv, KindInv, NewManager
<1>2. TypeOK'
  BY DEF IInv, TypeOK, NewManager, Nothing
<1>3. \A g \in Handles : network'[g] = IF g = m THEN network[h] ELSE IF g = h THEN None ELSE network[g]
  BY <1>1 DEF IInv, TypeOK, NewManager
<1>4. \A g \in Handles : g # h => allocations'[g] = IF g = m THEN allocations[h] ELSE allocations[g]
  BY <1>1 DEF IInv, TypeOK, NewManager
<1>5. OneHolder'
  BY <1>1, <1>3 DEF IInv, OneHolder
<1>6. KindInv'
  BY <1>1, <1>3 DEF IInv, TypeOK, KindInv, NewManager
<1>7. free' = free
  BY DEF NewManager
<1>8. RecordInv'
  <2> SUFFICES ASSUME NEW g \in Handles, network'[g] # None
               PROVE  /\ \A i \in Ids : allocations'[g][i] \notin free[network'[g]]
                      /\ \A i, j \in Ids : allocations'[g][i] # None /\ i # j =>
                           allocations'[g][i] # allocations'[g][j]
                      /\ \A b \in Addresses \ free[network'[g]] : \E i \in Ids : allocations'[g][i] = b
    BY <1>7 DEF RecordInv
  <2>1. \E f \in Handles : network[f] # None /\ network'[g] = network[f] /\ allocations'[g] = allocations[f]
    BY <1>1, <1>3, <1>4
  <2> QED
    BY <2>1 DEF IInv, RecordInv
<1> QED
  BY <1>2, <1>5, <1>6, <1>8 DEF IInv

(* A handle that goes away takes its network with it.                      *)
LEMMA GoneIInv ==
  ASSUME NEW h \in Handles, IInv, creating[h] = None,
         kind' = [kind EXCEPT ![h] = "none"],
         network' = [network EXCEPT ![h] = None],
         allocations' = [allocations EXCEPT ![h] = Nothing],
         UNCHANGED <<free, creating>>
  PROVE  IInv'
<1>1. TypeOK'
  BY DEF IInv, TypeOK, Nothing
<1>2. \A g \in Handles : network'[g] = IF g = h THEN None ELSE network[g]
  BY DEF IInv, TypeOK
<1>3. \A g \in Handles : g # h => allocations'[g] = allocations[g]
  BY DEF IInv, TypeOK
<1>4. OneHolder'
  BY <1>2 DEF IInv, OneHolder
<1>5. KindInv'
  BY <1>2 DEF IInv, TypeOK, KindInv
<1>6. RecordInv'
  BY <1>2, <1>3 DEF IInv, RecordInv
<1> QED
  BY <1>1, <1>4, <1>5, <1>6 DEF IInv

(* Every step keeps the invariant.                                         *)
LEMMA NextIInv == IInv /\ [Next]_vars => IInv'
<1> SUFFICES ASSUME IInv, [Next]_vars
             PROVE  IInv'
  OBVIOUS
<1>1. ASSUME NEW h \in Handles, NEW n \in Networks, New(h, n)
      PROVE  IInv'
  BY <1>1, NewIInv
<1>2. ASSUME NEW h \in Handles, NEW id \in Ids, CreateInterface(h, id)
      PROVE  IInv'
  <2>1. network[h] # None
    BY <1>2 DEF CreateInterface, IInv, KindInv
  <2> QED
    BY <1>2, <2>1, AllocateIInv DEF CreateInterface
<1>3. ASSUME NEW h \in Handles, NEW id \in Ids, ReleaseInterface(h, id)
      PROVE  IInv'
  <2>1. network[h] # None
    BY <1>3 DEF ReleaseInterface, IInv, KindInv
  <2> QED
    BY <1>3, <2>1, DeallocateIInv DEF ReleaseInterface
<1>4. ASSUME NEW h \in Handles, NEW m \in Handles, NewManager(h, m)
      PROVE  IInv'
  BY <1>4, NewManagerIInv
<1>5. ASSUME NEW h \in Handles, NewManagerThrows(h)
      PROVE  IInv'
  <2>1. creating[h] = None
    BY <1>5 DEF NewManagerThrows, IInv, KindInv
  <2> QED
    BY <1>5, <2>1, GoneIInv DEF NewManagerThrows
<1>6. ASSUME NEW m \in Handles, NewManagerAlone(m)
      PROVE  IInv'
  BY <1>6 DEF NewManagerAlone, IInv, TypeOK, OneHolder, KindInv, RecordInv
<1>7. ASSUME NEW m \in Handles, NEW id \in Ids, BeginCreate(m, id)
      PROVE  IInv'
  BY <1>7 DEF BeginCreate, IInv, TypeOK, OneHolder, KindInv, RecordInv
<1>8. ASSUME NEW m \in Handles, SeedInterface(m)
      PROVE  IInv'
  <2>1. creating[m] \in Ids /\ network[m] # None
    BY <1>8 DEF SeedInterface, IInv, TypeOK
  <2> QED
    BY <1>8, <2>1, AllocateIInv DEF SeedInterface
<1>9. ASSUME NEW m \in Handles, EndCreate(m)
      PROVE  IInv'
  BY <1>9 DEF EndCreate, IInv, TypeOK, OneHolder, KindInv, RecordInv
<1>10. ASSUME NEW m \in Handles, NEW id \in Ids, ReleaseNetwork(m, id)
       PROVE  IInv'
  BY <1>10, DeallocateIInv DEF ReleaseNetwork
<1>11. ASSUME NEW h \in Handles, Drop(h)
       PROVE  IInv'
  BY <1>11, GoneIInv DEF Drop
<1>12. CASE UNCHANGED vars
  BY <1>12 DEF vars, IInv, TypeOK, OneHolder, KindInv, RecordInv
<1> QED
  BY <1>1, <1>2, <1>3, <1>4, <1>5, <1>6, <1>7, <1>8, <1>9, <1>10, <1>11, <1>12 DEF Next

(* Ownership makes both properties out of one holder's record.             *)
LEMMA IInvImplies == IInv => TypeOK /\ NoSharedAddress /\ NothingStranded
<1> SUFFICES ASSUME IInv
             PROVE  TypeOK /\ NoSharedAddress /\ NothingStranded
  OBVIOUS
<1>1. NoSharedAddress
  BY DEF IInv, OneHolder, RecordInv, NoSharedAddress
<1>2. NothingStranded
  BY DEF IInv, RecordInv, NothingStranded, Holders
<1> QED
  BY <1>1, <1>2 DEF IInv

LEMMA AlwaysIInv == Spec => []IInv
BY InitIInv, NextIInv, PTL DEF Spec

-----------------------------------------------------------------------------
(* The handles implement AddressPools: who holds a network and the pool    *)
(* that its holder's record makes.                                         *)
Open == {n \in Networks : Holders(n) # {}}

Leases ==
  {lease \in Networks \X Ids \X Addresses :
     \E h \in Holders(lease[1]) : allocations[h][lease[2]] = lease[3]}

LEMMA InLeases ==
  ASSUME NEW n \in Networks, NEW id \in Ids, NEW a \in Addresses
  PROVE  <<n, id, a>> \in Leases <=> \E h \in Handles : network[h] = n /\ allocations[h][id] = a
BY DEF Leases, Holders

LEMMA LeasesAreTriples == Leases \subseteq Networks \X Ids \X Addresses
BY DEF Leases

(* Ownership makes the pool of a network its one holder's record.          *)
LEMMA HoldersRecord ==
  ASSUME IInv, NEW h \in Handles, network[h] # None, NEW id \in Ids, NEW a \in Addresses
  PROVE  /\ network[h] \in Open
         /\ <<network[h], id, a>> \in Leases <=> allocations[h][id] = a
<1>1. network[h] \in Networks /\ \A g \in Handles : network[g] = network[h] => g = h
  BY DEF IInv, TypeOK, OneHolder
<1> QED
  BY <1>1, InLeases DEF Open, Holders

LEMMA RefinesInit == Init => Promised!Init
<1> SUFFICES ASSUME Init PROVE Open = {} /\ Leases = {}
  BY DEF Promised!Init, Open, Leases
<1>1. \A n \in Networks : Holders(n) = {}
  BY NetworksAssumption DEF Init, Holders
<1> QED
  BY <1>1 DEF Open, Leases

(* Steps that leave networks and records alone are hidden.                 *)
LEMMA RefinesNothing == UNCHANGED <<network, allocations>> => UNCHANGED Promised!vars
BY DEF Promised!vars, Holders

(* Two pools with the same triples are the same.                           *)
LEMMA SamePool ==
  ASSUME NEW S, NEW T, S \subseteq Networks \X Ids \X Addresses, T \subseteq Networks \X Ids \X Addresses,
         \A n \in Networks, id \in Ids, a \in Addresses : <<n, id, a>> \in S <=> <<n, id, a>> \in T
  PROVE  S = T
<1>1. \A t \in Networks \X Ids \X Addresses : \E n \in Networks, id \in Ids, a \in Addresses : t = <<n, id, a>>
  OBVIOUS
<1> QED
  BY <1>1

(* An address that is handed to an id is leased to nobody, and the id has  *)
(* none: both can be read off the holder's record.                         *)
LEMMA RefinesAllocate ==
  ASSUME NEW h \in Handles, NEW id \in Ids, IInv, network[h] # None,
         Allocate(h, id), UNCHANGED network
  PROVE  \E n \in Networks, b \in Addresses : Promised!Lease(n, id, b)
<1>1. PICK a \in free[network[h]] :
        /\ allocations[h][id] = None
        /\ allocations' = [allocations EXCEPT ![h][id] = a]
  BY DEF Allocate
<1>2. network[h] \in Networks /\ a \in Addresses
  BY <1>1 DEF IInv, TypeOK
<1>3. network[h] \in Open /\ \A b \in Addresses : <<network[h], id, b>> \notin Leases
  BY <1>1, HoldersRecord, <1>2, NetworksAssumption
<1>4. \A i \in Ids : <<network[h], i, a>> \notin Leases
  BY <1>1, <1>2, HoldersRecord DEF IInv, RecordInv
<1>5. \A g \in Handles, i \in Ids : allocations'[g][i] = IF g = h /\ i = id THEN a ELSE allocations[g][i]
  BY <1>1 DEF IInv, TypeOK
<1>6. Leases' = Leases \cup {<<network[h], id, a>>}
  <2>1. Leases' \subseteq Networks \X Ids \X Addresses
    BY DEF Leases
  <2>2. Leases \cup {<<network[h], id, a>>} \subseteq Networks \X Ids \X Addresses
    BY <1>2, LeasesAreTriples
  <2>3. ASSUME NEW n \in Networks, NEW i \in Ids, NEW b \in Addresses
        PROVE  <<n, i, b>> \in Leases' <=> <<n, i, b>> \in Leases \cup {<<network[h], id, a>>}
    <3>1. <<n, i, b>> \in Leases' <=> \E g \in Handles : network[g] = n /\ allocations'[g][i] = b
      BY DEF Leases, Holders
    <3>2. <<n, i, b>> \in Leases <=> \E g \in Handles : network[g] = n /\ allocations[g][i] = b
      BY InLeases
    <3>3. <<n, i, b>> = <<network[h], id, a>> <=> n = network[h] /\ i = id /\ b = a
      OBVIOUS
    <3> QED
      BY <3>1, <3>2, <3>3, <1>1, <1>5, NetworksAssumption
  <2> QED
    BY <2>1, <2>2, <2>3, SamePool
<1>7. Open' = Open
  BY DEF Open, Holders
<1>8. PICK n \in Networks : n = network[h]
  BY <1>2
<1>9. Promised!Lease(n, id, a)
  BY <1>2, <1>3, <1>4, <1>6, <1>7, <1>8 DEF Promised!Lease, Open, Leases
<1> QED
  BY <1>2, <1>9

(* An address that is taken back was leased to that id.                    *)
LEMMA RefinesDeallocate ==
  ASSUME NEW h \in Handles, NEW id \in Ids, IInv, network[h] # None,
         Deallocate(h, id), UNCHANGED network
  PROVE  \E n \in Networks, b \in Addresses : Promised!Release(n, id, b)
<1> DEFINE a == allocations[h][id]
<1>1. a # None /\ allocations' = [allocations EXCEPT ![h][id] = None]
  BY DEF Deallocate
<1>2. network[h] \in Networks /\ a \in Addresses
  BY <1>1 DEF IInv, TypeOK
<1>3. <<network[h], id, a>> \in Leases
  BY <1>2, HoldersRecord
<1>4. \A g \in Handles, i \in Ids : allocations'[g][i] = IF g = h /\ i = id THEN None ELSE allocations[g][i]
  BY <1>1 DEF IInv, TypeOK
<1>5. \A g \in Handles : network[g] = network[h] => g = h
  BY DEF IInv, OneHolder
<1>6. allocations[h][id] = a
  OBVIOUS
<1> HIDE DEF a
<1>7. Leases' = Leases \ {<<network[h], id, a>>}
  <2>1. Leases' \subseteq Networks \X Ids \X Addresses
    BY DEF Leases
  <2>2. Leases \ {<<network[h], id, a>>} \subseteq Networks \X Ids \X Addresses
    BY LeasesAreTriples
  <2>3. ASSUME NEW n \in Networks, NEW i \in Ids, NEW b \in Addresses
        PROVE  <<n, i, b>> \in Leases' <=> <<n, i, b>> \in Leases \ {<<network[h], id, a>>}
    <3>1. <<n, i, b>> \in Leases' <=> \E g \in Handles : network[g] = n /\ allocations'[g][i] = b
      BY DEF Leases, Holders
    <3>2. <<n, i, b>> \in Leases <=> \E g \in Handles : network[g] = n /\ allocations[g][i] = b
      BY InLeases
    <3>3. <<n, i, b>> = <<network[h], id, a>> <=> n = network[h] /\ i = id /\ b = a
      OBVIOUS
    <3> QED
      BY <3>1, <3>2, <3>3, <1>4, <1>5, <1>6, NetworksAssumption
  <2> QED
    BY <2>1, <2>2, <2>3, SamePool
<1>8. Open' = Open
  BY DEF Open, Holders
<1>9. PICK n \in Networks, b \in Addresses : n = network[h] /\ b = a
  BY <1>2
<1>10. Promised!Release(n, id, b)
  BY <1>3, <1>7, <1>8, <1>9 DEF Promised!Release, Open, Leases
<1> QED
  BY <1>10

(* A network that a handle takes is nobody's, and nothing of it is leased. *)
LEMMA RefinesNew ==
  ASSUME NEW h \in Handles, NEW n \in Networks, IInv, New(h, n)
  PROVE  Promised!Open(n)
<1>1. network[h] = None /\ \A g \in Handles : network[g] # n
  BY DEF IInv, KindInv, New, Holders
<1>2. \A g \in Handles : network'[g] = IF g = h THEN n ELSE network[g]
  BY DEF IInv, TypeOK, New
<1>3. \A g \in Handles, i \in Ids : allocations'[g][i] = IF g = h THEN None ELSE allocations[g][i]
  BY DEF IInv, TypeOK, New, Nothing
<1>4. n \notin Open /\ Open' = Open \cup {n}
  <2>1. \A k \in Networks : k \in Open <=> \E g \in Handles : network[g] = k
    BY DEF Open, Holders
  <2>2. \A k \in Networks : k \in Open' <=> \E g \in Handles : network'[g] = k
    BY DEF Open, Holders
  <2>3. Open \subseteq Networks /\ Open' \subseteq Networks
    BY DEF Open
  <2> QED
    BY <2>1, <2>2, <2>3, <1>1, <1>2, NetworksAssumption
<1>5. Leases' = Leases
  <2>1. Leases' \subseteq Networks \X Ids \X Addresses
    BY DEF Leases
  <2>2. ASSUME NEW k \in Networks, NEW i \in Ids, NEW b \in Addresses
        PROVE  <<k, i, b>> \in Leases' <=> <<k, i, b>> \in Leases
    <3>1. <<k, i, b>> \in Leases' <=> \E g \in Handles : network'[g] = k /\ allocations'[g][i] = b
      BY DEF Leases, Holders
    <3>2. <<k, i, b>> \in Leases <=> \E g \in Handles : network[g] = k /\ allocations[g][i] = b
      BY InLeases
    <3> QED
      BY <3>1, <3>2, <1>1, <1>2, <1>3, NetworksAssumption
  <2> QED
    BY <2>1, <2>2, SamePool, LeasesAreTriples
<1> QED
  BY <1>4, <1>5 DEF Promised!Open, Open, Leases

(* A manager that takes a network keeps it open and leased as it was.      *)
LEMMA RefinesNewManager ==
  ASSUME NEW h \in Handles, NEW m \in Handles, IInv, NewManager(h, m)
  PROVE  UNCHANGED Promised!vars
<1>1. h # m /\ network[h] # None /\ network[m] = None
  BY DEF IInv, KindInv, NewManager
<1>2. \A g \in Handles : network'[g] = IF g = m THEN network[h] ELSE IF g = h THEN None ELSE network[g]
  BY <1>1 DEF IInv, TypeOK, NewManager
<1>3. \A g \in Handles : g # h => allocations'[g] = IF g = m THEN allocations[h] ELSE allocations[g]
  BY <1>1 DEF IInv, TypeOK, NewManager
<1>4. Open' = Open
  <2>1. \A k \in Networks : k \in Open <=> \E g \in Handles : network[g] = k
    BY DEF Open, Holders
  <2>2. \A k \in Networks : k \in Open' <=> \E g \in Handles : network'[g] = k
    BY DEF Open, Holders
  <2>3. Open \subseteq Networks /\ Open' \subseteq Networks
    BY DEF Open
  <2> QED
    BY <2>1, <2>2, <2>3, <1>1, <1>2, NetworksAssumption
<1>5. Leases' = Leases
  <2>1. Leases' \subseteq Networks \X Ids \X Addresses
    BY DEF Leases
  <2>2. ASSUME NEW k \in Networks, NEW i \in Ids, NEW b \in Addresses
        PROVE  <<k, i, b>> \in Leases' <=> <<k, i, b>> \in Leases
    <3>1. <<k, i, b>> \in Leases' <=> \E g \in Handles : network'[g] = k /\ allocations'[g][i] = b
      BY DEF Leases, Holders
    <3>2. <<k, i, b>> \in Leases <=> \E g \in Handles : network[g] = k /\ allocations[g][i] = b
      BY InLeases
    <3> QED
      BY <3>1, <3>2, <1>1, <1>2, <1>3, NetworksAssumption
  <2> QED
    BY <2>1, <2>2, SamePool, LeasesAreTriples
<1> QED
  BY <1>4, <1>5 DEF Promised!vars, Open, Leases

(* A handle that goes away closes its network, if it holds one, with all   *)
(* that is leased of it.                                                   *)
LEMMA RefinesGone ==
  ASSUME NEW h \in Handles, IInv,
         network' = [network EXCEPT ![h] = None],
         allocations' = [allocations EXCEPT ![h] = Nothing]
  PROVE  (\E n \in Networks : Promised!Close(n)) \/ UNCHANGED Promised!vars
<1>1. \A g \in Handles : network'[g] = IF g = h THEN None ELSE network[g]
  BY DEF IInv, TypeOK
<1>2. \A g \in Handles : g # h => allocations'[g] = allocations[g]
  BY DEF IInv, TypeOK
<1>3. \A k \in Networks : k \in Open <=> \E g \in Handles : network[g] = k
  BY DEF Open, Holders
<1>4. \A k \in Networks : k \in Open' <=> \E g \in Handles : network'[g] = k
  BY DEF Open, Holders
<1>5. Open \subseteq Networks /\ Open' \subseteq Networks /\ Leases' \subseteq Networks \X Ids \X Addresses
  BY DEF Open, Leases
<1>6. \A k \in Networks, i \in Ids, b \in Addresses :
        <<k, i, b>> \in Leases <=> \E g \in Handles : network[g] = k /\ allocations[g][i] = b
  BY InLeases
<1>7. \A k \in Networks, i \in Ids, b \in Addresses :
        <<k, i, b>> \in Leases' <=> \E g \in Handles : network'[g] = k /\ allocations'[g][i] = b
  BY DEF Leases, Holders
<1>8. CASE network[h] = None
  <2>0. \A g \in Handles, k \in Networks : (network'[g] = k <=> network[g] = k) /\ (network[g] = k => g # h)
    BY <1>8, <1>1, NetworksAssumption
  <2>1. Open' = Open
    BY <2>0, <1>3, <1>4, <1>5
  <2>2. ASSUME NEW k \in Networks, NEW i \in Ids, NEW b \in Addresses
        PROVE  <<k, i, b>> \in Leases' <=> <<k, i, b>> \in Leases
    <3>1. \A g \in Handles : network'[g] = k /\ allocations'[g][i] = b <=> network[g] = k /\ allocations[g][i] = b
      BY <2>0, <1>2
    <3>2. <<k, i, b>> \in Leases <=> \E g \in Handles : network[g] = k /\ allocations[g][i] = b
      BY <1>6
    <3>3. <<k, i, b>> \in Leases' <=> \E g \in Handles : network'[g] = k /\ allocations'[g][i] = b
      BY <1>7
    <3> QED
      BY <3>1, <3>2, <3>3
  <2>3. Leases' = Leases
    BY <2>2, <1>5, SamePool, LeasesAreTriples
  <2> QED
    BY <2>1, <2>3 DEF Promised!vars, Open, Leases
<1>9. CASE network[h] # None
  <2>1. network[h] \in Networks /\ \A g \in Handles : network[g] = network[h] => g = h
    BY <1>9 DEF IInv, TypeOK, OneHolder
  <2>2. network[h] \in Open /\ Open' = Open \ {network[h]}
    BY <2>1, <1>1, <1>3, <1>4, <1>5, NetworksAssumption
  <2>3. ASSUME NEW k \in Networks, NEW i \in Ids, NEW b \in Addresses
        PROVE  <<k, i, b>> \in Leases' <=> <<k, i, b>> \in Leases \ ({network[h]} \X Ids \X Addresses)
    <3>1. <<k, i, b>> \in {network[h]} \X Ids \X Addresses <=> k = network[h]
      OBVIOUS
    <3> QED
      BY <3>1, <2>1, <1>1, <1>2, <1>6, <1>7, NetworksAssumption
  <2>4. Leases' = Leases \ ({network[h]} \X Ids \X Addresses)
    <3>1. Leases \ ({network[h]} \X Ids \X Addresses) \subseteq Networks \X Ids \X Addresses
      BY LeasesAreTriples
    <3> QED
      BY <3>1, <2>3, <1>5, SamePool
  <2>5. PICK n \in Networks : n = network[h]
    BY <2>1
  <2>6. Promised!Close(n)
    BY <2>2, <2>4, <2>5 DEF Promised!Close, Open, Leases
  <2> QED
    BY <2>6
<1> QED
  BY <1>8, <1>9

LEMMA RefinesNext == IInv /\ [Next]_vars => [Promised!Next]_(Promised!vars)
<1> SUFFICES ASSUME IInv, [Next]_vars
             PROVE  Promised!Next \/ UNCHANGED Promised!vars
  OBVIOUS
<1> USE DEF Promised!Next
<1>1. ASSUME NEW h \in Handles, NEW n \in Networks, New(h, n)
      PROVE  Promised!Next
  BY <1>1, RefinesNew
<1>2. ASSUME NEW h \in Handles, NEW id \in Ids, CreateInterface(h, id)
      PROVE  Promised!Next
  <2>1. network[h] # None /\ network[h] \in Networks
    BY <1>2 DEF CreateInterface, IInv, KindInv, TypeOK
  <2> QED
    BY <1>2, <2>1, RefinesAllocate DEF CreateInterface
<1>3. ASSUME NEW h \in Handles, NEW id \in Ids, ReleaseInterface(h, id)
      PROVE  Promised!Next
  <2>1. network[h] # None /\ network[h] \in Networks
    BY <1>3 DEF ReleaseInterface, IInv, KindInv, TypeOK
  <2> QED
    BY <1>3, <2>1, RefinesDeallocate DEF ReleaseInterface
<1>4. ASSUME NEW h \in Handles, NEW m \in Handles, NewManager(h, m)
      PROVE  UNCHANGED Promised!vars
  BY <1>4, RefinesNewManager
<1>5. ASSUME NEW h \in Handles, NewManagerThrows(h) \/ Drop(h)
      PROVE  Promised!Next \/ UNCHANGED Promised!vars
  <2>1. network' = [network EXCEPT ![h] = None] /\ allocations' = [allocations EXCEPT ![h] = Nothing]
    BY <1>5 DEF NewManagerThrows, Drop
  <2> QED
    BY <2>1, RefinesGone
<1>6. ASSUME NEW h \in Handles, NEW id \in Ids, BeginCreate(h, id)
      PROVE  UNCHANGED Promised!vars
  BY <1>6, RefinesNothing DEF BeginCreate
<1>7. ASSUME NEW m \in Handles, SeedInterface(m)
      PROVE  Promised!Next
  <2>1. creating[m] \in Ids /\ network[m] # None /\ network[m] \in Networks
    BY <1>7 DEF SeedInterface, IInv, TypeOK
  <2> QED
    BY <1>7, <2>1, RefinesAllocate DEF SeedInterface
<1>8. ASSUME NEW m \in Handles, NEW id \in Ids, ReleaseNetwork(m, id)
      PROVE  Promised!Next
  <2>1. network[m] # None /\ network[m] \in Networks
    BY <1>8 DEF ReleaseNetwork, IInv, TypeOK
  <2> QED
    BY <1>8, <2>1, RefinesDeallocate DEF ReleaseNetwork
<1>9. CASE UNCHANGED vars
  BY <1>9, RefinesNothing DEF vars
<1>10. ASSUME NEW m \in Handles, NewManagerAlone(m) \/ EndCreate(m)
       PROVE  UNCHANGED Promised!vars
  BY <1>10, RefinesNothing DEF NewManagerAlone, EndCreate
<1> QED
  BY <1>1, <1>2, <1>3, <1>4, <1>5, <1>6, <1>7, <1>8, <1>9, <1>10 DEF Next

-----------------------------------------------------------------------------
(* Every variable of the model keeps its type.                             *)
THEOREM TypeCorrect == Spec => []TypeOK
BY AlwaysIInv, IInvImplies, PTL

(* No address of a network is in use twice, for any number of handles.     *)
THEOREM NeverSharedAddress == Spec => []NoSharedAddress
BY AlwaysIInv, IInvImplies, PTL

(* Every address that is out can be released by somebody.                  *)
THEOREM NothingEverStranded == Spec => []NothingStranded
BY AlwaysIInv, IInvImplies, PTL

(* Whoever owns a network's handle, its addresses are one pool: every      *)
(* constructor, create and release of a network or a manager implements    *)
(* AddressPools.                                                           *)
THEOREM Refinement == Spec => ImplementsAddressPools
BY AlwaysIInv, RefinesInit, RefinesNext, PTL DEF Spec, ImplementsAddressPools, Promised!Spec

=============================================================================
