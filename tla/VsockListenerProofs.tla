------------------------ MODULE VsockListenerProofs -------------------------
(***************************************************************************)
(* A listener shared by any number of threads is the iterator that         *)
(* Connections describes, however many connections the guest makes.        *)
(***************************************************************************)
EXTENDS VsockListener, TLAPS

(* The lock is held exactly while a thread is inside `next`, and only a    *)
(* thread that the stream has answered has something in its hands.         *)
LockInv ==
  /\ \A t \in Threads : pc[t] \in {"locked", "awaiting", "resumed"} <=> advancing = t
  /\ \A t \in Threads : got[t] # 0 => pc[t] = "resumed"

(* The buffer holds the latest connections in order, and the others have   *)
(* one owner each.                                                         *)
BufferInv ==
  /\ Len(buffer) <= made
  /\ \A i \in 1..Len(buffer) : buffer[i] = made - Len(buffer) + i

OwnerInv ==
  /\ \A t, u \in Threads : t # u => Held(t) \cap Held(u) = {}
  /\ \A c \in Connection : (\E t \in Threads : c \in Held(t)) <=> c <= made - Len(buffer)

IInv == TypeOK /\ LockInv /\ BufferInv /\ OwnerInv

LEMMA InitIInv == Init => IInv
<1> SUFFICES ASSUME Init PROVE IInv
  OBVIOUS
<1> USE VsockListenerAssumption DEF Init, Connection
<1>1. TypeOK
  <2>1. buffer \in Seq(Connection)
    OBVIOUS
  <2>2. made \in 0..MaxConnections /\ got \in [Threads -> 0..MaxConnections] /\ owned \in [Threads -> SUBSET Connection]
    OBVIOUS
  <2>3. over \in BOOLEAN /\ advancing \in Threads \cup {None}
    OBVIOUS
  <2> QED
    BY <2>1, <2>2, <2>3 DEF TypeOK
<1>2. LockInv
  BY DEF LockInv
<1>3. BufferInv
  BY DEF BufferInv
<1>4. OwnerInv
  BY DEF OwnerInv, Held
<1> QED
  BY <1>1, <1>2, <1>3, <1>4 DEF IInv

LEMMA TypeStep == TypeOK /\ [Next]_vars => TypeOK'
<1> SUFFICES ASSUME TypeOK, [Next]_vars PROVE TypeOK'
  OBVIOUS
<1> USE VsockListenerAssumption DEF TypeOK, Connection
<1>1. CASE Connect
  BY <1>1 DEF Connect
<1>2. ASSUME NEW t \in Threads, Call(t) PROVE TypeOK'
  BY <1>2 DEF Call
<1>3. ASSUME NEW t \in Threads, Lock(t) PROVE TypeOK'
  BY <1>3 DEF Lock
<1>4. ASSUME NEW t \in Threads, Await(t) PROVE TypeOK'
  BY <1>4 DEF Await
<1>5. ASSUME NEW t \in Threads, Take(t) PROVE TypeOK'
  BY <1>5 DEF Take
<1>6. ASSUME NEW t \in Threads, End(t) PROVE TypeOK'
  BY <1>6 DEF End
<1>7. ASSUME NEW t \in Threads, Return(t) PROVE TypeOK'
  BY <1>7 DEF Return
<1>8. ASSUME NEW t \in Threads, CallFinish(t) PROVE TypeOK'
  BY <1>8 DEF CallFinish
<1>9. ASSUME NEW t \in Threads, Finish(t) PROVE TypeOK'
  BY <1>9 DEF Finish
<1>10. CASE UNCHANGED vars
  BY <1>10 DEF vars
<1> QED
  BY <1>1, <1>2, <1>3, <1>4, <1>5, <1>6, <1>7, <1>8, <1>9, <1>10 DEF Next

LEMMA LockStep == TypeOK /\ LockInv /\ [Next]_vars => LockInv'
<1> SUFFICES ASSUME TypeOK, LockInv, [Next]_vars PROVE LockInv'
  OBVIOUS
<1> USE VsockListenerAssumption DEF TypeOK, LockInv, Connection
<1>1. CASE Connect
  BY <1>1 DEF Connect
<1>2. ASSUME NEW t \in Threads, Call(t) PROVE LockInv'
  BY <1>2 DEF Call
<1>3. ASSUME NEW t \in Threads, Lock(t) PROVE LockInv'
  BY <1>3 DEF Lock
<1>4. ASSUME NEW t \in Threads, Await(t) PROVE LockInv'
  BY <1>4 DEF Await
<1>5. ASSUME NEW t \in Threads, Take(t) PROVE LockInv'
  BY <1>5 DEF Take
<1>6. ASSUME NEW t \in Threads, End(t) PROVE LockInv'
  BY <1>6 DEF End
<1>7. ASSUME NEW t \in Threads, Return(t) PROVE LockInv'
  BY <1>7 DEF Return
<1>8. ASSUME NEW t \in Threads, CallFinish(t) PROVE LockInv'
  BY <1>8 DEF CallFinish
<1>9. ASSUME NEW t \in Threads, Finish(t) PROVE LockInv'
  BY <1>9 DEF Finish
<1>10. CASE UNCHANGED vars
  BY <1>10 DEF vars
<1> QED
  BY <1>1, <1>2, <1>3, <1>4, <1>5, <1>6, <1>7, <1>8, <1>9, <1>10 DEF Next

LEMMA BufferStep == TypeOK /\ BufferInv /\ [Next]_vars => BufferInv'
<1> SUFFICES ASSUME TypeOK, BufferInv, [Next]_vars PROVE BufferInv'
  OBVIOUS
<1> USE VsockListenerAssumption DEF TypeOK, BufferInv, Connection
<1>1. CASE Connect
  BY <1>1 DEF Connect
<1>2. ASSUME NEW t \in Threads, Call(t) PROVE BufferInv'
  BY <1>2 DEF Call
<1>3. ASSUME NEW t \in Threads, Lock(t) PROVE BufferInv'
  BY <1>3 DEF Lock
<1>4. ASSUME NEW t \in Threads, Await(t) PROVE BufferInv'
  BY <1>4 DEF Await
<1>5. ASSUME NEW t \in Threads, Take(t) PROVE BufferInv'
  BY <1>5 DEF Take
<1>6. ASSUME NEW t \in Threads, End(t) PROVE BufferInv'
  BY <1>6 DEF End
<1>7. ASSUME NEW t \in Threads, Return(t) PROVE BufferInv'
  BY <1>7 DEF Return
<1>8. ASSUME NEW t \in Threads, CallFinish(t) PROVE BufferInv'
  BY <1>8 DEF CallFinish
<1>9. ASSUME NEW t \in Threads, Finish(t) PROVE BufferInv'
  BY <1>9 DEF Finish
<1>10. CASE UNCHANGED vars
  BY <1>10 DEF vars
<1> QED
  BY <1>1, <1>2, <1>3, <1>4, <1>5, <1>6, <1>7, <1>8, <1>9, <1>10 DEF Next

LEMMA OwnerStep == IInv /\ [Next]_vars => OwnerInv'
<1> SUFFICES ASSUME IInv, [Next]_vars PROVE OwnerInv'
  OBVIOUS
<1> USE VsockListenerAssumption DEF IInv, TypeOK, LockInv, BufferInv, OwnerInv, Connection
<1>1. CASE Connect
  <2>1. \A t \in Threads : Held(t)' = Held(t)
    BY <1>1 DEF Connect, Held
  <2>2. (made - Len(buffer))' = made - Len(buffer)
    BY <1>1 DEF Connect
  <2> QED
    BY <2>1, <2>2
<1>2. ASSUME NEW t \in Threads, Call(t) PROVE OwnerInv'
  BY <1>2 DEF Call, Held
<1>3. ASSUME NEW t \in Threads, Lock(t) PROVE OwnerInv'
  BY <1>3 DEF Lock, Held
<1>4. ASSUME NEW t \in Threads, Await(t) PROVE OwnerInv'
  BY <1>4 DEF Await, Held
<1>5. ASSUME NEW t \in Threads, Take(t) PROVE OwnerInv'
  <2> DEFINE k == made - Len(buffer)
  <2>1. Len(buffer) \in Nat /\ Len(buffer) >= 1 /\ Len(buffer) <= made /\ made \in Nat /\ made <= MaxConnections
    BY <1>5 DEF Take
  <2>2. k \in Nat /\ k + 1 \in Connection
    BY <2>1
  <2>3. got[t] = 0 /\ Head(buffer) = k + 1
    BY <1>5 DEF Take
  <2>4. (made - Len(buffer))' = k + 1
    BY <1>5, <2>1 DEF Take
  <2>5. k + 1 # 0
    BY <2>2
  <2>6. \A u \in Threads : Held(u)' = IF u = t THEN Held(u) \cup {k + 1} ELSE Held(u)
    BY <1>5, <2>3, <2>5 DEF Take, Held
  <2>7. \A u \in Threads : k + 1 \notin Held(u)
    <3>1. ~(k + 1 <= k)
      BY <2>2
    <3> QED
      BY <2>2, <3>1
  <2> HIDE DEF k
  <2>8. ASSUME NEW u \in Threads, NEW v \in Threads, u # v PROVE Held(u)' \cap Held(v)' = {}
    <3>1. Held(u) \cap Held(v) = {}
      BY <2>8
    <3>2. CASE u = t
      BY <2>6, <2>7, <2>8, <3>1, <3>2
    <3>3. CASE v = t
      BY <2>6, <2>7, <2>8, <3>1, <3>3
    <3>4. CASE u # t /\ v # t
      BY <2>6, <3>1, <3>4
    <3> QED
      BY <3>2, <3>3, <3>4
  <2>9. ASSUME NEW c \in Connection PROVE (\E u \in Threads : c \in Held(u)') <=> c <= k + 1
    <3>1. (\E u \in Threads : c \in Held(u)') <=> (\E u \in Threads : c \in Held(u)) \/ c = k + 1
      BY <2>6
    <3>2. (\E u \in Threads : c \in Held(u)) <=> c <= k
      BY DEF k
    <3>3. c <= k + 1 <=> c <= k \/ c = k + 1
      BY <2>2
    <3> QED
      BY <3>1, <3>2, <3>3
  <2> QED
    BY <2>4, <2>8, <2>9
<1>6. ASSUME NEW t \in Threads, End(t) PROVE OwnerInv'
  BY <1>6 DEF End, Held
<1>7. ASSUME NEW t \in Threads, Return(t) PROVE OwnerInv'
  BY <1>7 DEF Return, Held
<1>8. ASSUME NEW t \in Threads, CallFinish(t) PROVE OwnerInv'
  BY <1>8 DEF CallFinish, Held
<1>9. ASSUME NEW t \in Threads, Finish(t) PROVE OwnerInv'
  BY <1>9 DEF Finish, Held
<1>10. CASE UNCHANGED vars
  BY <1>10 DEF vars, Held
<1> QED
  BY <1>1, <1>2, <1>3, <1>4, <1>5, <1>6, <1>7, <1>8, <1>9, <1>10 DEF Next

LEMMA SpecIInv == Spec => []IInv
<1>1. IInv /\ [Next]_vars => IInv'
  BY TypeStep, LockStep, BufferStep, OwnerStep DEF IInv
<1> QED
  BY InitIInv, <1>1, PTL DEF Spec

(* Type correctness: nothing but connections is ever handed out.           *)
THEOREM TypeCorrect == Spec => []TypeOK
BY SpecIInv, PTL DEF IInv

(* `advancing` keeps the stream from being awaited by two tasks.           *)
THEOREM AlwaysAwaitedOnce == Spec => []AwaitedOnce
<1>1. IInv => AwaitedOnce
  BY VsockListenerAssumption DEF IInv, LockInv, AwaitedOnce
<1> QED
  BY SpecIInv, <1>1, PTL

(* A connection has one owner, from the moment the stream gives it, and    *)
(* the stream still has all the others.                                    *)
THEOREM AlwaysOwnedOnce == Spec => []EachOwnedOnce
<1>1. IInv => EachOwnedOnce
  <2> SUFFICES ASSUME IInv PROVE EachOwnedOnce
    OBVIOUS
  <2>1. \A t \in Threads : Held(t) \subseteq Connection
    BY DEF IInv, TypeOK, Held, Connection
  <2>2. Len(buffer) \in Nat /\ made \in Nat /\ Len(buffer) <= made /\ made <= MaxConnections
    BY VsockListenerAssumption DEF IInv, TypeOK, BufferInv
  <2>3. \A c : c \in 1..(made - Len(buffer)) <=> c \in Connection /\ c <= made - Len(buffer)
    BY <2>2, VsockListenerAssumption DEF Connection
  <2>4. \A c : c \in UNION {Held(t) : t \in Threads} <=> \E t \in Threads : c \in Held(t)
    OBVIOUS
  <2>5. \A c : c \in UNION {Held(t) : t \in Threads} <=> c \in 1..(made - Len(buffer))
    BY <2>1, <2>3, <2>4 DEF IInv, OwnerInv
  <2> QED
    BY <2>5 DEF IInv, OwnerInv, EachOwnedOnce
<1> QED
  BY SpecIInv, <1>1, PTL

-----------------------------------------------------------------------------
(* The refinement: a listener's `next` takes its connection when the task  *)
(* does, and everything around it leaves the promised iterator as it is.   *)
LEMMA RefinesInit == Init => Promised!Init
<1> SUFFICES ASSUME Init PROVE Promised!Init
  OBVIOUS
<1>1. {t \in Threads : pc[t] \in {"locking", "locked", "awaiting"}} = {}
  BY DEF Init
<1>2. [t \in Threads |-> Held(t)] = [t \in Threads |-> {}]
  BY DEF Init, Held
<1> QED
  BY <1>1, <1>2 DEF Init, Promised!Init

LEMMA RefinesNext == TypeOK /\ LockInv /\ [Next]_vars => [Promised!Next]_Promised!vars
<1> SUFFICES ASSUME TypeOK, LockInv, [Next]_vars PROVE [Promised!Next]_Promised!vars
  OBVIOUS
<1> DEFINE calling == {t \in Threads : pc[t] \in {"locking", "locked", "awaiting"}}
           taken == [t \in Threads |-> Held(t)]
<1> USE DEF TypeOK
<1>1. CASE Connect
  BY <1>1 DEF Connect, Held, Promised!Next, Promised!Connect
<1>2. ASSUME NEW t \in Threads, Call(t) PROVE Promised!Call(t)
  <2>1. calling' = calling \cup {t} /\ t \notin calling
    BY <1>2 DEF Call
  <2>2. taken' = taken
    BY <1>2 DEF Call, Held
  <2> QED
    BY <1>2, <2>1, <2>2 DEF Call, Promised!Call
<1>3. ASSUME NEW t \in Threads, Lock(t) \/ Await(t) \/ CallFinish(t) PROVE UNCHANGED Promised!vars
  BY <1>3 DEF Lock, Await, CallFinish, Held, Promised!vars
<1>4. ASSUME NEW t \in Threads, Take(t) PROVE Promised!Take(t)
  <2>1. calling' = calling \ {t} /\ t \in calling
    BY <1>4 DEF Take
  <2>2. got[t] = 0
    BY <1>4 DEF Take, LockInv
  <2>3. Head(buffer) # 0
    <3>1. Head(buffer) \in Connection
      BY <1>4 DEF Take
    <3> QED
      BY <3>1, VsockListenerAssumption DEF Connection
  <2>4. taken' = [taken EXCEPT ![t] = @ \cup {Head(buffer)}]
    BY <1>4, <2>2, <2>3 DEF Take, Held
  <2> QED
    BY <1>4, <2>1, <2>4 DEF Take, Promised!Take
<1>5. ASSUME NEW t \in Threads, End(t) PROVE Promised!End(t)
  <2>1. calling' = calling \ {t} /\ t \in calling
    BY <1>5 DEF End
  <2>2. got[t] = 0
    BY <1>5 DEF End, LockInv
  <2>3. taken' = taken
    BY <1>5, <2>2 DEF End, Held
  <2> QED
    BY <1>5, <2>1, <2>3 DEF End, Promised!End
<1>6. ASSUME NEW t \in Threads, Return(t) PROVE UNCHANGED Promised!vars
  <2>1. calling' = calling
    BY <1>6 DEF Return
  <2>2. \A u \in Threads : Held(u)' = Held(u)
    BY <1>6 DEF Return, Held
  <2>3. taken' = taken
    BY <2>2
  <2> QED
    BY <1>6, <2>1, <2>3 DEF Return, Promised!vars
<1>7. ASSUME NEW t \in Threads, Finish(t) PROVE Promised!Finish
  BY <1>7 DEF Finish, Held, Promised!Finish
<1>8. CASE UNCHANGED vars
  BY <1>8 DEF vars, Held, Promised!vars
<1> QED
  BY <1>1, <1>2, <1>3, <1>4, <1>5, <1>6, <1>7, <1>8 DEF Next, Promised!Next

(* The listener implements the iterator that Connections describes.        *)
THEOREM Refinement == Spec => ImplementsConnections
<1>1. IInv => TypeOK /\ LockInv
  BY DEF IInv
<1> QED
  BY SpecIInv, RefinesInit, RefinesNext, <1>1, PTL DEF Spec, ImplementsConnections, Promised!Spec
=============================================================================
