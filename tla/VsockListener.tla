--------------------------- MODULE VsockListener ----------------------------
(***************************************************************************)
(* `next` and `finish` on one listener shared by Rust threads              *)
(* (src/containerization/vm/vsock_listener.rs over CzVsockListener in      *)
(* swift/Sources/ContainerizationBridge/VirtualMachine.swift).             *)
(*                                                                         *)
(* A `next` holds the lock `advancing` while `blocking` runs the stream's  *)
(* own `next`, which at most one task may await: Swift stops the program   *)
(* when two do.  `finish` does not take the lock.                          *)
(***************************************************************************)
EXTENDS Naturals, Sequences

CONSTANTS
  Threads,         \* Rust threads that share the listener
  MaxConnections,  \* bound: connections the guest makes
  None

ASSUME VsockListenerAssumption ==
  MaxConnections \in Nat /\ None \notin Threads

VARIABLES
  buffer,    \* the AsyncStream: connections not taken yet, oldest first
  made,      \* how many connections the guest has made; they are numbered
  over,      \* the stream has been finished
  advancing, \* who holds the lock
  pc,        \* where each thread is
  got,       \* what the stream gave each thread: a connection, or 0 at the end
  owned      \* the connections each thread was handed

vars == <<buffer, made, over, advancing, pc, got, owned>>

Connection == 1..MaxConnections

TypeOK ==
  /\ buffer \in Seq(Connection)
  /\ made \in 0..MaxConnections
  /\ over \in BOOLEAN
  /\ advancing \in Threads \cup {None}
  /\ pc \in [Threads -> {"idle", "locking", "locked", "awaiting", "resumed", "finishing"}]
  /\ got \in [Threads -> 0..MaxConnections]
  /\ owned \in [Threads -> SUBSET Connection]

Init ==
  /\ buffer = <<>> /\ made = 0 /\ over = FALSE
  /\ advancing = None
  /\ pc = [t \in Threads |-> "idle"]
  /\ got = [t \in Threads |-> 0]
  /\ owned = [t \in Threads |-> {}]

(* The guest connects, and the listener yields the connection.  A stream   *)
(* that has been finished takes no more.                                   *)
Connect ==
  /\ ~over /\ made < MaxConnections
  /\ made' = made + 1
  /\ buffer' = Append(buffer, made + 1)
  /\ UNCHANGED <<over, advancing, pc, got, owned>>

(* A thread calls `next`, and takes the lock.                              *)
Call(t) ==
  /\ pc[t] = "idle"
  /\ pc' = [pc EXCEPT ![t] = "locking"]
  /\ UNCHANGED <<buffer, made, over, advancing, got, owned>>

(* Mutant: `next` does not lock.                                           *)
LockNothing(t) ==
  /\ pc[t] = "locking"
  /\ pc' = [pc EXCEPT ![t] = "locked"]
  /\ UNCHANGED <<buffer, made, over, advancing, got, owned>>

Lock(t) ==
  /\ pc[t] = "locking" /\ advancing = None
  /\ advancing' = t
  /\ pc' = [pc EXCEPT ![t] = "locked"]
  /\ UNCHANGED <<buffer, made, over, got, owned>>

(* The task that `blocking` detached copies the iterator and awaits it.    *)
Await(t) ==
  /\ pc[t] = "locked"
  /\ pc' = [pc EXCEPT ![t] = "awaiting"]
  /\ UNCHANGED <<buffer, made, over, advancing, got, owned>>

(* The stream gives the oldest connection,                                 *)
Take(t) ==
  /\ pc[t] = "awaiting" /\ buffer # <<>>
  /\ got' = [got EXCEPT ![t] = Head(buffer)]
  /\ buffer' = Tail(buffer)
  /\ pc' = [pc EXCEPT ![t] = "resumed"]
  /\ UNCHANGED <<made, over, advancing, owned>>

(* Mutant: a finished stream ends at once, whatever is in its buffer.      *)
EndEarly(t) ==
  /\ pc[t] = "awaiting" /\ over
  /\ got' = [got EXCEPT ![t] = 0]
  /\ pc' = [pc EXCEPT ![t] = "resumed"]
  /\ UNCHANGED <<buffer, made, over, advancing, owned>>

(* or, when it is finished and nothing is left, its end.                   *)
End(t) ==
  /\ pc[t] = "awaiting" /\ buffer = <<>> /\ over
  /\ got' = [got EXCEPT ![t] = 0]
  /\ pc' = [pc EXCEPT ![t] = "resumed"]
  /\ UNCHANGED <<buffer, made, over, advancing, owned>>

(* Mutant: a connection that comes back after `finish` is left out.        *)
ReturnUnlessOver(t) ==
  /\ pc[t] = "resumed"
  /\ advancing' = None
  /\ owned' = IF over THEN owned ELSE [owned EXCEPT ![t] = @ \cup ({got[t]} \ {0})]
  /\ got' = [got EXCEPT ![t] = 0]
  /\ pc' = [pc EXCEPT ![t] = "idle"]
  /\ UNCHANGED <<buffer, made, over>>

(* The iterator is written back, the lock given back, and the thread gets  *)
(* the connection's descriptor, or `Absent`.                               *)
Return(t) ==
  /\ pc[t] = "resumed"
  /\ advancing' = None
  /\ owned' = [owned EXCEPT ![t] = @ \cup ({got[t]} \ {0})]
  /\ got' = [got EXCEPT ![t] = 0]
  /\ pc' = [pc EXCEPT ![t] = "idle"]
  /\ UNCHANGED <<buffer, made, over>>

(* A thread calls `finish`.                                                *)
CallFinish(t) ==
  /\ pc[t] = "idle"
  /\ pc' = [pc EXCEPT ![t] = "finishing"]
  /\ UNCHANGED <<buffer, made, over, advancing, got, owned>>

(* Mutant: `finish` waits for the lock.                                    *)
FinishLocking(t) ==
  /\ pc[t] = "finishing" /\ advancing = None
  /\ over' = TRUE
  /\ pc' = [pc EXCEPT ![t] = "idle"]
  /\ UNCHANGED <<buffer, made, advancing, got, owned>>

(* `finish` ends the stream; again, it does nothing.                       *)
Finish(t) ==
  /\ pc[t] = "finishing"
  /\ over' = TRUE
  /\ pc' = [pc EXCEPT ![t] = "idle"]
  /\ UNCHANGED <<buffer, made, advancing, got, owned>>

Next ==
  \/ Connect
  \/ \E t \in Threads :
       \/ Call(t) \/ Lock(t) \/ Await(t) \/ Take(t) \/ End(t) \/ Return(t)
       \/ CallFinish(t) \/ Finish(t)

Spec == Init /\ [][Next]_vars

(* A thread or a task that can move does, and the lock, which is not fair, *)
(* lets every thread that keeps asking have it in the end.                 *)
Fairness ==
  \A t \in Threads :
    /\ SF_vars(Lock(t))
    /\ WF_vars(Await(t)) /\ WF_vars(Take(t) \/ End(t)) /\ WF_vars(Return(t)) /\ WF_vars(Finish(t))

FairSpec == Spec /\ Fairness

-----------------------------------------------------------------------------
(* Mutual exclusion: the stream is never awaited by two tasks at once, for *)
(* which Swift would stop the program.                                     *)
AwaitedOnce ==
  \A t, u \in Threads : pc[t] = "awaiting" /\ pc[u] = "awaiting" => t = u

(* Each connection has one owner, so its descriptor is closed once, and    *)
(* none is lost on the way from the buffer to a thread.                    *)
Held(t) == owned[t] \cup ({got[t]} \ {0})

EachOwnedOnce ==
  /\ \A t, u \in Threads : t # u => Held(t) \cap Held(u) = {}
  /\ UNION {Held(t) : t \in Threads} = 1..(made - Len(buffer))

(* The listener is the iterator its callers are promised: connections in   *)
(* order, each to one thread, and an end only when it is over.             *)
Promised ==
  INSTANCE Connections WITH
    queue <- buffer,
    calling <- {t \in Threads : pc[t] \in {"locking", "locked", "awaiting"}},
    taken <- [t \in Threads |-> Held(t)]

ImplementsConnections == Promised!Spec

(* Finishing the listener ends every `next` that is waiting on it.         *)
FinishEndsWaiting ==
  \A t, u \in Threads :
    pc[u] = "finishing" /\ pc[t] \in {"locking", "locked", "awaiting"} ~> pc[t] = "idle"

=============================================================================
