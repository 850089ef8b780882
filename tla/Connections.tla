---------------------------- MODULE Connections -----------------------------
(***************************************************************************)
(* What a VsockListener promises its callers                               *)
(* (src/containerization/vm/vsock_listener.rs): an iterator that any       *)
(* thread may advance, each connection going to one of them in the order   *)
(* they came, which ends only once it is finished and nothing is left.     *)
(***************************************************************************)
EXTENDS Naturals, Sequences

CONSTANTS
  Threads,        \* threads that share the listener
  MaxConnections  \* bound: connections the guest makes

VARIABLES
  queue,    \* connections that came and that nobody has taken, oldest first
  made,     \* how many connections the guest has made; they are numbered
  over,     \* the listener has been finished
  calling,  \* the threads in `next` that have no answer yet
  taken     \* the connections each thread was given

vars == <<queue, made, over, calling, taken>>

Init ==
  /\ queue = <<>> /\ made = 0 /\ over = FALSE
  /\ calling = {} /\ taken = [t \in Threads |-> {}]

Connect ==
  /\ ~over /\ made < MaxConnections
  /\ made' = made + 1
  /\ queue' = Append(queue, made + 1)
  /\ UNCHANGED <<over, calling, taken>>

Call(t) ==
  /\ t \notin calling
  /\ calling' = calling \cup {t}
  /\ UNCHANGED <<queue, made, over, taken>>

Take(t) ==
  /\ t \in calling /\ queue # <<>>
  /\ queue' = Tail(queue)
  /\ taken' = [taken EXCEPT ![t] = @ \cup {Head(queue)}]
  /\ calling' = calling \ {t}
  /\ UNCHANGED <<made, over>>

End(t) ==
  /\ t \in calling /\ queue = <<>> /\ over
  /\ calling' = calling \ {t}
  /\ UNCHANGED <<queue, made, over, taken>>

Finish ==
  /\ over' = TRUE
  /\ UNCHANGED <<queue, made, calling, taken>>

Next ==
  \/ Connect \/ Finish
  \/ \E t \in Threads : Call(t) \/ Take(t) \/ End(t)

Spec == Init /\ [][Next]_vars

=============================================================================
