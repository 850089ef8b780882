-------------------------- MODULE SynchronousCalls --------------------------
(***************************************************************************)
(* What `blocking` promises whoever calls it                               *)
(* (swift/Sources/ContainerizationBridge/Blocking.swift): a call that      *)
(* looks synchronous.  Its maker does nothing else until it returns, calls *)
(* made from a call's closures return before the call's body ends, and a   *)
(* call returns once, with what its body ended with.                       *)
(***************************************************************************)

CONSTANTS
  Threads,    \* the program's own Rust threads
  Calls,      \* identities of calls, reused once they returned
  Nobody      \* the maker of a call that was never made

VARIABLES
  underWay,   \* the calls that were made and have not returned
  maker,      \* who made each of them: a thread, or the closure of a call
  outcome,    \* what each call's body ended with, if it has
  returned    \* how each call came back to its maker

vars == <<underWay, maker, outcome, returned>>

Init ==
  /\ underWay = {}
  /\ maker = [c \in Calls |-> Nobody]
  /\ outcome = [c \in Calls |-> "nil"]
  /\ returned = [c \in Calls |-> "no"]

(* Nobody who made a call, or whose closure did, goes on before it is over. *)
Free(m) == \A d \in underWay : maker[d] # m

(* A thread calls, or a closure of a call whose body has not ended.        *)
Call(m, c) ==
  /\ c \notin underWay /\ Free(m)
  /\ m \in Threads \/ (m \in underWay /\ outcome[m] = "nil")
  /\ underWay' = underWay \cup {c}
  /\ maker' = [maker EXCEPT ![c] = m]
  /\ outcome' = [outcome EXCEPT ![c] = "nil"]
  /\ returned' = [returned EXCEPT ![c] = "no"]

End(c) ==
  /\ c \in underWay /\ outcome[c] = "nil" /\ Free(c)
  /\ \E result \in {"success", "failure"} : outcome' = [outcome EXCEPT ![c] = result]
  /\ UNCHANGED <<underWay, maker, returned>>

Return(c) ==
  /\ c \in underWay /\ outcome[c] # "nil"
  /\ underWay' = underWay \ {c}
  /\ maker' = [maker EXCEPT ![c] = Nobody]
  /\ returned' = [returned EXCEPT ![c] = outcome[c]]
  /\ UNCHANGED outcome

Next ==
  \/ \E m \in Threads \cup Calls, c \in Calls : Call(m, c)
  \/ \E c \in Calls : End(c) \/ Return(c)

Spec == Init /\ [][Next]_vars

=============================================================================
