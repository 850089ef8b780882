------------------------------ MODULE Blocking ------------------------------
(***************************************************************************)
(* How a synchronous Rust call crosses into async Swift                    *)
(* (swift/Sources/ContainerizationBridge/Blocking.swift).                  *)
(*                                                                         *)
(* `blocking` detaches a task that runs an async body on Swift's           *)
(* cooperative pool, whose threads are few, and parks the calling thread   *)
(* on a semaphore.  The body may await Swift, may await a Rust closure     *)
(* that `offPool` runs on Dispatch, and may call a synchronous Rust        *)
(* configuration closure in place, on its pool thread.  A Rust closure is  *)
(* synchronous, so one that calls back into the bridge parks its own       *)
(* thread in another `blocking`.                                           *)
(***************************************************************************)
EXTENDS Naturals, FiniteSets

CONSTANTS
  Threads,    \* the program's own Rust threads
  Calls,      \* identities of `blocking` calls, reused once they returned
  PoolWidth,  \* how many threads the cooperative pool has
  MaxSteps,   \* bound: awaits, closures and nested calls of one body
  Nobody      \* the maker of a call that was never made

ASSUME BlockingAssumption ==
  /\ PoolWidth \in Nat \ {0}
  /\ MaxSteps \in Nat
  /\ Threads \cap Calls = {}
  /\ Nobody \notin Threads \cup Calls

VARIABLES
  obey,     \* whether configuration closures make no calls, as their docs ask
  task,     \* where each call's detached task is
  closure,  \* which kind of Rust closure each body is in, if any
  maker,    \* who made each call: a Rust thread, or the closure of a call
  body,     \* who holds each body: `pending`, the task's local, or nobody
  outcome,  \* each call's `outcome`
  semaphore,\* each call's semaphore
  returned, \* how each call came back to its maker
  steps     \* how much of MaxSteps each body has used

vars == <<obey, task, closure, maker, body, outcome, semaphore, returned, steps>>

(* A task that is running, in a configuration closure or about to signal   *)
(* holds a pool thread; one that awaits holds none.                        *)
OnPool == {"running", "configuring", "finished"}

TypeOK ==
  /\ obey \in BOOLEAN
  /\ task \in [Calls -> OnPool \cup {"none", "ready", "awaiting", "dispatched", "offPool", "done"}]
  /\ closure \in [Calls -> {"none", "awaited", "configuration"}]
  /\ maker \in [Calls -> Threads \cup Calls \cup {Nobody}]
  /\ body \in [Calls -> {"none", "pending", "local"}]
  /\ outcome \in [Calls -> {"nil", "success", "failure"}]
  /\ semaphore \in [Calls -> {0, 1}]
  /\ returned \in [Calls -> {"no", "success", "failure", "noOutcome"}]
  /\ steps \in [Calls -> 0..MaxSteps]

(* A call in progress: its maker is parked in `semaphore.wait`.            *)
Waiting(c) == task[c] # "none" /\ returned[c] = "no"

Init ==
  /\ obey \in BOOLEAN
  /\ task = [c \in Calls |-> "none"]
  /\ closure = [c \in Calls |-> "none"]
  /\ maker = [c \in Calls |-> Nobody]
  /\ body = [c \in Calls |-> "none"]
  /\ outcome = [c \in Calls |-> "nil"]
  /\ semaphore = [c \in Calls |-> 0]
  /\ returned = [c \in Calls |-> "no"]
  /\ steps = [c \in Calls |-> 0]

(* Who may call: a Rust thread, and a closure Swift awaits, each when it   *)
(* is not parked already; a configuration closure only against its docs.   *)
MayCall(m) ==
  /\ \A d \in Calls : ~(Waiting(d) /\ maker[d] = m)
  /\ \/ m \in Threads
     \/ m \in Calls /\ steps[m] < MaxSteps /\
          \/ closure[m] = "awaited" /\ task[m] # "dispatched"
          \/ closure[m] = "configuration" /\ ~obey

(* `blocking` up to `semaphore.wait()`: a fresh semaphore and outcome, the *)
(* body in `pending`, and a detached task ready for the pool.              *)
Call(m, c) ==
  /\ MayCall(m)
  /\ ~Waiting(c)
  /\ task' = [task EXCEPT ![c] = "ready"]
  /\ maker' = [maker EXCEPT ![c] = m]
  /\ body' = [body EXCEPT ![c] = "pending"]
  /\ outcome' = [outcome EXCEPT ![c] = "nil"]
  /\ semaphore' = [semaphore EXCEPT ![c] = 0]
  /\ returned' = [returned EXCEPT ![c] = "no"]
  /\ steps' = [d \in Calls |-> IF d = c THEN 0 ELSE IF d = m THEN steps[d] + 1 ELSE steps[d]]
  /\ UNCHANGED <<obey, closure>>

(* A free pool thread picks up a ready task.  The first time, the task     *)
(* takes the body out of `pending`; without one it goes on to signal.      *)
Run(c) ==
  /\ task[c] = "ready"
  /\ Cardinality({d \in Calls : task[d] \in OnPool}) < PoolWidth
  /\ task' = [task EXCEPT ![c] = IF body[c] = "none" THEN "finished" ELSE "running"]
  /\ body' = [body EXCEPT ![c] = IF @ = "pending" THEN "local" ELSE @]
  /\ UNCHANGED <<obey, closure, maker, outcome, semaphore, returned, steps>>

(* The body awaits something of Swift's own, and leaves its thread.        *)
Await(c) ==
  /\ task[c] = "running" /\ steps[c] < MaxSteps
  /\ task' = [task EXCEPT ![c] = "awaiting"]
  /\ steps' = [steps EXCEPT ![c] = @ + 1]
  /\ UNCHANGED <<obey, closure, maker, body, outcome, semaphore, returned>>

Resume(c) ==
  /\ task[c] = "awaiting"
  /\ task' = [task EXCEPT ![c] = "ready"]
  /\ UNCHANGED <<obey, closure, maker, body, outcome, semaphore, returned, steps>>

(* Mutant: the closure Swift awaits runs in place, on the pool.            *)
OffPoolInPlace(c) ==
  /\ task[c] = "running" /\ steps[c] < MaxSteps
  /\ task' = [task EXCEPT ![c] = "configuring"]
  /\ closure' = [closure EXCEPT ![c] = "awaited"]
  /\ steps' = [steps EXCEPT ![c] = @ + 1]
  /\ UNCHANGED <<obey, maker, body, outcome, semaphore, returned>>

(* `offPool`: the body leaves its thread and the closure is queued on      *)
(* `rustClosures`, a concurrent queue that adds a thread when one blocks.  *)
OffPool(c) ==
  /\ task[c] = "running" /\ steps[c] < MaxSteps
  /\ task' = [task EXCEPT ![c] = "dispatched"]
  /\ closure' = [closure EXCEPT ![c] = "awaited"]
  /\ steps' = [steps EXCEPT ![c] = @ + 1]
  /\ UNCHANGED <<obey, maker, body, outcome, semaphore, returned>>

(* Dispatch gives the closure a thread of its own.                         *)
RunClosure(c) ==
  /\ task[c] = "dispatched"
  /\ task' = [task EXCEPT ![c] = "offPool"]
  /\ UNCHANGED <<obey, closure, maker, body, outcome, semaphore, returned, steps>>

(* Mutant: the continuation resumes before the closure has returned.       *)
ResumeContinuationEarly(c) ==
  /\ closure[c] = "awaited" /\ task[c] # "dispatched"
  /\ closure' = [closure EXCEPT ![c] = "none"]
  /\ task' = [task EXCEPT ![c] = "ready"]
  /\ UNCHANGED <<obey, maker, body, outcome, semaphore, returned, steps>>

(* The closure returns and resumes the continuation: the task is ready.    *)
ResumeContinuation(c) ==
  /\ closure[c] = "awaited" /\ task[c] # "dispatched"
  /\ \A d \in Calls : ~(Waiting(d) /\ maker[d] = c)
  /\ closure' = [closure EXCEPT ![c] = "none"]
  /\ task' = [task EXCEPT ![c] = "ready"]
  /\ UNCHANGED <<obey, maker, body, outcome, semaphore, returned, steps>>

(* Swift calls a configuration closure in place, and it returns.           *)
Configure(c) ==
  /\ task[c] = "running" /\ steps[c] < MaxSteps
  /\ task' = [task EXCEPT ![c] = "configuring"]
  /\ closure' = [closure EXCEPT ![c] = "configuration"]
  /\ steps' = [steps EXCEPT ![c] = @ + 1]
  /\ UNCHANGED <<obey, maker, body, outcome, semaphore, returned>>

Configured(c) ==
  /\ closure[c] = "configuration"
  /\ \A d \in Calls : ~(Waiting(d) /\ maker[d] = c)
  /\ task' = [task EXCEPT ![c] = "running"]
  /\ closure' = [closure EXCEPT ![c] = "none"]
  /\ UNCHANGED <<obey, maker, body, outcome, semaphore, returned, steps>>

(* Mutant: the task calls `pending` in place, and never lets go of it.     *)
FinishKeepingBody(c) ==
  /\ task[c] = "running"
  /\ \E result \in {"success", "failure"} : outcome' = [outcome EXCEPT ![c] = result]
  /\ task' = [task EXCEPT ![c] = "finished"]
  /\ UNCHANGED <<obey, body, closure, maker, semaphore, returned, steps>>

(* Mutant: what the body throws is not kept.                               *)
FinishDroppingFailure(c) ==
  /\ task[c] = "running"
  /\ \E result \in {"success", "nil"} : outcome' = [outcome EXCEPT ![c] = result]
  /\ task' = [task EXCEPT ![c] = "finished"]
  /\ body' = [body EXCEPT ![c] = "none"]
  /\ UNCHANGED <<obey, closure, maker, semaphore, returned, steps>>

(* The body ends, its outcome is kept, and the task lets go of it.         *)
Finish(c) ==
  /\ task[c] = "running"
  /\ \E result \in {"success", "failure"} : outcome' = [outcome EXCEPT ![c] = result]
  /\ task' = [task EXCEPT ![c] = "finished"]
  /\ body' = [body EXCEPT ![c] = "none"]
  /\ UNCHANGED <<obey, closure, maker, semaphore, returned, steps>>

(* Mutant: the task signals only when the body did not throw.              *)
SignalSuccess(c) ==
  /\ task[c] = "finished"
  /\ semaphore' = [semaphore EXCEPT ![c] = IF outcome[c] = "success" THEN 1 ELSE 0]
  /\ task' = [task EXCEPT ![c] = "done"]
  /\ UNCHANGED <<obey, closure, maker, body, outcome, returned, steps>>

(* The task signals, and gives its pool thread back.                       *)
Signal(c) ==
  /\ task[c] = "finished"
  /\ semaphore' = [semaphore EXCEPT ![c] = 1]
  /\ task' = [task EXCEPT ![c] = "done"]
  /\ UNCHANGED <<obey, closure, maker, body, outcome, returned, steps>>

(* `semaphore.wait()` returns, and `blocking` gives or throws the outcome; *)
(* its frame is gone.                                                      *)
Return(c) ==
  /\ Waiting(c) /\ semaphore[c] = 1
  /\ semaphore' = [semaphore EXCEPT ![c] = 0]
  /\ returned' = [returned EXCEPT ![c] = IF outcome[c] = "nil" THEN "noOutcome" ELSE outcome[c]]
  /\ maker' = [maker EXCEPT ![c] = Nobody]
  /\ steps' = [steps EXCEPT ![c] = 0]
  /\ UNCHANGED <<obey, task, closure, body, outcome>>

(* What the bridge and Swift's runtime do with a call on their own.        *)
BodyStep(c) == Await(c) \/ OffPool(c) \/ Configure(c) \/ Finish(c)

ClosureStep(c) == ResumeContinuation(c) \/ Configured(c)

Next ==
  \/ \E m \in Threads \cup Calls, c \in Calls : Call(m, c)
  \/ \E c \in Calls :
       \/ Run(c) \/ Await(c) \/ Resume(c) \/ OffPool(c) \/ RunClosure(c) \/ ResumeContinuation(c)
       \/ Configure(c) \/ Configured(c) \/ Finish(c) \/ Signal(c) \/ Return(c)

Spec == Init /\ [][Next]_vars

(* The pool runs every ready task in the end, however busy it is (strong   *)
(* fairness: another task may take a thread that came free).  What Swift   *)
(* awaits arrives, a closure that is not parked returns, Dispatch finds a  *)
(* thread, and a thread that can move does.                                *)
Fairness ==
  \A c \in Calls :
    /\ SF_vars(Run(c))
    /\ WF_vars(Resume(c)) /\ WF_vars(RunClosure(c)) /\ WF_vars(ClosureStep(c))
    /\ WF_vars(BodyStep(c)) /\ WF_vars(Signal(c)) /\ WF_vars(Return(c))

FairSpec == Spec /\ Fairness

-----------------------------------------------------------------------------
(* A call that has returned left nothing behind: nobody holds its body,    *)
(* its task is over, and no closure of it is still running.  `ingest`      *)
(* relies on it: it lends `blocking` a closure that must not escape.       *)
NothingOutlivesTheCall ==
  \A c \in Calls : returned[c] # "no" => body[c] = "none" /\ closure[c] = "none" /\ task[c] = "done"

(* A call never comes back without an outcome: `noOutcome` is never thrown *)
(* and what the maker gets is what the body ended with.                    *)
OutcomeArrives ==
  \A c \in Calls : returned[c] # "no" => returned[c] = outcome[c]

(* Calls nest: a call made from inside another's closure comes back before *)
(* that closure, and so the outer call, does.                              *)
InnerReturnsFirst ==
  \A c, d \in Calls : Waiting(d) /\ maker[d] = c => Waiting(c) /\ closure[c] # "none"

(* No thread of the pool is ever parked in `blocking`, so a task that has  *)
(* a thread can always give it back.  Configuration closures must obey.    *)
PoolNeverParked ==
  obey => \A c, d \in Calls : Waiting(d) /\ maker[d] = c => task[c] \notin OnPool

(* Whatever tasks, pool and semaphores do, what a maker sees of `blocking` *)
(* is a synchronous call: it nests, ends once and returns what it ended    *)
(* with.                                                                   *)
Promised == INSTANCE SynchronousCalls WITH underWay <- {c \in Calls : Waiting(c)}

ImplementsSynchronousCalls == Promised!Spec

(* Every call returns, as long as configuration closures obey.             *)
CallsReturn ==
  \A c \in Calls : obey /\ Waiting(c) ~> ~Waiting(c)

=============================================================================
