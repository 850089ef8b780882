------------------------------- MODULE Output -------------------------------
(***************************************************************************)
(* What guest processes write (FileWriter and Output in                    *)
(* swift/Sources/ContainerizationBridge/Stdio.swift), over the host        *)
(* process's table of descriptors.                                         *)
(*                                                                         *)
(* The bridge duplicates each descriptor the caller passes and gives the   *)
(* duplicate to a FileWriter; stdout and stderr share one when they name   *)
(* the same descriptor.  Containerization's relays write to the writers.   *)
(* An exec'ed process's writers are closed once it has been deleted; an    *)
(* init process's stay open, because a stopped container can be created    *)
(* again.  The host program opens and closes descriptors of its own all    *)
(* along, so a number that was closed soon means something else.           *)
(***************************************************************************)
EXTENDS Naturals, FiniteSets

CONSTANTS
  Execs,      \* processes that exec makes
  Inits,      \* processes that a container is created with
  Deleters,   \* threads that call `delete`
  Lent,       \* the caller's descriptors, passed for stdout and stderr
  MaxFd,      \* bound: other descriptors the host process may have open
  MaxWrites,  \* bound: chunks the relays write, over all writers
  Host,       \* what a descriptor of the host program's own refers to
  None

Processes == Execs \cup Inits
Ends == {"stdout", "stderr"}
Writers == Processes \X Ends   \* a writer, named after the end it was made for
Fds == 1..MaxFd

ASSUME OutputAssumption ==
  /\ Execs \cap Inits = {}
  /\ MaxFd \in Nat /\ MaxWrites \in Nat
  /\ Host \notin Writers
  /\ None \notin Writers \cup {Host} \cup Fds \cup Lent \cup Execs

VARIABLES
  table,    \* what each descriptor number refers to: a writer's file, or the host's
  handle,   \* each writer's FileHandle?: the number it writes to and closes
  writer,   \* the writer each end of each process was given, if any
  target,   \* the caller's descriptor that each writer duplicates
  writing,  \* the ends whose relay is inside its writer's lock, mid-chunk
  state,    \* where each process is
  deleting, \* the process each thread is deleting, once Containerization has
  closing,  \* the writers that each thread's `Output.close` has yet to close
  writes,
  stray     \* whether a write or close hit a number that was not the writer's

vars == <<table, handle, writer, target, writing, state, deleting, closing, writes, stray>>

TypeOK ==
  /\ table \in [Fds -> Writers \cup {Host, None}]
  /\ handle \in [Writers -> Fds \cup {None}]
  /\ writer \in [Writers -> Writers \cup {None}]
  /\ target \in [Writers -> Lent \cup {None}]
  /\ writing \subseteq Writers
  /\ state \in [Processes -> {"none", "made", "running", "stopped", "deleting", "deleted"}]
  /\ deleting \in [Deleters -> Execs \cup {None}]
  /\ closing \in [Deleters -> SUBSET Writers]
  /\ writes \in 0..MaxWrites
  /\ stray \in {"no", "yes"}

Init ==
  /\ table = [f \in Fds |-> None]
  /\ handle = [w \in Writers |-> None]
  /\ writer = [w \in Writers |-> None]
  /\ target = [w \in Writers |-> None]
  /\ writing = {}
  /\ state = [p \in Processes |-> "none"]
  /\ deleting = [d \in Deleters |-> None]
  /\ closing = [d \in Deleters |-> {}]
  /\ writes = 0
  /\ stray = "no"

Of(p) == {p} \X Ends
Free == {f \in Fds : table[f] = None}
Open(ws) == {w \in ws : handle[w] # None}
Locked(w) == \E e \in writing : writer[e] = w

-----------------------------------------------------------------------------
(* The rest of the host program opens a file, and closes one.              *)
HostOpen(f) ==
  /\ f \in Free
  /\ table' = [table EXCEPT ![f] = Host]
  /\ UNCHANGED <<handle, writer, target, writing, state, deleting, closing, writes, stray>>

HostClose(f) ==
  /\ table[f] = Host
  /\ table' = [table EXCEPT ![f] = None]
  /\ UNCHANGED <<handle, writer, target, writing, state, deleting, closing, writes, stray>>

-----------------------------------------------------------------------------
(* Mutant: stderr gets a writer of its own whatever it names.              *)
WriterForUnshared(p, out, err) ==
  [e \in Of(p) |->
     CASE e[2] = "stdout" -> IF out = None THEN None ELSE e
       [] e[2] = "stderr" -> IF err = None THEN None ELSE e]

(* `LinuxProcessConfiguration(_:)`: which writer each end gets, sharing    *)
(* stdout's when both name the same descriptor,                            *)
WriterFor(p, out, err) ==
  [e \in Of(p) |->
     CASE e[2] = "stdout" -> IF out = None THEN None ELSE e
       [] e[2] = "stderr" -> IF err = None THEN None
                             ELSE IF err = out THEN <<p, "stdout">> ELSE e]

(* and a duplicate for each.  A `dup` that fails throws, and the writer    *)
(* made before it closes its duplicate as it is freed: nothing is left.    *)
Make(p, out, err) ==
  LET given == WriterFor(p, out, err)
      made == {w \in Of(p) : \E e \in Of(p) : given[e] = w}
  IN /\ state[p] = "none"
     /\ \E number \in [made -> Free] :
          /\ \A v, w \in made : v # w => number[v] # number[w]
          /\ table' = [f \in Fds |-> IF \E w \in made : number[w] = f
                                     THEN CHOOSE w \in made : number[w] = f ELSE table[f]]
          /\ handle' = [w \in Writers |-> IF w \in made THEN number[w] ELSE handle[w]]
     /\ writer' = [e \in Writers |-> IF e \in Of(p) THEN given[e] ELSE writer[e]]
     /\ target' = [w \in Writers |-> IF w \in Of(p) THEN IF w[2] = "stdout" THEN out ELSE err ELSE target[w]]
     /\ state' = [state EXCEPT ![p] = "made"]
     /\ UNCHANGED <<writing, deleting, closing, writes, stray>>

(* Containerization runs the process: `exec`, or a container's `create`    *)
(* and `start`, which may follow a `stop`.                                 *)
Run(p) ==
  /\ state[p] = "made" \/ (p \in Inits /\ state[p] = "stopped")
  /\ state' = [state EXCEPT ![p] = "running"]
  /\ UNCHANGED <<table, handle, writer, target, writing, deleting, closing, writes, stray>>

(* A container's `stop`: its init process's writers stay as they are.      *)
Stop(p) ==
  /\ p \in Inits /\ state[p] = "running"
  /\ state' = [state EXCEPT ![p] = "stopped"]
  /\ UNCHANGED <<table, handle, writer, target, writing, deleting, closing, writes, stray>>

-----------------------------------------------------------------------------
(* A relay writes a chunk: `FileWriter.write` takes the lock and starts,   *)
(* or throws `closed`, which changes nothing.  A relay may be late, and    *)
(* write for a process that has been stopped or deleted.                   *)
BeginWrite(e) ==
  /\ state[e[1]] \in {"running", "stopped", "deleting", "deleted"}
  /\ e \notin writing /\ writes < MaxWrites
  /\ writer[e] # None /\ ~Locked(writer[e]) /\ handle[writer[e]] # None
  /\ writing' = writing \cup {e}
  /\ writes' = writes + 1
  /\ UNCHANGED <<table, handle, writer, target, state, deleting, closing, stray>>

(* The chunk is written to the handle's number and the lock given back.    *)
EndWrite(e) ==
  /\ e \in writing
  /\ writing' = writing \ {e}
  /\ stray' = IF handle[writer[e]] # None /\ table[handle[writer[e]]] = writer[e] THEN stray ELSE "yes"
  /\ UNCHANGED <<table, handle, writer, target, state, deleting, closing, writes>>

-----------------------------------------------------------------------------
(* `CzLinuxProcess.delete`, once Containerization has deleted the process. *)
(* Two threads may get this far, and close the same writers.  A delete     *)
(* that throws leaves them open, and changes nothing.                      *)
Delete(d, p) ==
  /\ deleting[d] = None /\ state[p] \in {"running", "deleting", "deleted"}
  /\ deleting' = [deleting EXCEPT ![d] = p]
  /\ closing' = [closing EXCEPT ![d] = {writer[e] : e \in Of(p)} \ {None}]
  /\ state' = [state EXCEPT ![p] = IF @ = "running" THEN "deleting" ELSE @]
  /\ UNCHANGED <<table, handle, writer, target, writing, writes, stray>>

(* Mutant: `close` leaves the handle in place.                             *)
CloseKeepingHandle(d, w) ==
  /\ w \in closing[d] /\ ~Locked(w)
  /\ closing' = [closing EXCEPT ![d] = @ \ {w}]
  /\ stray' = IF handle[w] = None \/ table[handle[w]] = w THEN stray ELSE "yes"
  /\ table' = IF handle[w] = None THEN table ELSE [table EXCEPT ![handle[w]] = None]
  /\ UNCHANGED <<handle, writer, target, writing, state, deleting, writes>>

(* `Output.close` closes the writers, each under its lock.  `close` leaves *)
(* a writer without its handle, and does nothing to one that has none.     *)
Close(d, w) ==
  /\ w \in closing[d] /\ ~Locked(w)
  /\ closing' = [closing EXCEPT ![d] = @ \ {w}]
  /\ stray' = IF handle[w] = None \/ table[handle[w]] = w THEN stray ELSE "yes"
  /\ table' = IF handle[w] = None THEN table ELSE [table EXCEPT ![handle[w]] = None]
  /\ handle' = [handle EXCEPT ![w] = None]
  /\ UNCHANGED <<writer, target, writing, state, deleting, writes>>

(* Mutant: `delete` returns without closing the output.                    *)
DeletedLeaking(d) ==
  /\ deleting[d] # None
  /\ state' = [state EXCEPT ![deleting[d]] = "deleted"]
  /\ deleting' = [deleting EXCEPT ![d] = None]
  /\ closing' = [closing EXCEPT ![d] = {}]
  /\ UNCHANGED <<table, handle, writer, target, writing, writes, stray>>

(* Mutant: `delete` goes on only when it was the one to close a writer.    *)
DeletedByCloser(d) ==
  /\ deleting[d] # None /\ closing[d] = {} /\ state[deleting[d]] = "deleting"
  /\ state' = [state EXCEPT ![deleting[d]] = "deleted"]
  /\ deleting' = [deleting EXCEPT ![d] = None]
  /\ UNCHANGED <<table, handle, writer, target, writing, closing, writes, stray>>

(* `delete` returns.                                                       *)
Deleted(d) ==
  /\ deleting[d] # None /\ closing[d] = {}
  /\ state' = [state EXCEPT ![deleting[d]] = "deleted"]
  /\ deleting' = [deleting EXCEPT ![d] = None]
  /\ UNCHANGED <<table, handle, writer, target, writing, closing, writes, stray>>

(* The process is freed: its exec failed, or the last handle on it or on   *)
(* its container is dropped.  A file handle that is still open closes its  *)
(* number as it goes (`closeOnDealloc`).                                   *)
Release(p) ==
  /\ state[p] \in {"made", "running", "stopped", "deleted"}
  /\ writing \cap Of(p) = {} /\ \A d \in Deleters : deleting[d] # p
  /\ state' = [state EXCEPT ![p] = "none"]
  /\ stray' = IF \A w \in Open(Of(p)) : table[handle[w]] = w THEN stray ELSE "yes"
  /\ table' = [f \in Fds |-> IF \E w \in Open(Of(p)) : handle[w] = f THEN None ELSE table[f]]
  /\ handle' = [w \in Writers |-> IF w \in Of(p) THEN None ELSE handle[w]]
  /\ writer' = [e \in Writers |-> IF e \in Of(p) THEN None ELSE writer[e]]
  /\ target' = [w \in Writers |-> IF w \in Of(p) THEN None ELSE target[w]]
  /\ UNCHANGED <<writing, deleting, closing, writes>>

Next ==
  \/ \E f \in Fds : HostOpen(f) \/ HostClose(f)
  \/ \E p \in Processes :
       \/ \E out, err \in Lent \cup {None} : Make(p, out, err)
       \/ Run(p) \/ Stop(p) \/ Release(p)
  \/ \E d \in Deleters :
       \/ \E p \in Execs : Delete(d, p)
       \/ \E w \in Writers : Close(d, w)
       \/ Deleted(d)
  \/ \E e \in Writers : BeginWrite(e) \/ EndWrite(e)

Spec == Init /\ [][Next]_vars

(* A chunk gets written in the end: the caller reads what it lent.  A      *)
(* thread inside `delete` goes on.                                         *)
Fairness ==
  /\ \A e \in Writers : WF_vars(EndWrite(e))
  /\ \A d \in Deleters : WF_vars(Deleted(d)) /\ SF_vars(\E w \in Writers : Close(d, w))

FairSpec == Spec /\ Fairness

-----------------------------------------------------------------------------
(* No write and no close ever reaches a descriptor that is not the         *)
(* writer's own, though numbers are reused as soon as they are closed.     *)
NeverStray == stray = "no"

(* Duplicates are open exactly as long as they are needed: each is some    *)
(* writer's to close, and a process that was deleted or freed has left     *)
(* none; and until it is deleted its writers stay open, across every stop  *)
(* and re-creation of its container.                                       *)
OpenWhileNeeded ==
  /\ \A f \in Fds :
       table[f] \notin {Host, None} =>
         handle[table[f]] = f /\ state[table[f][1]] \notin {"none", "deleted"}
  /\ \A e \in Writers :
       state[e[1]] \in {"made", "running", "stopped"} /\ writer[e] # None =>
         handle[writer[e]] # None /\ table[handle[writer[e]]] = writer[e]

(* When stdout and stderr go to the same descriptor, their chunks do not   *)
(* interleave: no two relays of a process are mid-chunk on it.             *)
ChunksWhole ==
  \A d, e \in writing : d # e /\ d[1] = e[1] => target[writer[d]] # target[writer[e]]

(* `delete` gets through its writers, whatever the relays are doing.       *)
DeleteReturns ==
  \A d \in Deleters : deleting[d] # None ~> deleting[d] = None

=============================================================================
