----------------------------- MODULE FileReader -----------------------------
(***************************************************************************)
(* A guest process's stdin (FileReader in                                  *)
(* swift/Sources/ContainerizationBridge/Stdio.swift): the caller's input,  *)
(* read through a duplicate descriptor by a readability handler that       *)
(* yields each chunk to an AsyncStream.                                    *)
(*                                                                         *)
(* The handler runs on the file handle's queue, one run at a time.  The    *)
(* stream ends there, at end of file, or elsewhere, when Containerization  *)
(* cancels its relay; clearing the handler does not wait for a run that is *)
(* under way.  A container that is created again streams its configuration *)
(* and so its reader once more.                                            *)
(***************************************************************************)
EXTENDS Naturals, Sequences

CONSTANTS
  MaxChunks,      \* bound: chunks the caller writes
  MaxStreams,     \* bound: how often the reader is streamed
  MaxInterrupts   \* bound: reads that end in EAGAIN or EINTR

ASSUME FileReaderAssumption ==
  MaxChunks \in Nat /\ MaxStreams \in Nat /\ MaxInterrupts \in Nat

VARIABLES
  sent,         \* how many chunks the caller has written; they are numbered
  input,        \* the chunks nobody has read yet
  end,          \* the far end: open, at end of file, or failing (EIO)
  handler,      \* the stream whose readability handler is installed, or 0
  run,          \* the run of a handler that is under way
  stream,       \* what each stream has come to
  terminating,  \* the cancelled stream whose onTermination is to run, or 0
  yielded,      \* what each stream was given
  lost,         \* chunks each cancelled stream took after onTermination ran
  interrupts

vars == <<sent, input, end, handler, run, stream, terminating, yielded, lost, interrupts>>

Streams == 1..MaxStreams
Chunks == 1..MaxChunks
NoRun == [of |-> 0, at |-> "none", chunk |-> 0]

Init ==
  /\ sent = 0 /\ input = <<>> /\ end = "open"
  /\ handler = 0 /\ run = NoRun /\ terminating = 0
  /\ stream = [s \in Streams |-> "none"]
  /\ yielded = [s \in Streams |-> <<>>]
  /\ lost = [s \in Streams |-> 0] /\ interrupts = 0

-----------------------------------------------------------------------------
(* The caller's side of the descriptor.                                    *)
Write ==
  /\ end = "open" /\ sent < MaxChunks
  /\ sent' = sent + 1
  /\ input' = Append(input, sent + 1)
  /\ UNCHANGED <<end, handler, run, stream, terminating, yielded, lost, interrupts>>

HangUp(how) ==
  /\ end = "open"
  /\ end' = how
  /\ UNCHANGED <<sent, input, handler, run, stream, terminating, yielded, lost, interrupts>>

-----------------------------------------------------------------------------
(* `stream()`, for a process that is created when the one before is gone.  *)
Stream(s) ==
  /\ stream[s] = "none" /\ terminating = 0
  /\ \A t \in 1..(s - 1) : stream[t] \in {"finished", "cancelled"}
  /\ stream' = [stream EXCEPT ![s] = "open"]
  /\ handler' = s
  /\ UNCHANGED <<sent, input, end, run, terminating, yielded, lost, interrupts>>

(* Containerization cancels its relay, which ends the stream and then      *)
(* calls `onTermination`.                                                  *)
Cancel(s) ==
  /\ stream[s] = "open"
  /\ stream' = [stream EXCEPT ![s] = "cancelled"]
  /\ terminating' = s
  /\ UNCHANGED <<sent, input, end, handler, run, yielded, lost, interrupts>>

(* Mutant: the stream has no `onTermination`.                              *)
OnTerminationMissing ==
  /\ terminating # 0
  /\ terminating' = 0
  /\ UNCHANGED <<sent, input, end, handler, run, stream, yielded, lost, interrupts>>

OnTermination ==
  /\ terminating # 0
  /\ terminating' = 0
  /\ handler' = 0
  /\ UNCHANGED <<sent, input, end, run, stream, yielded, lost, interrupts>>

-----------------------------------------------------------------------------
(* The descriptor is readable, and the handle's queue runs the handler.    *)
Fire ==
  /\ handler # 0 /\ run = NoRun
  /\ input # <<>> \/ end # "open"
  /\ run' = [of |-> handler, at |-> "fired", chunk |-> 0]
  /\ UNCHANGED <<sent, input, end, handler, stream, terminating, yielded, lost, interrupts>>

(* `read(2)`: a chunk, nothing this time, or the end, where a failed read  *)
(* counts as end of file.                                                  *)
Read ==
  /\ run.at = "fired"
  /\ \/ /\ input # <<>> /\ end # "failed"
        /\ run' = [run EXCEPT !.at = "read", !.chunk = Head(input)]
        /\ input' = Tail(input)
        /\ UNCHANGED interrupts
     \/ /\ interrupts < MaxInterrupts
        /\ interrupts' = interrupts + 1
        /\ run' = [run EXCEPT !.at = "again"]
        /\ UNCHANGED input
     \/ /\ end = "failed" \/ (end = "eof" /\ input = <<>>)
        /\ run' = [run EXCEPT !.at = "end"]
        /\ UNCHANGED <<input, interrupts>>
  /\ UNCHANGED <<sent, end, handler, stream, terminating, yielded, lost>>

(* Mutant: every read below one byte is taken for the end.                 *)
RetryNever ==
  /\ run.at = "again"
  /\ run' = [run EXCEPT !.at = "end"]
  /\ UNCHANGED <<sent, input, end, handler, stream, terminating, yielded, lost, interrupts>>

(* EAGAIN and EINTR: the handler fires again.                              *)
Retry ==
  /\ run.at = "again"
  /\ run' = NoRun
  /\ UNCHANGED <<sent, input, end, handler, stream, terminating, yielded, lost, interrupts>>

(* Mutant: the handler yields its buffer and not a copy of what it read,   *)
(* so the next read overwrites a chunk that was not taken yet.             *)
YieldBuffer ==
  /\ run.at = "read"
  /\ yielded' = IF stream[run.of] = "open"
                THEN [yielded EXCEPT ![run.of] = [i \in 1..(Len(@) + 1) |-> run.chunk]]
                ELSE yielded
  /\ lost' = IF stream[run.of] = "cancelled" /\ terminating # run.of THEN [lost EXCEPT ![run.of] = @ + 1] ELSE lost
  /\ run' = NoRun
  /\ UNCHANGED <<sent, input, end, handler, stream, terminating, interrupts>>

(* `continuation.yield`, which a stream that has ended drops.              *)
Yield ==
  /\ run.at = "read"
  /\ yielded' = IF stream[run.of] = "open" THEN [yielded EXCEPT ![run.of] = Append(@, run.chunk)] ELSE yielded
  /\ lost' = IF stream[run.of] = "cancelled" /\ terminating # run.of THEN [lost EXCEPT ![run.of] = @ + 1] ELSE lost
  /\ run' = NoRun
  /\ UNCHANGED <<sent, input, end, handler, stream, terminating, interrupts>>

(* The end: the handler clears itself,                                     *)
ClearHandler ==
  /\ run.at = "end"
  /\ handler' = 0
  /\ run' = [run EXCEPT !.at = "cleared"]
  /\ UNCHANGED <<sent, input, end, stream, terminating, yielded, lost, interrupts>>

(* Mutant: the handler clears itself and leaves the stream open.           *)
FinishForgotten ==
  /\ run.at = "cleared"
  /\ run' = NoRun
  /\ UNCHANGED <<sent, input, end, handler, stream, terminating, yielded, lost, interrupts>>

(* `continuation.finish` ends the stream, unless it has been cancelled,    *)
Finish ==
  /\ run.at = "cleared"
  /\ stream' = [stream EXCEPT ![run.of] = IF @ = "open" THEN "finished" ELSE @]
  /\ run' = IF stream[run.of] = "open" THEN [run EXCEPT !.at = "finished"] ELSE NoRun
  /\ UNCHANGED <<sent, input, end, handler, terminating, yielded, lost, interrupts>>

(* and calls `onTermination` before it returns.  The next stream may have  *)
(* been opened in between.                                                 *)
Terminated ==
  /\ run.at = "finished"
  /\ handler' = 0
  /\ run' = NoRun
  /\ UNCHANGED <<sent, input, end, stream, terminating, yielded, lost, interrupts>>

HandlerStep == Fire \/ Read \/ Retry \/ Yield \/ ClearHandler \/ Finish \/ Terminated

Next ==
  \/ Write \/ (\E how \in {"eof", "failed"} : HangUp(how))
  \/ \E s \in Streams : Stream(s) \/ Cancel(s)
  \/ OnTermination
  \/ Fire \/ Read \/ Retry \/ Yield \/ ClearHandler \/ Finish \/ Terminated

(* Dispatch runs a handler that can run, and a run goes on.                *)
Spec == Init /\ [][Next]_vars /\ WF_vars(HandlerStep) /\ WF_vars(OnTermination)

-----------------------------------------------------------------------------
(* The guest gets the caller's input in order and without a gap, even when *)
(* a run that began for one stream ends during the next.                   *)
InOrder ==
  \A s \in Streams :
    /\ \A i \in 2..Len(yielded[s]) : yielded[s][i] = yielded[s][i - 1] + 1
    /\ \A t \in 1..(s - 1) :
         \A i \in DOMAIN yielded[s], j \in DOMAIN yielded[t] : yielded[t][j] < yielded[s][i]

(* Once a cancelled stream's termination has run, at most one more chunk   *)
(* of the caller's input is taken for it, the one whose read was under     *)
(* way; the rest stays in the caller's descriptor, for no handler stays    *)
(* installed when all streams are over.                                    *)
LossBounded ==
  /\ \A s \in Streams : lost[s] <= 1
  /\ (\A s \in Streams : stream[s] # "open") /\ terminating = 0 => handler = 0

(* A stream finishes of itself only at the end of the input, and then has  *)
(* been given all that was left of it: a retry or a slow writer is not     *)
(* taken for the end, which would close the guest's stdin.                 *)
FinishesAtTheEnd ==
  \A s \in Streams :
    stream[s] = "finished" => end = "failed" \/ (end = "eof" /\ input = <<>>)

(* However a run is cut by a cancellation, by the next stream or by the    *)
(* caller, each chunk is delivered or dropped as if at once: a chunk that  *)
(* a run has read and not yielded still counts as the head of the input.   *)
Promised ==
  INSTANCE GuestInput WITH input <- IF run.at = "read" THEN <<run.chunk>> \o input ELSE input

ImplementsGuestInput == Promised!Spec

(* The input is streamed until it reaches its end: a stream whose input    *)
(* has ended does not stay open.                                           *)
StreamEnds ==
  \A s \in Streams : stream[s] = "open" /\ end # "open" ~> stream[s] # "open"

(* That much is so of a reader's first stream, which no run of an earlier  *)
(* stream's handler can cut off from its input.                            *)
FirstStreamEnds ==
  stream[1] = "open" /\ end # "open" ~> stream[1] # "open"

=============================================================================
