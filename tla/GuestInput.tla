----------------------------- MODULE GuestInput -----------------------------
(***************************************************************************)
(* What a FileReader promises a guest and the caller whose descriptor it   *)
(* reads (swift/Sources/ContainerizationBridge/Stdio.swift): each chunk of *)
(* the input goes, in order, to the one stream that is open.  None is ever *)
(* out of the input without being delivered, but for those a cancelled     *)
(* stream drops: at most one, once its cancellation has gone through.      *)
(***************************************************************************)
EXTENDS Naturals, Sequences

CONSTANTS
  MaxChunks,      \* bound: chunks the caller writes
  MaxStreams      \* bound: how often the reader is streamed

VARIABLES
  sent,         \* how many chunks the caller has written; they are numbered
  input,        \* the chunks that are neither delivered nor dropped
  end,          \* the far end: open, at end of file, or failing
  stream,       \* what each stream has come to
  terminating,  \* the stream whose cancellation has yet to go through, or 0
  yielded,      \* what each stream was given
  lost          \* chunks each cancelled stream dropped after that

vars == <<sent, input, end, stream, terminating, yielded, lost>>

Streams == 1..MaxStreams

Init ==
  /\ sent = 0 /\ input = <<>> /\ end = "open" /\ terminating = 0
  /\ stream = [s \in Streams |-> "none"]
  /\ yielded = [s \in Streams |-> <<>>]
  /\ lost = [s \in Streams |-> 0]

Write ==
  /\ end = "open" /\ sent < MaxChunks
  /\ sent' = sent + 1
  /\ input' = Append(input, sent + 1)
  /\ UNCHANGED <<end, stream, terminating, yielded, lost>>

HangUp(how) ==
  /\ end = "open"
  /\ end' = how
  /\ UNCHANGED <<sent, input, stream, terminating, yielded, lost>>

Stream(s) ==
  /\ stream[s] = "none" /\ terminating = 0
  /\ \A t \in 1..(s - 1) : stream[t] \in {"finished", "cancelled"}
  /\ stream' = [stream EXCEPT ![s] = "open"]
  /\ UNCHANGED <<sent, input, end, terminating, yielded, lost>>

Deliver(s) ==
  /\ stream[s] = "open" /\ input # <<>>
  /\ yielded' = [yielded EXCEPT ![s] = Append(@, Head(input))]
  /\ input' = Tail(input)
  /\ UNCHANGED <<sent, end, stream, terminating, lost>>

Cancel(s) ==
  /\ stream[s] = "open"
  /\ stream' = [stream EXCEPT ![s] = "cancelled"]
  /\ terminating' = s
  /\ UNCHANGED <<sent, input, end, yielded, lost>>

OnTermination ==
  /\ terminating # 0
  /\ terminating' = 0
  /\ UNCHANGED <<sent, input, end, stream, yielded, lost>>

Drop(s) ==
  /\ stream[s] = "cancelled" /\ input # <<>>
  /\ \/ terminating = s /\ UNCHANGED lost
     \/ terminating # s /\ lost[s] = 0 /\ lost' = [lost EXCEPT ![s] = 1]
  /\ input' = Tail(input)
  /\ UNCHANGED <<sent, end, stream, terminating, yielded>>

Finish(s) ==
  /\ stream[s] = "open"
  /\ end = "failed" \/ (end = "eof" /\ input = <<>>)
  /\ stream' = [stream EXCEPT ![s] = "finished"]
  /\ UNCHANGED <<sent, input, end, terminating, yielded, lost>>

Next ==
  \/ Write \/ OnTermination
  \/ \E how \in {"eof", "failed"} : HangUp(how)
  \/ \E s \in Streams : Stream(s) \/ Deliver(s) \/ Cancel(s) \/ Drop(s) \/ Finish(s)

Spec == Init /\ [][Next]_vars

=============================================================================
