-------------------------- MODULE FileReaderProofs --------------------------
(***************************************************************************)
(* That the guest gets the caller's input in order, that a cancelled       *)
(* stream loses one chunk at most, and that a stream finishes only at the  *)
(* end, however long the input is and however often it is streamed.        *)
(***************************************************************************)
EXTENDS FileReader, TLAPS

TypeInv ==
  /\ sent \in Nat /\ input \in Seq(Nat) /\ end \in {"open", "eof", "failed"}
  /\ handler \in Streams \cup {0} /\ terminating \in Streams \cup {0}
  /\ run \in [of : Streams \cup {0}, at : {"none", "fired", "read", "again", "end", "cleared", "finished"}, chunk : Nat]
  /\ run.at = "none" <=> run.of = 0
  /\ stream \in [Streams -> {"none", "open", "finished", "cancelled"}]
  /\ yielded \in [Streams -> Seq(Nat)]
  /\ lost \in [Streams -> {0, 1}]

(* How many chunks were taken off the descriptor, and how many of them     *)
(* were yielded or dropped: all but the one a run has in its hands.        *)
Taken == sent - Len(input)
Given == IF run.at = "read" THEN Taken - 1 ELSE Taken

(* What is left of the input is what was written last, in order; a run     *)
(* has the chunk that was taken last.                                      *)
InputInv ==
  /\ Taken \in Nat
  /\ \A i \in 1..Len(input) : input[i] = Taken + i
  /\ run.at = "read" => run.chunk = Taken /\ Taken > 0

(* Streams are opened one after the other.  A handler is the open stream's *)
(* or that of the stream whose termination is to run; a run that has       *)
(* cleared its own finishes its stream if that is still open.              *)
StreamInv ==
  /\ \A s \in Streams : stream[s] # "none" =>
       \A t \in Streams : t < s => stream[t] \in {"finished", "cancelled"}
  /\ terminating # 0 =>
       /\ stream[terminating] = "cancelled"
       /\ \A t \in Streams : t > terminating => stream[t] = "none"
  /\ handler # 0 => stream[handler] = "open" \/ handler = terminating
  /\ run.at = "finished" => stream[run.of] = "finished"
  /\ run.of # 0 /\ run.at # "finished" => stream[run.of] \in {"open", "cancelled"}
  /\ run.at = "cleared" => handler # run.of

(* A stream that was not opened has nothing, nor has one that was opened   *)
(* while an earlier stream's run goes on.                                  *)
FreshInv ==
  \A s \in Streams :
    stream[s] = "none" \/ (run.of # 0 /\ run.of < s) => yielded[s] = <<>>

(* Each stream has a stretch of what was given; the open one has its end.  *)
StretchInv ==
  /\ \A s \in Streams : \A i \in 1..Len(yielded[s]) : yielded[s][i] <= Given
  /\ \A s \in Streams : stream[s] = "open" /\ yielded[s] # <<>> =>
       yielded[s][Len(yielded[s])] = Given
  /\ InOrder

(* A stream that lost a chunk has no run and no handler left to lose more. *)
LossInv ==
  \A s \in Streams : lost[s] # 0 =>
    stream[s] = "cancelled" /\ terminating # s /\ handler # s /\ run.of # s

Ended == end = "failed" \/ (end = "eof" /\ input = <<>>)

(* A run that takes the input to have ended is right.                      *)
EndInv ==
  /\ run.at \in {"end", "cleared"} => Ended
  /\ FinishesAtTheEnd

IInv ==
  /\ TypeInv
  /\ InputInv /\ StreamInv /\ FreshInv /\ StretchInv
  /\ LossInv /\ EndInv

-----------------------------------------------------------------------------
LEMMA StreamsAreNumbers == Streams \subseteq Nat \ {0}
BY FileReaderAssumption DEF Streams

(* At most one stream is open.                                             *)
LEMMA OneOpen ==
  ASSUME StreamInv, NEW s \in Streams, NEW t \in Streams, stream[s] = "open", stream[t] = "open"
  PROVE  s = t
<1>1. ~(s < t) /\ ~(t < s)
  BY DEF StreamInv
<1>2. s \in Nat /\ t \in Nat
  BY StreamsAreNumbers
<1> QED
  BY <1>1, <1>2

(* The invariant holds at the start.                                       *)
LEMMA InitIInv == Init => IInv
<1> SUFFICES ASSUME Init PROVE IInv
  OBVIOUS
<1>1. Len(<<>>) = 0 /\ <<>> \in Seq(Nat)
  OBVIOUS
<1>2. TypeInv
  BY <1>1, StreamsAreNumbers DEF Init, TypeInv, NoRun
<1>3. InputInv /\ StreamInv /\ FreshInv /\ LossInv /\ EndInv
  BY <1>1 DEF Init, InputInv, Taken, StreamInv, FreshInv, LossInv, EndInv, FinishesAtTheEnd, NoRun
<1>4. StretchInv
  BY <1>1 DEF Init, StretchInv, InOrder, Streams
<1> QED
  BY <1>2, <1>3, <1>4 DEF IInv

(* The caller writes another chunk: nothing was taken or given by it.      *)
LEMMA WriteIInv == IInv /\ Write => IInv'
<1> SUFFICES ASSUME IInv, Write PROVE IInv'
  OBVIOUS
<1>1. /\ UNCHANGED <<end, handler, run, stream, terminating, yielded, lost, interrupts>>
      /\ end = "open" /\ sent' = sent + 1 /\ input' = Append(input, sent + 1)
  BY DEF Write
<1>2. /\ input' \in Seq(Nat) /\ Len(input') = Len(input) + 1
      /\ \A i \in 1..Len(input) : input'[i] = input[i]
      /\ input'[Len(input) + 1] = sent + 1
  BY <1>1 DEF IInv, TypeInv
<1>3. Taken' = Taken /\ Given' = Given
  BY <1>1, <1>2 DEF IInv, TypeInv, Taken, Given
<1>4. TypeInv'
  BY <1>1, <1>2 DEF IInv, TypeInv
<1>5. InputInv'
  <2>1. \A i \in 1..Len(input') : input'[i] = Taken + i
    <3> SUFFICES ASSUME NEW i \in 1..(Len(input) + 1)
                 PROVE  input'[i] = Taken + i
      BY <1>2
    <3>1. Len(input) \in Nat /\ sent \in Nat
      BY DEF IInv, TypeInv
    <3>2. CASE i = Len(input) + 1
      BY <3>1, <3>2, <1>2 DEF Taken
    <3>3. CASE i \in 1..Len(input)
      BY <3>3, <1>2 DEF IInv, InputInv
    <3> QED
      BY <3>1, <3>2, <3>3
  <2> QED
    BY <2>1, <1>1, <1>3 DEF IInv, InputInv
<1>6. StreamInv' /\ FreshInv' /\ LossInv'
  BY <1>1 DEF IInv, StreamInv, FreshInv, LossInv
<1>7. StretchInv'
  BY <1>1, <1>3 DEF IInv, StretchInv, InOrder
<1>8. EndInv'
  BY <1>1 DEF IInv, EndInv, Ended, FinishesAtTheEnd
<1> QED
  BY <1>4, <1>5, <1>6, <1>7, <1>8 DEF IInv

(* The far end hangs up.                                                   *)
LEMMA HangUpIInv ==
  ASSUME NEW how \in {"eof", "failed"}, IInv, HangUp(how)
  PROVE  IInv'
<1>1. /\ UNCHANGED <<sent, input, handler, run, stream, terminating, yielded, lost, interrupts>>
      /\ end = "open" /\ end' = how
  BY DEF HangUp
<1>2. Taken' = Taken /\ Given' = Given
  BY <1>1 DEF Taken, Given
<1>3. TypeInv' /\ InputInv' /\ StreamInv' /\ FreshInv' /\ LossInv'
  BY <1>1, <1>2 DEF IInv, TypeInv, InputInv, StreamInv, FreshInv, LossInv
<1>4. StretchInv'
  BY <1>1, <1>2 DEF IInv, StretchInv, InOrder
<1>5. EndInv'
  BY <1>1 DEF IInv, EndInv, Ended, FinishesAtTheEnd
<1> QED
  BY <1>3, <1>4, <1>5 DEF IInv

(* The reader is streamed again: the new stream comes after every other.   *)
LEMMA StreamIInv ==
  ASSUME NEW s \in Streams, IInv, Stream(s)
  PROVE  IInv'
<1>1. /\ UNCHANGED <<sent, input, end, run, terminating, yielded, lost, interrupts>>
      /\ stream[s] = "none" /\ terminating = 0 /\ handler' = s
      /\ \A t \in 1..(s - 1) : stream[t] \in {"finished", "cancelled"}
  BY DEF Stream
<1>2. /\ stream'[s] = "open" /\ \A t \in Streams : t # s => stream'[t] = stream[t]
      /\ stream' \in [Streams -> {"none", "open", "finished", "cancelled"}]
  BY DEF IInv, TypeInv, Stream
<1>3. \A t \in Streams : t < s => stream[t] \in {"finished", "cancelled"}
  BY <1>1, StreamsAreNumbers DEF Streams
<1>4. Taken' = Taken /\ Given' = Given
  BY <1>1 DEF Taken, Given
<1>5. TypeInv' /\ InputInv'
  BY <1>1, <1>2, <1>4 DEF IInv, TypeInv, InputInv
<1>6. StreamInv'
  BY <1>1, <1>2, <1>3, StreamsAreNumbers DEF IInv, TypeInv, StreamInv
<1>7. FreshInv'
  BY <1>1, <1>2 DEF IInv, FreshInv
<1>8. StretchInv'
  <2>1. yielded[s] = <<>>
    BY <1>1 DEF IInv, FreshInv
  <2> QED
    BY <2>1, <1>1, <1>2, <1>4 DEF IInv, StretchInv, InOrder
<1>9. LossInv' /\ EndInv'
  BY <1>1, <1>2 DEF IInv, LossInv, EndInv, Ended, FinishesAtTheEnd
<1> QED
  BY <1>5, <1>6, <1>7, <1>8, <1>9 DEF IInv

(* Containerization cancels the stream: its termination is to run.         *)
LEMMA CancelIInv ==
  ASSUME NEW s \in Streams, IInv, Cancel(s)
  PROVE  IInv'
<1>1. /\ UNCHANGED <<sent, input, end, handler, run, yielded, lost, interrupts>>
      /\ stream[s] = "open" /\ terminating' = s
  BY DEF Cancel
<1>2. /\ stream'[s] = "cancelled" /\ \A t \in Streams : t # s => stream'[t] = stream[t]
      /\ stream' \in [Streams -> {"none", "open", "finished", "cancelled"}]
  BY DEF IInv, TypeInv, Cancel
<1>3. \A t \in Streams : t > s => stream[t] = "none"
  BY <1>1, StreamsAreNumbers DEF IInv, TypeInv, StreamInv
<1>4. Taken' = Taken /\ Given' = Given
  BY <1>1 DEF Taken, Given
<1>5. TypeInv' /\ InputInv'
  BY <1>1, <1>2, <1>4 DEF IInv, TypeInv, InputInv
<1>6. StreamInv'
  <2>1. terminating # 0 => terminating = s
    BY <1>1, <1>3, StreamsAreNumbers DEF IInv, TypeInv, StreamInv
  <2>2. handler # 0 => handler = s
    <3>1. handler # 0 => handler \in Streams /\ (stream[handler] = "open" \/ handler = terminating)
      BY DEF IInv, TypeInv, StreamInv
    <3> QED
      BY <3>1, <2>1, <1>1, OneOpen DEF IInv
  <2> QED
    BY <2>2, <1>1, <1>2, <1>3, StreamsAreNumbers DEF IInv, TypeInv, StreamInv
<1>7. FreshInv'
  BY <1>1, <1>2 DEF IInv, FreshInv
<1>8. StretchInv'
  BY <1>1, <1>2, <1>4 DEF IInv, StretchInv, InOrder
<1>9. LossInv' /\ EndInv'
  BY <1>1, <1>2 DEF IInv, LossInv, EndInv, Ended, FinishesAtTheEnd
<1> QED
  BY <1>5, <1>6, <1>7, <1>8, <1>9 DEF IInv

(* Its termination clears the handler.                                     *)
LEMMA OnTerminationIInv == IInv /\ OnTermination => IInv'
<1> SUFFICES ASSUME IInv, OnTermination PROVE IInv'
  OBVIOUS
<1>1. /\ UNCHANGED <<sent, input, end, run, stream, yielded, lost, interrupts>>
      /\ terminating' = 0 /\ handler' = 0
  BY DEF OnTermination
<1>2. Taken' = Taken /\ Given' = Given
  BY <1>1 DEF Taken, Given
<1>3. TypeInv' /\ InputInv' /\ StreamInv' /\ FreshInv'
  BY <1>1, <1>2 DEF IInv, TypeInv, InputInv, StreamInv, FreshInv
<1>4. StretchInv'
  BY <1>1, <1>2 DEF IInv, StretchInv, InOrder
<1>5. LossInv' /\ EndInv'
  BY <1>1, StreamsAreNumbers DEF IInv, LossInv, EndInv, Ended, FinishesAtTheEnd
<1> QED
  BY <1>3, <1>4, <1>5 DEF IInv

-----------------------------------------------------------------------------
(* The handler fires, for the open stream or for the one whose termination *)
(* is to run: no later stream has been opened.                             *)
LEMMA FireIInv == IInv /\ Fire => IInv'
<1> SUFFICES ASSUME IInv, Fire PROVE IInv'
  OBVIOUS
<1>1. /\ UNCHANGED <<sent, input, end, handler, stream, terminating, yielded, lost, interrupts>>
      /\ handler # 0 /\ run = NoRun
      /\ run' = [of |-> handler, at |-> "fired", chunk |-> 0]
  BY DEF Fire
<1>2. Taken' = Taken /\ Given' = Given
  BY <1>1 DEF Taken, Given, NoRun
<1>3. handler \in Streams /\ \A t \in Streams : t > handler => stream[t] = "none"
  <2>1. handler \in Streams /\ (stream[handler] = "open" \/ handler = terminating)
    BY <1>1 DEF IInv, TypeInv, StreamInv
  <2>2. CASE stream[handler] = "open"
    BY <2>1, <2>2, StreamsAreNumbers DEF IInv, TypeInv, StreamInv
  <2>3. CASE handler = terminating
    BY <2>1, <2>3, <1>1 DEF IInv, StreamInv
  <2> QED
    BY <2>1, <2>2, <2>3
<1>4. TypeInv' /\ InputInv'
  BY <1>1, <1>2, <1>3, StreamsAreNumbers DEF IInv, TypeInv, InputInv
<1>5. StreamInv'
  <2>1. stream[handler] \in {"open", "cancelled"}
    BY <1>1 DEF IInv, StreamInv
  <2> QED
    BY <2>1, <1>1 DEF IInv, StreamInv
<1>6. FreshInv'
  BY <1>1, <1>3, StreamsAreNumbers DEF IInv, FreshInv
<1>7. StretchInv'
  BY <1>1, <1>2 DEF IInv, StretchInv, InOrder
<1>8. LossInv' /\ EndInv'
  BY <1>1 DEF IInv, LossInv, EndInv, Ended, FinishesAtTheEnd
<1> QED
  BY <1>4, <1>5, <1>6, <1>7, <1>8 DEF IInv

(* A step of the run that takes no chunk and yields none: it is interrupted*)
(* or finds the end, fires again, or clears the handler.                   *)
LEMMA RunOnIInv ==
  ASSUME IInv, run.of # 0, run.at # "read",
         UNCHANGED <<sent, input, end, stream, terminating, yielded, lost>>,
         handler' \in {handler, 0},
         \/ run' = NoRun
         \/ run.at # "finished" /\ \E at \in {"again", "end", "cleared"} : run' = [run EXCEPT !.at = at],
         run'.at = "cleared" => handler' # run.of,
         run'.at \in {"end", "cleared"} => Ended
  PROVE  IInv'
<1> DEFINE Type == [of : Streams \cup {0}, at : {"none", "fired", "read", "again", "end", "cleared", "finished"}, chunk : Nat]
<1>1. /\ run' \in Type /\ run'.at \notin {"read", "finished"}
      /\ \/ run'.of = 0 /\ run'.at = "none"
         \/ run'.of = run.of /\ run'.at # "none" /\ run.at # "finished"
  <2>1. run \in Type
    BY DEF IInv, TypeInv
  <2>2. CASE run' = NoRun
    BY <2>2 DEF NoRun
  <2>3. ASSUME NEW at \in {"again", "end", "cleared"}, run' = [run EXCEPT !.at = at], run.at # "finished"
        PROVE  run' \in Type /\ run'.at = at /\ run'.of = run.of
    BY <2>1, <2>3
  <2> QED
    BY <2>2, <2>3
<1>2. Taken' = Taken /\ Given' = Given
  BY <1>1 DEF Taken, Given
<1>3. TypeInv' /\ InputInv'
  BY <1>1, <1>2 DEF IInv, TypeInv, InputInv
<1>4. StreamInv'
  BY <1>1, StreamsAreNumbers DEF IInv, TypeInv, StreamInv
<1>5. FreshInv' /\ LossInv'
  BY <1>1, StreamsAreNumbers DEF IInv, TypeInv, FreshInv, LossInv
<1>6. StretchInv'
  BY <1>2 DEF IInv, StretchInv, InOrder
<1>7. EndInv'
  BY DEF IInv, EndInv, Ended, FinishesAtTheEnd
<1> QED
  BY <1>3, <1>4, <1>5, <1>6, <1>7 DEF IInv

(* `read(2)`.                                                              *)
LEMMA ReadIInv == IInv /\ Read => IInv'
<1> SUFFICES ASSUME IInv, Read PROVE IInv'
  OBVIOUS
<1>1. UNCHANGED <<sent, end, handler, stream, terminating, yielded, lost>> /\ run.at = "fired" /\ run.of # 0
  BY DEF Read, IInv, TypeInv
<1>2. CASE input # <<>> /\ end # "failed" /\ run' = [run EXCEPT !.at = "read", !.chunk = Head(input)] /\ input' = Tail(input)
  <2>1. /\ Len(input) \in Nat /\ Len(input) > 0 /\ Head(input) = input[1]
        /\ input' \in Seq(Nat) /\ Len(input') = Len(input) - 1
        /\ \A i \in 1..Len(input') : input'[i] = input[i + 1]
    BY <1>2 DEF IInv, TypeInv
  <2>2. input[1] = Taken + 1 /\ Taken \in Nat
    BY <2>1 DEF IInv, InputInv
  <2>3. /\ run' \in [of : Streams \cup {0}, at : {"none", "fired", "read", "again", "end", "cleared", "finished"}, chunk : Nat]
        /\ run'.at = "read" /\ run'.of = run.of /\ run'.chunk = Taken + 1
    <3>1. run' = [run EXCEPT !.at = "read", !.chunk = Taken + 1]
      BY <1>2, <2>1, <2>2
    <3>2. run \in [of : Streams \cup {0}, at : {"none", "fired", "read", "again", "end", "cleared", "finished"}, chunk : Nat]
      BY DEF IInv, TypeInv
    <3>3. Taken + 1 \in Nat
      BY <2>2
    <3> HIDE DEF Taken
    <3> QED
      BY <3>1, <3>2, <3>3
  <2>4. Taken' = Taken + 1 /\ Given' = Given
    BY <1>1, <2>1, <2>2, <2>3 DEF Taken, Given, IInv, TypeInv
  <2>5. TypeInv'
    BY <1>1, <2>1, <2>3 DEF IInv, TypeInv
  <2>6. InputInv'
    <3>1. \A i \in 1..Len(input') : input'[i] = Taken' + i
      <4> SUFFICES ASSUME NEW i \in 1..Len(input')
                   PROVE  input'[i] = Taken' + i
        OBVIOUS
      <4>1. i + 1 \in 1..Len(input) /\ input'[i] = input[i + 1]
        BY <2>1
      <4>2. input[i + 1] = Taken + (i + 1)
        BY <4>1 DEF IInv, InputInv
      <4> QED
        BY <4>1, <4>2, <2>2, <2>4
    <3> QED
      BY <3>1, <2>2, <2>3, <2>4 DEF InputInv
  <2>7. StreamInv' /\ FreshInv' /\ LossInv'
    BY <1>1, <2>3 DEF IInv, StreamInv, FreshInv, LossInv
  <2>8. StretchInv'
    BY <1>1, <2>4 DEF IInv, StretchInv, InOrder
  <2>9. EndInv'
    BY <1>1, <1>2, <2>3 DEF IInv, EndInv, Ended, FinishesAtTheEnd
  <2> QED
    BY <2>5, <2>6, <2>7, <2>8, <2>9 DEF IInv
<1>3. CASE run' = [run EXCEPT !.at = "again"] /\ UNCHANGED input
  <2>1. run'.at = "again"
    BY <1>3 DEF IInv, TypeInv
  <2> QED
    BY <2>1, <1>1, <1>3, RunOnIInv
<1>4. CASE Ended /\ run' = [run EXCEPT !.at = "end"] /\ UNCHANGED input
  BY <1>1, <1>4, RunOnIInv
<1> QED
  BY <1>2, <1>3, <1>4 DEF Read, Ended

(* EAGAIN and EINTR.                                                       *)
LEMMA RetryIInv == IInv /\ Retry => IInv'
<1> SUFFICES ASSUME IInv, Retry PROVE IInv'
  OBVIOUS
<1>1. run.of # 0 /\ run.at # "read" /\ run'.at = "none"
  BY DEF Retry, IInv, TypeInv, NoRun
<1> QED
  BY <1>1, RunOnIInv DEF Retry

(* The handler clears itself at the end.                                   *)
LEMMA ClearHandlerIInv == IInv /\ ClearHandler => IInv'
<1> SUFFICES ASSUME IInv, ClearHandler PROVE IInv'
  OBVIOUS
<1>1. run.of # 0 /\ run.at # "read" /\ Ended
  BY DEF ClearHandler, IInv, TypeInv, EndInv
<1> QED
  BY <1>1, RunOnIInv DEF ClearHandler

(* The chunk goes to the run's stream, if that is open, and is dropped if  *)
(* it is not: then no other stream has anything that comes before it.      *)
LEMMA YieldIInv == IInv /\ Yield => IInv'
<1> SUFFICES ASSUME IInv, Yield PROVE IInv'
  OBVIOUS
<1> DEFINE r == run.of
<1>1. /\ UNCHANGED <<sent, input, end, handler, stream, terminating, interrupts>>
      /\ run.at = "read" /\ run' = NoRun
      /\ yielded' = IF stream[r] = "open" THEN [yielded EXCEPT ![r] = Append(@, run.chunk)] ELSE yielded
      /\ lost' = IF stream[r] = "cancelled" /\ terminating # r THEN [lost EXCEPT ![r] = @ + 1] ELSE lost
  BY DEF Yield
<1>2. /\ r \in Streams /\ r # 0
      /\ run.chunk = Taken /\ Taken \in Nat /\ Taken > 0
      /\ Given = Taken - 1 /\ Given' = Taken /\ Taken' = Taken
  BY <1>1 DEF IInv, TypeInv, InputInv, Given, Taken, NoRun
<1>3. lost[r] = 0
  BY <1>2 DEF IInv, LossInv
<1>4. \A s \in Streams : s > r => yielded[s] = <<>>
  BY <1>2, StreamsAreNumbers DEF IInv, FreshInv
<1>5. \A s \in Streams : s # r => yielded'[s] = yielded[s] /\ lost'[s] = lost[s]
  BY <1>1 DEF IInv, TypeInv
<1>6. lost'[r] # 0 => stream[r] = "cancelled" /\ terminating # r
  BY <1>1, <1>2, <1>3 DEF IInv, TypeInv
<1>7. \/ yielded'[r] = yielded[r] /\ stream[r] # "open"
      \/ /\ stream[r] = "open" /\ yielded'[r] \in Seq(Nat)
         /\ Len(yielded'[r]) = Len(yielded[r]) + 1
         /\ \A i \in 1..Len(yielded[r]) : yielded'[r][i] = yielded[r][i]
         /\ yielded'[r][Len(yielded[r]) + 1] = Taken
  BY <1>1, <1>2 DEF IInv, TypeInv
<1>8. \A s \in Streams : Len(yielded[s]) \in Nat /\ yielded[s] \in Seq(Nat)
  BY DEF IInv, TypeInv
<1> HIDE DEF r
<1>9. TypeInv'
  <2>1. yielded' \in [Streams -> Seq(Nat)]
    BY <1>1, <1>2 DEF IInv, TypeInv
  <2>2. lost' \in [Streams -> {0, 1}]
    BY <1>1, <1>2, <1>3 DEF IInv, TypeInv
  <2> QED
    BY <2>1, <2>2, <1>1 DEF IInv, TypeInv, NoRun
<1>10. InputInv'
  BY <1>1, <1>2 DEF IInv, InputInv, NoRun
<1>11. StreamInv'
  BY <1>1 DEF IInv, StreamInv, NoRun
<1>12. FreshInv'
  <2> SUFFICES ASSUME NEW s \in Streams, stream[s] = "none"
               PROVE  yielded'[s] = <<>>
    BY <1>1 DEF FreshInv, NoRun
  <2>1. s # r
    BY <1>2 DEF IInv, StreamInv, r
  <2> QED
    BY <2>1, <1>5 DEF IInv, FreshInv
<1>13. \A s \in Streams : \A i \in 1..Len(yielded[s]) : yielded[s][i] \in Nat /\ yielded[s][i] <= Taken - 1
  BY <1>2, <1>8 DEF IInv, StretchInv
<1>14. StretchInv'
  <2>1. \A s \in Streams : \A i \in 1..Len(yielded'[s]) : yielded'[s][i] <= Taken
    <3> SUFFICES ASSUME NEW s \in Streams, NEW i \in 1..Len(yielded'[s])
                 PROVE  yielded'[s][i] <= Taken
      OBVIOUS
    <3>1. CASE yielded'[s] = yielded[s]
      BY <3>1, <1>2, <1>13
    <3>2. CASE s = r /\ yielded'[s] # yielded[s]
      <4>1. i \in 1..(Len(yielded[r]) + 1)
        BY <3>2, <1>7
      <4>2. CASE i = Len(yielded[r]) + 1
        BY <4>2, <3>2, <1>2, <1>7
      <4>3. CASE i \in 1..Len(yielded[r])
        <5>1. yielded'[r][i] = yielded[r][i] /\ yielded[r][i] \in Nat /\ yielded[r][i] <= Taken - 1
          BY <4>3, <3>2, <1>2, <1>7, <1>13
        <5> QED
          BY <5>1, <3>2, <1>2
      <4> QED
        BY <4>1, <4>2, <4>3, <1>2, <1>8
    <3> QED
      BY <3>1, <3>2, <1>5
  <2>2. \A s \in Streams : stream[s] = "open" /\ yielded'[s] # <<>> => yielded'[s][Len(yielded'[s])] = Taken
    <3> SUFFICES ASSUME NEW s \in Streams, stream[s] = "open", yielded'[s] # <<>>
                 PROVE  yielded'[s][Len(yielded'[s])] = Taken
      OBVIOUS
    <3>1. s >= r
      <4>1. stream[r] # "none"
        BY <1>2 DEF IInv, StreamInv, r
      <4>2. ~(s < r)
        BY <4>1, <1>2 DEF IInv, StreamInv
      <4> QED
        BY <4>2, <1>2, StreamsAreNumbers
    <3>2. s = r
      BY <3>1, <1>2, <1>4, <1>5, StreamsAreNumbers
    <3> QED
      BY <3>2, <1>7
  <2>3. InOrder'
    <3> SUFFICES ASSUME NEW s \in Streams
                 PROVE  /\ \A i \in 2..Len(yielded'[s]) : yielded'[s][i] = yielded'[s][i - 1] + 1
                        /\ \A t \in 1..(s - 1) :
                             \A i \in DOMAIN yielded'[s], j \in DOMAIN yielded'[t] : yielded'[t][j] < yielded'[s][i]
      BY DEF InOrder
    <3>1. \A i \in 2..Len(yielded'[s]) : yielded'[s][i] = yielded'[s][i - 1] + 1
      <4>0. \A i \in 2..Len(yielded[s]) : yielded[s][i] = yielded[s][i - 1] + 1
        BY DEF IInv, StretchInv, InOrder
      <4>1. CASE yielded'[s] = yielded[s]
        BY <4>0, <4>1
      <4>2. CASE s = r /\ stream[r] = "open" /\ yielded'[s] # yielded[s]
        <5> SUFFICES ASSUME NEW i \in 2..Len(yielded'[s])
                     PROVE  yielded'[s][i] = yielded'[s][i - 1] + 1
          OBVIOUS
        <5>1. CASE i = Len(yielded[s]) + 1
          <6>1. Len(yielded[s]) \in 1..Len(yielded[s]) /\ yielded[s] # <<>> /\ i - 1 = Len(yielded[s])
            BY <5>1, <4>2, <1>7, <1>8
          <6>2. yielded[s][Len(yielded[s])] = Taken - 1
            BY <6>1, <4>2, <1>2 DEF IInv, StretchInv
          <6>3. yielded'[s][i] = Taken /\ yielded'[s][i - 1] = yielded[s][Len(yielded[s])]
            BY <6>1, <5>1, <4>2, <1>7
          <6> QED
            BY <6>2, <6>3, <1>2
        <5>2. CASE i # Len(yielded[s]) + 1
          <6>1. i \in 2..Len(yielded[s]) /\ i - 1 \in 1..Len(yielded[s])
            BY <5>2, <4>2, <1>7, <1>8
          <6>2. yielded'[s][i] = yielded[s][i] /\ yielded'[s][i - 1] = yielded[s][i - 1]
            <7>1. \A k \in 1..Len(yielded[s]) : yielded'[s][k] = yielded[s][k]
              BY <4>2, <1>7
            <7> QED
              BY <6>1, <7>1
          <6> QED
            BY <6>1, <6>2, <4>0
        <5> QED
          BY <5>1, <5>2
      <4> QED
        BY <4>1, <4>2, <1>5, <1>7
    <3>2. ASSUME NEW t \in 1..(s - 1), NEW i \in DOMAIN yielded'[s], NEW j \in DOMAIN yielded'[t]
          PROVE  yielded'[t][j] < yielded'[s][i]
      <4>1. t \in Streams /\ t < s
        BY <3>2, StreamsAreNumbers, FileReaderAssumption DEF Streams
      <4>2. DOMAIN yielded'[s] = 1..Len(yielded'[s]) /\ DOMAIN yielded[s] = 1..Len(yielded[s])
        BY <1>9, <1>8 DEF TypeInv
      <4>3. DOMAIN yielded'[t] = 1..Len(yielded'[t]) /\ DOMAIN yielded[t] = 1..Len(yielded[t])
        BY <4>1, <1>9, <1>8 DEF TypeInv
      <4>4. CASE t = r
        <5>1. yielded'[s] = <<>>
          BY <4>1, <4>4, <1>4, <1>5
        <5> QED
          BY <5>1, <4>2, <3>2
      <4>5. CASE t # r /\ yielded'[s] = yielded[s]
        BY <4>1, <4>5, <1>5, <3>2 DEF IInv, StretchInv, InOrder
      <4>6. CASE t # r /\ s = r /\ yielded'[s] # yielded[s]
        <5>1. yielded'[t] = yielded[t] /\ yielded[t][j] \in Nat /\ yielded[t][j] < Taken
          BY <4>1, <4>3, <4>6, <3>2, <1>2, <1>5, <1>13
        <5>2. CASE i = Len(yielded[s]) + 1
          BY <5>1, <5>2, <4>6, <1>7
        <5>3. CASE i # Len(yielded[s]) + 1
          <6>1. i \in DOMAIN yielded[s] /\ yielded'[s][i] = yielded[s][i]
            BY <5>3, <4>2, <4>6, <3>2, <1>7, <1>8
          <6> QED
            BY <6>1, <5>1, <3>2 DEF IInv, StretchInv, InOrder
        <5> QED
          BY <5>2, <5>3
      <4> QED
        BY <4>4, <4>5, <4>6, <1>5
    <3> QED
      BY <3>1, <3>2
  <2> QED
    BY <2>1, <2>2, <2>3, <1>1, <1>2 DEF StretchInv
<1>15. LossInv'
  <2> SUFFICES ASSUME NEW s \in Streams, lost'[s] # 0
               PROVE  stream[s] = "cancelled" /\ terminating # s /\ handler # s /\ run'.of # s
    BY <1>1 DEF LossInv
  <2>1. run'.of = 0 /\ s # 0
    BY <1>1, StreamsAreNumbers DEF NoRun
  <2>2. CASE s = r
    BY <2>1, <2>2, <1>6 DEF IInv, StreamInv
  <2>3. CASE s # r
    BY <2>1, <2>3, <1>5 DEF IInv, LossInv
  <2> QED
    BY <2>2, <2>3
<1>16. EndInv'
  BY <1>1 DEF IInv, EndInv, Ended, FinishesAtTheEnd, NoRun
<1> QED
  BY <1>9, <1>10, <1>11, <1>12, <1>14, <1>15, <1>16 DEF IInv

(* The stream of a run that found the end finishes, and the handler that   *)
(* the run has cleared is not its own any more.                            *)
LEMMA FinishIInv == IInv /\ Finish => IInv'
<1> SUFFICES ASSUME IInv, Finish PROVE IInv'
  OBVIOUS
<1>1. /\ UNCHANGED <<sent, input, end, handler, terminating, yielded, lost, interrupts>>
      /\ run.at = "cleared" /\ run.of \in Streams /\ run.of # 0 /\ handler # run.of
      /\ stream[run.of] \in {"open", "cancelled"} /\ Ended
  BY DEF Finish, IInv, TypeInv, StreamInv, EndInv
<1>2. /\ stream'[run.of] = (IF stream[run.of] = "open" THEN "finished" ELSE stream[run.of])
      /\ \A s \in Streams : s # run.of => stream'[s] = stream[s]
      /\ stream' \in [Streams -> {"none", "open", "finished", "cancelled"}]
  BY <1>1 DEF Finish, IInv, TypeInv
<1>3. /\ run' \in [of : Streams \cup {0}, at : {"none", "fired", "read", "again", "end", "cleared", "finished"}, chunk : Nat]
      /\ \/ run'.of = 0 /\ run'.at = "none"
         \/ run'.of = run.of /\ run'.at = "finished" /\ stream'[run.of] = "finished"
  <2>1. run' = IF stream[run.of] = "open" THEN [run EXCEPT !.at = "finished"] ELSE NoRun
    BY DEF Finish
  <2> QED
    BY <2>1, <1>2 DEF IInv, TypeInv, NoRun
<1>4. Taken' = Taken /\ Given' = Given
  BY <1>1, <1>3 DEF Taken, Given
<1>5. TypeInv' /\ InputInv'
  BY <1>1, <1>2, <1>3, <1>4 DEF IInv, TypeInv, InputInv
<1>6. StreamInv'
  BY <1>1, <1>2, <1>3, StreamsAreNumbers DEF IInv, TypeInv, StreamInv
<1>7. FreshInv'
  BY <1>1, <1>2, <1>3, StreamsAreNumbers DEF IInv, FreshInv
<1>8. StretchInv'
  BY <1>1, <1>2, <1>4 DEF IInv, StretchInv, InOrder
<1>9. LossInv'
  BY <1>1, <1>2, <1>3, StreamsAreNumbers DEF IInv, LossInv
<1>10. EndInv'
  BY <1>1, <1>2, <1>3 DEF IInv, EndInv, Ended, FinishesAtTheEnd
<1> QED
  BY <1>5, <1>6, <1>7, <1>8, <1>9, <1>10 DEF IInv

(* Its termination runs in place, and clears whichever handler there is.   *)
LEMMA TerminatedIInv == IInv /\ Terminated => IInv'
<1> SUFFICES ASSUME IInv, Terminated PROVE IInv'
  OBVIOUS
<1>1. run.of # 0 /\ run.at # "read" /\ run'.at = "none"
  BY DEF Terminated, IInv, TypeInv, NoRun
<1> QED
  BY <1>1, RunOnIInv DEF Terminated

(* Every step keeps the invariant.                                         *)
LEMMA NextIInv == IInv /\ [Next]_vars => IInv'
<1> SUFFICES ASSUME IInv, [Next]_vars
             PROVE  IInv'
  OBVIOUS
<1>1. ASSUME NEW how \in {"eof", "failed"}, HangUp(how)
      PROVE  IInv'
  BY <1>1, HangUpIInv
<1>2. ASSUME NEW s \in Streams, Stream(s) \/ Cancel(s)
      PROVE  IInv'
  BY <1>2, StreamIInv, CancelIInv
<1>3. CASE Write \/ OnTermination \/ Fire \/ Read
  BY <1>3, WriteIInv, OnTerminationIInv, FireIInv, ReadIInv
<1>4. CASE Retry \/ Yield \/ ClearHandler \/ Finish \/ Terminated
  BY <1>4, RetryIInv, YieldIInv, ClearHandlerIInv, FinishIInv, TerminatedIInv
<1>5. CASE UNCHANGED vars
  <2>1. Taken' = Taken /\ Given' = Given
    BY <1>5 DEF vars, Taken, Given
  <2> QED
    BY <1>5, <2>1 DEF vars, IInv, TypeInv, InputInv, StreamInv, FreshInv, StretchInv, InOrder,
       LossInv, EndInv, Ended, FinishesAtTheEnd
<1> QED
  BY <1>1, <1>2, <1>3, <1>4, <1>5 DEF Next

LEMMA AlwaysIInv == Spec => []IInv
BY InitIInv, NextIInv, PTL DEF Spec

(* The properties are parts of the invariant, but for one.                 *)
LEMMA IInvImplies == IInv => InOrder /\ LossBounded /\ FinishesAtTheEnd
<1> SUFFICES ASSUME IInv
             PROVE  InOrder /\ LossBounded /\ FinishesAtTheEnd
  OBVIOUS
<1>1. InOrder /\ FinishesAtTheEnd
  BY DEF IInv, StretchInv, EndInv
<1>2. LossBounded
  <2>1. \A s \in Streams : lost[s] <= 1
    <3>1. \A s \in Streams : lost[s] = 0 \/ lost[s] = 1
      BY DEF IInv, TypeInv
    <3> QED
      BY <3>1
  <2>2. (\A s \in Streams : stream[s] # "open") /\ terminating = 0 => handler = 0
    BY StreamsAreNumbers DEF IInv, TypeInv, StreamInv
  <2> QED
    BY <2>1, <2>2 DEF LossBounded
<1> QED
  BY <1>1, <1>2

-----------------------------------------------------------------------------
(* The reader implements GuestInput: the chunk that a run has read and not *)
(* yielded counts as the head of the input, so a read changes nothing that *)
(* GuestInput tells, and a yield delivers the chunk or drops it.           *)
Unyielded == IF run.at = "read" THEN <<run.chunk>> \o input ELSE input

(* A chunk put back on the input is its head, and the input its tail.      *)
LEMMA PutBack ==
  ASSUME NEW c \in Nat, NEW q \in Seq(Nat)
  PROVE  /\ <<c>> \o q # <<>> /\ Head(<<c>> \o q) = c /\ Tail(<<c>> \o q) = q
         /\ \A x \in Nat : <<c>> \o Append(q, x) = Append(<<c>> \o q, x)
OBVIOUS

(* To take the head off and put it back changes nothing.                   *)
LEMMA TakeOff ==
  ASSUME NEW q \in Seq(Nat), q # <<>>
  PROVE  <<Head(q)>> \o Tail(q) = q /\ Head(q) \in Nat /\ Tail(q) \in Seq(Nat)
OBVIOUS

LEMMA RefinesInit == Init => Promised!Init
BY DEF Init, Promised!Init, Promised!Streams, Streams, NoRun

(* The caller writes behind what a run has in its hands.                   *)
LEMMA RefinesWrite == IInv /\ Write => Promised!Write
<1> SUFFICES ASSUME IInv, Write PROVE Promised!Write
  OBVIOUS
<1>1. Unyielded' = Append(Unyielded, sent + 1)
  BY PutBack DEF Write, Unyielded, IInv, TypeInv
<1> QED
  BY <1>1 DEF Write, Promised!Write, Unyielded

(* Hanging up, opening a stream, cancelling it and its termination do not  *)
(* touch what is unyielded.                                                *)
LEMMA RefinesStreams ==
  /\ \A how \in {"eof", "failed"} : HangUp(how) => Promised!HangUp(how)
  /\ \A s \in Streams : (Stream(s) => Promised!Stream(s)) /\ (Cancel(s) => Promised!Cancel(s))
  /\ OnTermination => Promised!OnTermination
BY DEF HangUp, Promised!HangUp, Stream, Promised!Stream, Cancel, Promised!Cancel,
   OnTermination, Promised!OnTermination

(* Firing, reading, trying again and clearing the handler are hidden, and  *)
(* so is the termination that a stream's end calls.                        *)
LEMMA RefinesHidden ==
  IInv /\ (Fire \/ Read \/ Retry \/ ClearHandler \/ Terminated) => UNCHANGED Promised!vars
<1> SUFFICES ASSUME IInv, Fire \/ Read \/ Retry \/ ClearHandler \/ Terminated
             PROVE  UNCHANGED <<sent, Unyielded, end, stream, terminating, yielded, lost>>
  BY DEF Promised!vars, Unyielded
<1>1. CASE Fire
  BY <1>1 DEF Fire, Unyielded, NoRun
<1>2. CASE Read
  <2>1. UNCHANGED <<sent, end, stream, terminating, yielded, lost>> /\ run.at = "fired"
    BY <1>2 DEF Read
  <2>2. CASE input # <<>> /\ run' = [run EXCEPT !.at = "read", !.chunk = Head(input)] /\ input' = Tail(input)
    <3>1. run'.at = "read" /\ run'.chunk = Head(input)
      BY <2>2 DEF IInv, TypeInv
    <3>2. <<Head(input)>> \o Tail(input) = input
      BY <2>2, TakeOff DEF IInv, TypeInv
    <3>3. Unyielded' = <<Head(input)>> \o Tail(input) /\ Unyielded = input
      BY <2>1, <2>2, <3>1 DEF Unyielded
    <3> QED
      BY <2>1, <3>2, <3>3
  <2>3. CASE (run' = [run EXCEPT !.at = "again"] \/ run' = [run EXCEPT !.at = "end"]) /\ UNCHANGED input
    <3>1. run'.at \in {"again", "end"}
      BY <2>3 DEF IInv, TypeInv
    <3> QED
      BY <2>1, <2>3, <3>1 DEF Unyielded
  <2> QED
    BY <1>2, <2>2, <2>3 DEF Read
<1>3. CASE Retry
  BY <1>3 DEF Retry, Unyielded, NoRun
<1>4. CASE ClearHandler
  <2>1. run'.at = "cleared"
    BY <1>4 DEF ClearHandler, IInv, TypeInv
  <2> QED
    BY <1>4, <2>1 DEF ClearHandler, Unyielded
<1>5. CASE Terminated
  BY <1>5 DEF Terminated, Unyielded, NoRun
<1> QED
  BY <1>1, <1>2, <1>3, <1>4, <1>5

(* A yield delivers the chunk if the run's stream is open and drops it if  *)
(* not; LossInv says that it is the first that the stream drops.           *)
LEMMA RefinesYield == IInv /\ Yield => \E s \in Streams : Promised!Deliver(s) \/ Promised!Drop(s)
<1> SUFFICES ASSUME IInv, Yield
             PROVE  Promised!Deliver(run.of) \/ Promised!Drop(run.of)
  BY DEF IInv, TypeInv, Yield
<1>1. /\ run.of \in Streams /\ run.of # 0 /\ lost[run.of] = 0
      /\ stream[run.of] \in {"open", "cancelled"}
  BY DEF Yield, IInv, TypeInv, StreamInv, LossInv
<1>2. /\ UNCHANGED <<sent, end, stream, terminating>>
      /\ Unyielded # <<>> /\ Head(Unyielded) = run.chunk /\ Unyielded' = Tail(Unyielded)
  BY PutBack DEF Yield, Unyielded, IInv, TypeInv, NoRun
<1>3. CASE stream[run.of] = "open"
  <2>1. yielded' = [yielded EXCEPT ![run.of] = Append(@, Head(Unyielded))] /\ UNCHANGED lost
    BY <1>2, <1>3 DEF Yield
  <2> QED
    BY <1>2, <1>3, <2>1 DEF Promised!Deliver, Unyielded
<1>4. CASE stream[run.of] = "cancelled"
  <2>1. UNCHANGED yielded /\ lost' = IF terminating # run.of THEN [lost EXCEPT ![run.of] = 1] ELSE lost
    BY <1>1, <1>4 DEF Yield
  <2> QED
    BY <1>1, <1>2, <1>4, <2>1 DEF Promised!Drop, Unyielded
<1> QED
  BY <1>1, <1>3, <1>4

(* A stream that finishes is at the end; one that was cancelled stays so.  *)
LEMMA RefinesFinish ==
  IInv /\ Finish => (\E s \in Streams : Promised!Finish(s)) \/ UNCHANGED Promised!vars
<1> SUFFICES ASSUME IInv, Finish
             PROVE  Promised!Finish(run.of) \/ UNCHANGED Promised!vars
  BY DEF IInv, TypeInv, Finish
<1>1. /\ run.of \in Streams /\ stream[run.of] \in {"open", "cancelled"} /\ Ended
      /\ UNCHANGED <<sent, input, end, terminating, yielded, lost>>
      /\ run.at = "cleared" /\ run'.at \in {"finished", "none"}
  BY DEF Finish, IInv, TypeInv, StreamInv, EndInv, NoRun
<1>2. CASE stream[run.of] = "open"
  <2>1. stream' = [stream EXCEPT ![run.of] = "finished"]
    BY <1>2 DEF Finish
  <2> QED
    BY <1>1, <1>2, <2>1 DEF Promised!Finish, Ended
<1>3. CASE stream[run.of] = "cancelled"
  <2>1. stream' = stream
    BY <1>3 DEF Finish, IInv, TypeInv
  <2> QED
    BY <1>1, <2>1 DEF Promised!vars
<1> QED
  BY <1>1, <1>2, <1>3

LEMMA RefinesNext == IInv /\ [Next]_vars => [Promised!Next]_(Promised!vars)
<1> SUFFICES ASSUME IInv, [Next]_vars
             PROVE  Promised!Next \/ UNCHANGED Promised!vars
  OBVIOUS
<1> USE DEF Promised!Next
<1>1. ASSUME NEW how \in {"eof", "failed"}, HangUp(how)
      PROVE  Promised!Next
  BY <1>1, RefinesStreams
<1>2. ASSUME NEW s \in Streams, Stream(s) \/ Cancel(s)
      PROVE  Promised!Next
  BY <1>2, RefinesStreams DEF Promised!Streams, Streams
<1>3. CASE Write \/ OnTermination
  BY <1>3, RefinesWrite, RefinesStreams
<1>4. CASE Fire \/ Read \/ Retry \/ ClearHandler \/ Terminated
  BY <1>4, RefinesHidden
<1>5. CASE Yield \/ Finish
  BY <1>5, RefinesYield, RefinesFinish DEF Promised!Streams, Streams
<1>6. CASE UNCHANGED vars
  BY <1>6 DEF vars, Promised!vars
<1> QED
  BY <1>1, <1>2, <1>3, <1>4, <1>5, <1>6 DEF Next

-----------------------------------------------------------------------------
(* What `FileReader.stream` yields is the caller's input in order and      *)
(* without a gap, across any number of streams and late runs.              *)
THEOREM AlwaysInOrder == Spec => []InOrder
BY AlwaysIInv, IInvImplies, PTL

(* After `onTermination` a stream costs the caller one chunk at most, and  *)
(* no handler stays installed for nobody.                                  *)
THEOREM LossAlwaysBounded == Spec => []LossBounded
BY AlwaysIInv, IInvImplies, PTL

(* The handler takes neither a retry nor a slow writer for the end of the  *)
(* input.                                                                  *)
THEOREM FinishesOnlyAtTheEnd == Spec => []FinishesAtTheEnd
BY AlwaysIInv, IInvImplies, PTL

(* Each chunk is delivered or dropped as if at once, and never left out:   *)
(* the readability handler, its reads, its retries and the cancellations   *)
(* that cut into them implement GuestInput.                                *)
THEOREM Refinement == Spec => ImplementsGuestInput
BY AlwaysIInv, RefinesInit, RefinesNext, PTL DEF Spec, ImplementsGuestInput, Promised!Spec

=============================================================================
