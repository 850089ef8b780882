--------------------------- MODULE BlockingProofs ---------------------------
(***************************************************************************)
(* What Blocking promises, for any threads, any calls, any pool and any    *)
(* bound on the bodies.  Liveness stays with TLC.                          *)
(***************************************************************************)
EXTENDS Blocking, TLAPS

(* Where a call's task is settles what its closure, its body, its outcome  *)
(* and its semaphore are.                                                  *)
StageInv ==
  \A c \in Calls :
    /\ closure[c] = "awaited" <=> task[c] \in {"dispatched", "offPool"}
    /\ closure[c] = "configuration" <=> task[c] = "configuring"
    /\ body[c] = "none" <=> task[c] \in {"none", "finished", "done"}
    /\ task[c] \in {"finished", "done"} <=> outcome[c] # "nil"
    /\ semaphore[c] = 1 => task[c] = "done"
    /\ returned[c] # "no" => task[c] = "done" /\ returned[c] = outcome[c]

(* A closure that is parked in a nested call is the closure of a call that *)
(* is itself in progress, and it is off the pool unless it disobeys.       *)
ParkedInv ==
  \A c, d \in Calls :
    Waiting(d) /\ maker[d] = c =>
      /\ returned[c] = "no"
      /\ task[c] = "offPool" \/ (~obey /\ task[c] = "configuring")

IInv == TypeOK /\ StageInv /\ ParkedInv

LEMMA InitIInv == Init => IInv
BY BlockingAssumption DEF Init, IInv, TypeOK, StageInv, ParkedInv, Waiting, OnPool

LEMMA TypeStep == TypeOK /\ [Next]_vars => TypeOK'
<1> SUFFICES ASSUME TypeOK, [Next]_vars PROVE TypeOK'
  OBVIOUS
<1> USE BlockingAssumption DEF TypeOK, OnPool
<1>1. ASSUME NEW m \in Threads \cup Calls, NEW c \in Calls, Call(m, c) PROVE TypeOK'
  BY <1>1 DEF Call, MayCall
<1>2. ASSUME NEW c \in Calls, Run(c) PROVE TypeOK'
  BY <1>2 DEF Run
<1>3. ASSUME NEW c \in Calls, Await(c) PROVE TypeOK'
  BY <1>3 DEF Await
<1>4. ASSUME NEW c \in Calls, Resume(c) PROVE TypeOK'
  BY <1>4 DEF Resume
<1>5. ASSUME NEW c \in Calls, OffPool(c) PROVE TypeOK'
  BY <1>5 DEF OffPool
<1>6. ASSUME NEW c \in Calls, RunClosure(c) PROVE TypeOK'
  BY <1>6 DEF RunClosure
<1>7. ASSUME NEW c \in Calls, ResumeContinuation(c) PROVE TypeOK'
  BY <1>7 DEF ResumeContinuation
<1>8. ASSUME NEW c \in Calls, Configure(c) PROVE TypeOK'
  BY <1>8 DEF Configure
<1>9. ASSUME NEW c \in Calls, Configured(c) PROVE TypeOK'
  BY <1>9 DEF Configured
<1>10. ASSUME NEW c \in Calls, Finish(c) PROVE TypeOK'
  BY <1>10 DEF Finish
<1>11. ASSUME NEW c \in Calls, Signal(c) PROVE TypeOK'
  BY <1>11 DEF Signal
<1>12. ASSUME NEW c \in Calls, Return(c) PROVE TypeOK'
  BY <1>12 DEF Return
<1>13. CASE UNCHANGED vars
  BY <1>13 DEF vars
<1> QED
  BY <1>1, <1>2, <1>3, <1>4, <1>5, <1>6, <1>7, <1>8, <1>9, <1>10, <1>11, <1>12, <1>13 DEF Next

LEMMA StageStep == IInv /\ [Next]_vars => StageInv'
<1> SUFFICES ASSUME IInv, [Next]_vars PROVE StageInv'
  OBVIOUS
<1> USE BlockingAssumption DEF IInv, TypeOK, OnPool, StageInv
<1>1. ASSUME NEW m \in Threads \cup Calls, NEW c \in Calls, Call(m, c) PROVE StageInv'
  BY <1>1 DEF Call, Waiting
<1>2. ASSUME NEW c \in Calls, Run(c) PROVE StageInv'
  BY <1>2 DEF Run
<1>3. ASSUME NEW c \in Calls, Await(c) PROVE StageInv'
  BY <1>3 DEF Await
<1>4. ASSUME NEW c \in Calls, Resume(c) PROVE StageInv'
  BY <1>4 DEF Resume
<1>5. ASSUME NEW c \in Calls, OffPool(c) PROVE StageInv'
  BY <1>5 DEF OffPool
<1>6. ASSUME NEW c \in Calls, RunClosure(c) PROVE StageInv'
  BY <1>6 DEF RunClosure
<1>7. ASSUME NEW c \in Calls, ResumeContinuation(c) PROVE StageInv'
  BY <1>7 DEF ResumeContinuation
<1>8. ASSUME NEW c \in Calls, Configure(c) PROVE StageInv'
  BY <1>8 DEF Configure
<1>9. ASSUME NEW c \in Calls, Configured(c) PROVE StageInv'
  BY <1>9 DEF Configured
<1>10. ASSUME NEW c \in Calls, Finish(c) PROVE StageInv'
  BY <1>10 DEF Finish
<1>11. ASSUME NEW c \in Calls, Signal(c) PROVE StageInv'
  BY <1>11 DEF Signal
<1>12. ASSUME NEW c \in Calls, Return(c) PROVE StageInv'
  BY <1>12 DEF Return, Waiting
<1>13. CASE UNCHANGED vars
  BY <1>13 DEF vars
<1> QED
  BY <1>1, <1>2, <1>3, <1>4, <1>5, <1>6, <1>7, <1>8, <1>9, <1>10, <1>11, <1>12, <1>13 DEF Next

LEMMA ParkedStep == IInv /\ [Next]_vars => ParkedInv'
<1> SUFFICES ASSUME IInv, [Next]_vars PROVE ParkedInv'
  OBVIOUS
<1> USE BlockingAssumption DEF IInv, TypeOK, OnPool, StageInv, ParkedInv, Waiting
<1>1. ASSUME NEW m \in Threads \cup Calls, NEW c \in Calls, Call(m, c) PROVE ParkedInv'
  BY <1>1 DEF Call, MayCall
<1>2. ASSUME NEW c \in Calls, Run(c) PROVE ParkedInv'
  BY <1>2 DEF Run
<1>3. ASSUME NEW c \in Calls, Await(c) PROVE ParkedInv'
  BY <1>3 DEF Await
<1>4. ASSUME NEW c \in Calls, Resume(c) PROVE ParkedInv'
  BY <1>4 DEF Resume
<1>5. ASSUME NEW c \in Calls, OffPool(c) PROVE ParkedInv'
  BY <1>5 DEF OffPool
<1>6. ASSUME NEW c \in Calls, RunClosure(c) PROVE ParkedInv'
  BY <1>6 DEF RunClosure
<1>7. ASSUME NEW c \in Calls, ResumeContinuation(c) PROVE ParkedInv'
  BY <1>7 DEF ResumeContinuation
<1>8. ASSUME NEW c \in Calls, Configure(c) PROVE ParkedInv'
  BY <1>8 DEF Configure
<1>9. ASSUME NEW c \in Calls, Configured(c) PROVE ParkedInv'
  BY <1>9 DEF Configured
<1>10. ASSUME NEW c \in Calls, Finish(c) PROVE ParkedInv'
  BY <1>10 DEF Finish
<1>11. ASSUME NEW c \in Calls, Signal(c) PROVE ParkedInv'
  BY <1>11 DEF Signal
<1>12. ASSUME NEW c \in Calls, Return(c) PROVE ParkedInv'
  BY <1>12 DEF Return
<1>13. CASE UNCHANGED vars
  BY <1>13 DEF vars
<1> QED
  BY <1>1, <1>2, <1>3, <1>4, <1>5, <1>6, <1>7, <1>8, <1>9, <1>10, <1>11, <1>12, <1>13 DEF Next

LEMMA SpecIInv == Spec => []IInv
<1>1. IInv /\ [Next]_vars => IInv'
  BY TypeStep, StageStep, ParkedStep DEF IInv
<1> QED
  BY InitIInv, <1>1, PTL DEF Spec

(* Type correctness of `blocking`'s state, semaphore included: it never    *)
(* counts past one, so a task never signals twice.                         *)
THEOREM TypeCorrect == Spec => []TypeOK
BY SpecIInv, PTL DEF IInv

(* What a returned call has left behind is nothing, so a closure lent to   *)
(* `blocking` through `withoutActuallyEscaping` is not used after it.      *)
THEOREM NothingOutlives == Spec => []NothingOutlivesTheCall
<1>1. IInv => NothingOutlivesTheCall
  BY DEF IInv, TypeOK, StageInv, NothingOutlivesTheCall, OnPool
<1> QED
  BY SpecIInv, <1>1, PTL

(* `blocking` gives its maker the body's outcome and never `noOutcome`.    *)
THEOREM OutcomeAlwaysArrives == Spec => []OutcomeArrives
<1>1. IInv => OutcomeArrives
  BY DEF IInv, StageInv, OutcomeArrives
<1> QED
  BY SpecIInv, <1>1, PTL

(* Calls made from a closure come back before the call the closure is for. *)
THEOREM InnerAlwaysReturnsFirst == Spec => []InnerReturnsFirst
<1>1. IInv => InnerReturnsFirst
  BY DEF IInv, StageInv, ParkedInv, InnerReturnsFirst, Waiting
<1> QED
  BY SpecIInv, <1>1, PTL

(* While configuration closures obey their docs, no pool thread is parked, *)
(* whatever the closures that `offPool` runs do.                           *)
THEOREM PoolStaysFree == Spec => []PoolNeverParked
<1>1. IInv => PoolNeverParked
  BY DEF IInv, ParkedInv, PoolNeverParked, OnPool
<1> QED
  BY SpecIInv, <1>1, PTL

-----------------------------------------------------------------------------
(* The refinement.  A call is under way from `blocking` to its return; it  *)
(* ends when its body does, and where its task is meanwhile does not show. *)
LEMMA RefinesInit == Init => Promised!Init
BY DEF Init, Promised!Init, Waiting

(* Only a closure that runs can call, so its call's body has not ended.    *)
LEMMA RefinesCall ==
  ASSUME IInv, NEW m \in Threads \cup Calls, NEW c \in Calls, Call(m, c)
  PROVE  Promised!Call(m, c)
<1> DEFINE underWay == {d \in Calls : Waiting(d)}
<1>1. c \notin underWay /\ Promised!Free(m)
  BY DEF Call, MayCall, Promised!Free
<1>2. m \in Threads \/ (m \in underWay /\ outcome[m] = "nil")
  <2> SUFFICES ASSUME m \notin Threads PROVE m \in underWay /\ outcome[m] = "nil"
    OBVIOUS
  <2>1. m \in Calls /\ closure[m] \in {"awaited", "configuration"}
    BY DEF Call, MayCall
  <2> QED
    BY <2>1 DEF IInv, TypeOK, StageInv, Waiting
<1>3. underWay' = underWay \cup {c}
  <2>1. \A d \in Calls : Waiting(d)' <=> Waiting(d) \/ d = c
    BY DEF Call, Waiting, IInv, TypeOK
  <2> QED
    BY <2>1
<1> QED
  BY <1>1, <1>2, <1>3 DEF Call, Promised!Call

(* A body that is running is in no closure, so no call of its is under way.*)
LEMMA RefinesFinish ==
  ASSUME IInv, NEW c \in Calls, Finish(c)
  PROVE  Promised!End(c)
<1>1. Waiting(c) /\ outcome[c] = "nil"
  BY DEF Finish, IInv, TypeOK, StageInv, Waiting
<1>2. \A d \in Calls : Waiting(d) => maker[d] # c
  BY DEF Finish, IInv, ParkedInv
<1>3. \A d \in Calls : Waiting(d)' <=> Waiting(d)
  BY DEF Finish, IInv, TypeOK, Waiting
<1> QED
  BY <1>1, <1>2, <1>3 DEF Finish, Promised!End, Promised!Free

(* What is signalled has an outcome, which is what the maker gets.         *)
LEMMA RefinesReturn ==
  ASSUME IInv, NEW c \in Calls, Return(c)
  PROVE  Promised!Return(c)
<1> DEFINE underWay == {d \in Calls : Waiting(d)}
<1>1. Waiting(c) /\ outcome[c] # "nil"
  BY DEF Return, IInv, StageInv
<1>2. returned' = [returned EXCEPT ![c] = outcome[c]]
  BY <1>1 DEF Return
<1>3. underWay' = underWay \ {c}
  <2>1. \A d \in Calls : Waiting(d)' <=> Waiting(d) /\ d # c
    BY <1>1, <1>2 DEF Return, Waiting, IInv, TypeOK
  <2> QED
    BY <2>1
<1> QED
  BY <1>1, <1>2, <1>3 DEF Return, Promised!Return

(* The steps of tasks, of closures and of the pool do not show.            *)
LEMMA RefinesHidden ==
  ASSUME IInv, NEW c \in Calls,
         \/ Run(c) \/ Await(c) \/ Resume(c) \/ OffPool(c) \/ RunClosure(c)
         \/ ResumeContinuation(c) \/ Configure(c) \/ Configured(c) \/ Signal(c)
  PROVE  UNCHANGED Promised!vars
<1>1. UNCHANGED <<maker, outcome, returned>>
  BY DEF Run, Await, Resume, OffPool, RunClosure, ResumeContinuation, Configure, Configured, Signal
<1>2. \E where : where # "none" /\ task[c] # "none" /\ task' = [task EXCEPT ![c] = where]
  <2>1. CASE ResumeContinuation(c) \/ Configured(c)
    BY <2>1 DEF ResumeContinuation, Configured, IInv, TypeOK, StageInv
  <2> QED
    BY <2>1 DEF Run, Await, Resume, OffPool, RunClosure, Configure, Signal
<1>3. \A d \in Calls : Waiting(d)' <=> Waiting(d)
  BY <1>1, <1>2 DEF Waiting, IInv, TypeOK
<1> QED
  BY <1>1, <1>3 DEF Promised!vars

LEMMA RefinesNext == IInv /\ [Next]_vars => [Promised!Next]_Promised!vars
<1> SUFFICES ASSUME IInv, [Next]_vars PROVE [Promised!Next]_Promised!vars
  OBVIOUS
<1>1. CASE \E m \in Threads \cup Calls, c \in Calls : Call(m, c)
  BY <1>1, RefinesCall DEF Promised!Next
<1>2. CASE \E c \in Calls : Finish(c) \/ Return(c)
  BY <1>2, RefinesFinish, RefinesReturn DEF Promised!Next
<1>3. CASE \E c \in Calls :
             \/ Run(c) \/ Await(c) \/ Resume(c) \/ OffPool(c) \/ RunClosure(c)
             \/ ResumeContinuation(c) \/ Configure(c) \/ Configured(c) \/ Signal(c)
  BY <1>3, RefinesHidden
<1>4. CASE UNCHANGED vars
  BY <1>4 DEF vars, Waiting, Promised!vars
<1> QED
  BY <1>1, <1>2, <1>3, <1>4 DEF Next

(* `blocking` implements synchronous calls, for any threads, calls, pool   *)
(* and bodies.                                                             *)
THEOREM Refinement == Spec => ImplementsSynchronousCalls
BY SpecIInv, RefinesInit, RefinesNext, PTL DEF Spec, ImplementsSynchronousCalls, Promised!Spec
=============================================================================
