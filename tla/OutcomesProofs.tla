--------------------------- MODULE OutcomesProofs ---------------------------
(****************************************************************************)
(* That calls whose two sides agree are never mistaken, let no failure pass *)
(* and turn nil into None: for every pair of tables, and so for calls that  *)
(* are yet to be added to them.  That the tables of this bridge agree is    *)
(* what SidesAgree of MCOutcomes says.                                      *)
(****************************************************************************)
EXTENDS Outcomes, TLAPS

\* The Err for what was thrown.
Answer(failure) == [ok |-> "Err", error |-> ErrorOf(failure)]

\* A call has begun with arguments that it takes, where it can be made.
CallInv ==
  /\ host \in {"macOS", "elsewhere"}
  /\ phase \in {"idle", "entered", "crossing", "reading", "settled"}
  /\ phase # "idle" => call \in Calls /\ Callable(call) /\ unfit \in Of(Takes, call) \cup {"none"}
  /\ phase = "idle" => unfit = "none"
  /\ phase \in {"crossing", "reading"} => unfit \notin Refused

\* Nothing has happened before Rust begins to read.
QuietInv == phase \in {"idle", "entered", "crossing"} => threw = "none" /\ performed = FALSE

\* What is being read is either a value, that the rest of the reading suits,
FitInv(fits) ==
  phase = "reading" /\ threw = "none" =>
    host = "macOS" /\ performed = TRUE /\ unfit = "none" /\ <<held, reading>> \in fits

\* or a failure, that the reading is about to ask for.
FailureInv ==
  phase = "reading" /\ threw # "none" =>
    /\ Asks(reading, {"error", "message"})
    /\ Head(reading) = "message" => ErrorOf(threw) = "Failed"
    /\ ~Garbles(threw)
    /\ unfit # "none" => performed = FALSE /\ threw \in {"Other", "MacOSOnly"}
    /\ host = "elsewhere" <=> threw = "MacOSOnly"

IInv(fits) ==
  /\ CallInv /\ QuietInv /\ FitInv(fits) /\ FailureInv
  /\ FailureSurfaces /\ NilIsNone

-----------------------------------------------------------------------------
\* What cannot be refused is either whole or rejected.
LEMMA UnfitKinds ==
  ASSUME NEW fits, Agree(fits), NEW c \in Calls, NEW u \in Of(Takes, c) \cup {"none"}
  PROVE  /\ u = "none" \/ u \in Refused \/ u \in Rejected
         /\ u \in Rejected => FailsPlainly(c)
         /\ "none" \notin Refused \cup Rejected
<1>1. Of(Takes, c) \subseteq Refused \cup Rejected
  BY DEF Agree
<1>2. "none" \notin Refused \cup Rejected
  BY DEF Refused, Rejected
<1> QED
  BY <1>1, <1>2 DEF FailsPlainly

\* What errors a failure of each kind becomes.
LEMMA ErrorKinds ==
  ASSUME WordsApart
  PROVE  /\ ErrorOf("Other") = "Failed" /\ ErrorOf("NewCode") = "Failed"
         /\ ErrorOf("MacOSOnly") = "Unavailable"
         /\ "none" \notin Failures /\ "MacOSOnly" \notin Failures
         /\ ~Garbles("Other") /\ ~Garbles("MacOSOnly")
BY DEF WordsApart, ErrorOf, Failures, Garbles

LEMMA NothingGarbled ==
  ASSUME NEW fits, Agree(fits), NEW f
  PROVE  ~Garbles(f)
BY DEF Agree, Garbles

\* The invariant holds at the start.
LEMMA InitIInv ==
  ASSUME NEW fits
  PROVE  Init => IInv(fits)
BY DEF Init, IInv, CallInv, QuietInv, FitInv, FailureInv, FailureSurfaces, NilIsNone

\* A method is called.
LEMMA EnterIInv ==
  ASSUME NEW fits, Agree(fits), IInv(fits), Enter
  PROVE  IInv(fits)'
<1>1. PICK c \in Calls : Callable(c) /\ call' = c /\ unfit' \in Of(Takes, c) \cup {"none"}
  BY DEF Enter
<1>2. phase = "idle" /\ phase' = "entered" /\ UNCHANGED <<host, performed, threw, held, reading, result>>
  BY DEF Enter
<1>3. Callable(c)'
  BY <1>1, <1>2 DEF Callable
<1>4. CallInv'
  BY <1>1, <1>2, <1>3 DEF IInv, CallInv
<1> QED
  BY <1>2, <1>4 DEF IInv, QuietInv, FitInv, FailureInv, FailureSurfaces, NilIsNone

\* An argument that cannot cross is refused; the others cross.
LEMMA CrossIInv ==
  ASSUME NEW fits, Agree(fits), IInv(fits), Cross
  PROVE  IInv(fits)'
<1>1. phase = "entered" /\ UNCHANGED <<host, call, unfit, performed, threw, held, reading>>
  BY DEF Cross
<1>2. CASE unfit \in Refused
  <2>1. phase' = "settled" /\ result' = [ok |-> "Err", error |-> "Failed"]
    BY <1>2 DEF Cross
  <2>2. CallInv'
    BY <1>1, <2>1 DEF IInv, CallInv, Callable
  <2>3. threw = "none" /\ performed = FALSE
    BY <1>1 DEF IInv, QuietInv
  <2> QED
    BY <1>1, <1>2, <2>1, <2>2, <2>3 DEF IInv, QuietInv, FitInv, FailureInv, FailureSurfaces, NilIsNone
<1>3. CASE unfit \notin Refused
  <2>1. phase' = "crossing"
    BY <1>3 DEF Cross
  <2> QED
    BY <1>1, <1>3, <2>1 DEF IInv, CallInv, Callable, QuietInv, FitInv, FailureInv, FailureSurfaces, NilIsNone
<1> QED
  BY <1>2, <1>3

\* A failure is left for a reading that asks for it.
LEMMA FailureIInv ==
  ASSUME NEW fits, Agree(fits), IInv(fits), phase = "crossing", phase' = "reading",
         UNCHANGED <<host, call, unfit, result>>,
         threw' # "none", reading' \in Readings(call),
         \/ FailsPlainly(call) /\ threw' = "Other"
         \/ FailsAnyhow(call),
         unfit # "none" => performed' = FALSE /\ threw' \in {"Other", "MacOSOnly"},
         host = "elsewhere" <=> threw' = "MacOSOnly"
  PROVE  IInv(fits)'
<1>1. call \in Calls
  BY DEF IInv, CallInv
<1>2. \/ Asks(reading', {"error", "message"}) /\ threw' = "Other"
      \/ Asks(reading', {"error"})
  BY <1>1 DEF Agree
<1>3. Asks(reading', {"error", "message"}) /\ (Head(reading') = "message" => threw' = "Other")
  BY <1>2 DEF Asks
<1>4. ErrorOf("Other") = "Failed" /\ ~Garbles(threw')
  BY ErrorKinds, NothingGarbled DEF Agree
<1>5. FailureInv'
  BY <1>3, <1>4 DEF FailureInv, ErrorOf, Garbles, Asks
<1>6. CallInv'
  BY DEF IInv, CallInv, Callable
<1> QED
  BY <1>5, <1>6 DEF IInv, QuietInv, FitInv, FailureSurfaces, NilIsNone

LEMMA RejectIInv ==
  ASSUME NEW fits, Agree(fits), IInv(fits), Reject
  PROVE  IInv(fits)'
<1>1. FailsPlainly(call) /\ performed = FALSE
  BY UnfitKinds DEF Reject, IInv, CallInv, QuietInv
<1> QED
  BY <1>1, FailureIInv DEF Reject, Readings

LEMMA ThrowIInv ==
  ASSUME NEW fits, Agree(fits), IInv(fits), Throw
  PROVE  IInv(fits)'
<1>1. unfit = "none"
  BY UnfitKinds DEF Throw, IInv, CallInv
<1>2. \/ FailsAnyhow(call) /\ threw' \in Failures
      \/ FailsPlainly(call) /\ threw' = "Other"
  BY DEF Throw, FailsAnyhow, FailsPlainly
<1>3. threw' # "none" /\ threw' # "MacOSOnly"
  BY <1>2, ErrorKinds DEF Agree
<1> QED
  BY <1>1, <1>2, <1>3, FailureIInv DEF Throw, Readings

LEMMA StandInIInv ==
  ASSUME NEW fits, Agree(fits), IInv(fits), StandIn
  PROVE  IInv(fits)'
<1>1. FailsAnyhow(call) /\ performed = FALSE
  BY DEF StandIn, IInv, CallInv, QuietInv, Callable, FailsAnyhow
<1> QED
  BY <1>1, FailureIInv DEF StandIn, Readings

\* What the closure makes fits every reading of the call.
LEMMA GiveIInv ==
  ASSUME NEW fits, Agree(fits), IInv(fits), Give
  PROVE  IInv(fits)'
<1>1. /\ phase = "crossing" /\ phase' = "reading" /\ host = "macOS" /\ performed' = TRUE
      /\ unfit \notin Rejected /\ UNCHANGED <<host, call, unfit, threw, result>>
      /\ held' \in Returns[call[1]][call[2]] \ {Thrown, ThrownPlainly} /\ reading' \in Readings(call)
  BY DEF Give, Readings
<1>2. call \in Calls /\ threw = "none" /\ unfit = "none"
  BY <1>1, UnfitKinds DEF IInv, CallInv, QuietInv
<1>3. <<held', reading'>> \in fits
  BY <1>1, <1>2 DEF Agree
<1>4. CallInv'
  BY <1>1 DEF IInv, CallInv, Callable
<1> QED
  BY <1>1, <1>2, <1>3, <1>4 DEF IInv, QuietInv, FitInv, FailureInv, FailureSurfaces, NilIsNone

-----------------------------------------------------------------------------
\* A value is being read, and nothing was thrown, whenever a step other than
\* the question for the error is next: then the step suits the value.
LEMMA StepSuits ==
  ASSUME NEW fits, Agree(fits), IInv(fits), phase = "reading", reading = <<>> \/ ~Asks(reading, {"error", "message"})
  PROVE  /\ threw = "none" /\ host = "macOS" /\ performed = TRUE /\ unfit = "none"
         /\ reading = <<>> => held \notin Nils
         /\ reading # <<>> => Suits(held, Head(reading)) /\ Onward(held, reading) \subseteq fits
<1>1. threw = "none"
  BY DEF IInv, FailureInv, Asks
<1>2. host = "macOS" /\ performed = TRUE /\ unfit = "none" /\ <<held, reading>> \in fits
  BY <1>1 DEF IInv, FitInv
<1>3. IF reading = <<>> THEN held \notin Nils
      ELSE Suits(held, Head(reading)) /\ Onward(held, reading) \subseteq fits
  <2>1. \A q \in fits : IF q[2] = <<>> THEN q[1] \notin Nils
                        ELSE Suits(q[1], Head(q[2])) /\ Onward(q[1], q[2]) \subseteq fits
    BY DEF Agree, Typing
  <2> DEFINE q == <<held, reading>>
  <2>2. q[1] = held /\ q[2] = reading
    OBVIOUS
  <2> HIDE DEF q
  <2>3. q \in fits
    BY <1>2 DEF q
  <2> QED
    BY <2>1, <2>2, <2>3
<1> QED
  BY <1>1, <1>2, <1>3

\* The reading goes on with a value that the rest of it fits,
LEMMA GoesOn ==
  ASSUME NEW fits, IInv(fits), phase = "reading", threw = "none", phase' = "reading",
         UNCHANGED <<host, call, unfit, performed, threw, result>>, <<held', reading'>> \in fits
  PROVE  IInv(fits)'
BY DEF IInv, CallInv, Callable, QuietInv, FitInv, FailureInv, FailureSurfaces, NilIsNone

\* or settles, with None for a nil and for nothing else.
LEMMA Settles ==
  ASSUME NEW fits, IInv(fits), phase = "reading", threw = "none", phase' = "settled",
         UNCHANGED <<host, call, unfit, performed, threw, held>>, result'.ok = "None" <=> held \in Nils
  PROVE  IInv(fits)'
<1>1. host = "macOS" /\ performed = TRUE /\ unfit = "none"
  BY DEF IInv, FitInv
<1> QED
  BY <1>1 DEF IInv, CallInv, Callable, QuietInv, FitInv, FailureInv, FailureSurfaces, NilIsNone

\* The step that is next, and the words it is not.
LEMMA StepIs ==
  ASSUME WordsApart, Step \in {"error", "message", "list", "map", "check"} \cup DOMAIN NilOf \cup DOMAIN Getters
  PROVE  phase = "reading" /\ reading # <<>> /\ Step = Head(reading)
<1>1. "none" \notin DOMAIN NilOf
  BY DEF NilOf
<1>2. "none" \notin {"error", "message", "list", "map", "check"} \cup DOMAIN NilOf \cup DOMAIN Getters
  BY <1>1 DEF WordsApart
<1> QED
  BY <1>2 DEF Step

\* Rust asks for the error: what was thrown is the Err for it.
LEMMA AskErrorIInv ==
  ASSUME NEW fits, Agree(fits), IInv(fits), AskError
  PROVE  IInv(fits)'
<1>0. WordsApart
  BY DEF Agree
<1>1. /\ Step \in {"error", "message"} /\ UNCHANGED <<host, call, unfit, performed, threw>>
      /\ phase = "reading" /\ reading # <<>> /\ Step = Head(reading)
  BY <1>0, StepIs DEF AskError
<1>2. CASE threw = "none"
  <2>1. held' = held /\ reading' = Tail(reading) /\ UNCHANGED <<phase, result>>
    BY <1>2 DEF AskError, GoOn
  <2>2. <<held, reading>> \in fits
    BY <1>1, <1>2 DEF IInv, FitInv
  <2>3. Onward(held, reading) \subseteq fits
    <3>1. \A q \in fits : q[2] # <<>> => Onward(q[1], q[2]) \subseteq fits
      BY DEF Agree, Typing
    <3> DEFINE q == <<held, reading>>
    <3>2. q[1] = held /\ q[2] = reading
      OBVIOUS
    <3> HIDE DEF q
    <3>3. q \in fits
      BY <2>2 DEF q
    <3> QED
      BY <3>1, <3>2, <3>3, <1>1
  <2>4. Onward(held, reading) = {<<held, Tail(reading)>>}
    BY <1>0, <1>1 DEF Onward, WordsApart
  <2> QED
    BY <1>1, <1>2, <2>1, <2>3, <2>4, GoesOn
<1>3. CASE threw # "none"
  <2>1. /\ ~Garbles(threw) /\ Asks(reading, {"error", "message"})
        /\ Head(reading) = "message" => ErrorOf(threw) = "Failed"
        /\ unfit # "none" => performed = FALSE /\ threw \in {"Other", "MacOSOnly"}
        /\ host = "elsewhere" <=> threw = "MacOSOnly"
    BY <1>1, <1>3 DEF IInv, FailureInv
  <2>2. phase' = "settled" /\ result' = Answer(threw) /\ UNCHANGED <<held, reading>>
    BY <1>1, <1>3, <2>1 DEF AskError, Settle, Answer
  <2>3. ErrorOf("Other") = "Failed" /\ ErrorOf("MacOSOnly") = "Unavailable"
    BY <1>0, ErrorKinds
  <2>4. FailureSurfaces'
    <3>1. ErrorOf(threw)' = ErrorOf(threw)
      BY <1>1 DEF ErrorOf
    <3> QED
      BY <1>1, <1>3, <2>1, <2>2, <2>3, <3>1 DEF FailureSurfaces, Answer
  <2>5. CallInv' /\ QuietInv' /\ FitInv(fits)' /\ FailureInv' /\ NilIsNone'
    BY <1>1, <1>3, <2>2 DEF IInv, CallInv, Callable, QuietInv, FitInv, FailureInv, NilIsNone
  <2> QED
    BY <2>4, <2>5 DEF IInv
<1> QED
  BY <1>2, <1>3

\* Rust asks whether there is a value: not is None.
LEMMA AskPresenceIInv ==
  ASSUME NEW fits, Agree(fits), IInv(fits), AskPresence
  PROVE  IInv(fits)'
<1>0. WordsApart
  BY DEF Agree
<1>1. /\ Step \in DOMAIN NilOf /\ UNCHANGED <<host, call, unfit, performed, threw>>
      /\ phase = "reading" /\ reading # <<>> /\ Step = Head(reading)
  BY <1>0, StepIs DEF AskPresence
<1>2. /\ threw = "none" /\ Suits(held, Step) /\ Onward(held, reading) \subseteq fits
  BY <1>0, <1>1, StepSuits DEF Asks, WordsApart
<1>3. ~(held = Unreachable \/ (Step \in DOMAIN Getters /\ held \notin Getters[Step]))
  BY <1>1, <1>2 DEF Suits
<1>4. CASE held = NilOf[Step]
  <2>1. phase' = "settled" /\ result' = [ok |-> "None", error |-> "none"] /\ UNCHANGED <<held, reading>>
    BY <1>3, <1>4 DEF AskPresence, Settle
  <2>2. held \in Nils
    BY <1>1, <1>4 DEF Nils
  <2> QED
    BY <1>1, <1>2, <2>1, <2>2, Settles
<1>5. CASE held # NilOf[Step]
  <2>1. held' = held /\ reading' = Tail(reading) /\ UNCHANGED <<phase, result>>
    BY <1>3, <1>5 DEF AskPresence, GoOn
  <2>2. Onward(held, reading) = {<<held, Tail(reading)>>}
    BY <1>0, <1>1, <1>5 DEF Onward, WordsApart
  <2> QED
    BY <1>1, <1>2, <2>1, <2>2, GoesOn
<1> QED
  BY <1>4, <1>5

\* Rust takes a list or a map apart.
LEMMA EachIInv ==
  ASSUME NEW fits, Agree(fits), IInv(fits), Each
  PROVE  IInv(fits)'
<1>0. WordsApart
  BY DEF Agree
<1>1. /\ Step \in {"list", "map"} /\ UNCHANGED <<host, call, unfit, performed, threw>>
      /\ phase = "reading" /\ reading # <<>> /\ Step = Head(reading)
  BY <1>0, StepIs DEF Each
<1>2. /\ threw = "none" /\ Suits(held, Step) /\ Onward(held, reading) \subseteq fits
  BY <1>0, <1>1, StepSuits DEF Asks
<1>3. Head(held) = Step /\ held \notin Nils
  BY <1>1, <1>2 DEF Suits
<1>4. CASE GoOn(Tail(held), Tail(reading))
  <2>1. Onward(held, reading) = {<<Tail(held), Tail(reading)>>}
    BY <1>1 DEF Onward
  <2> QED
    BY <1>1, <1>2, <1>4, <2>1, GoesOn DEF GoOn
<1>5. CASE Settle("Ok", "none")
  BY <1>1, <1>2, <1>3, <1>5, Settles DEF Settle
<1> QED
  BY <1>3, <1>4, <1>5 DEF Each

\* A getter takes what it expects, and its fields are read like calls.
LEMMA GetIInv ==
  ASSUME NEW fits, Agree(fits), IInv(fits), Get
  PROVE  IInv(fits)'
<1>0. WordsApart
  BY DEF Agree
<1>1. /\ Step \in DOMAIN Getters \ DOMAIN NilOf /\ UNCHANGED <<host, call, unfit, performed, threw>>
      /\ phase = "reading" /\ reading # <<>> /\ Step = Head(reading)
  BY <1>0, StepIs DEF Get
<1>2. Step \notin {"error", "message", "list", "map", "check"}
  BY <1>0, <1>1 DEF WordsApart
<1>3. /\ threw = "none" /\ Suits(held, Step) /\ Onward(held, reading) \subseteq fits
  BY <1>1, <1>2, StepSuits DEF Asks
<1>4. held \in Getters[Step] /\ (Step \in DOMAIN Fields => held \notin Nils)
  BY <1>1, <1>3 DEF Suits
<1>5. CASE Step \notin DOMAIN Fields /\ GoOn(held, Tail(reading))
  <2>1. Onward(held, reading) = {<<held, Tail(reading)>>}
    BY <1>1, <1>2, <1>5 DEF Onward
  <2> QED
    BY <1>1, <1>3, <1>5, <2>1, GoesOn DEF GoOn
<1>6. CASE Step \in DOMAIN Fields /\ Settle("Ok", "none")
  BY <1>1, <1>3, <1>4, <1>6, Settles DEF Settle
<1>7. ASSUME Step \in DOMAIN Fields, NEW f \in DOMAIN Fields[Step], NEW t \in Parts[Step][f],
             GoOn(t, Fields[Step][f])
      PROVE  IInv(fits)'
  <2>1. <<t, Fields[Step][f]>> \in Onward(held, reading)
    BY <1>1, <1>2, <1>7 DEF Onward
  <2> QED
    BY <1>1, <1>3, <1>7, <2>1, GoesOn DEF GoOn
<1> QED
  BY <1>4, <1>5, <1>6, <1>7 DEF Get

\* Rust's own type may refuse a value that crossed.
LEMMA CheckIInv ==
  ASSUME NEW fits, Agree(fits), IInv(fits), Check
  PROVE  IInv(fits)'
<1>0. WordsApart
  BY DEF Agree
<1>1. /\ Step = "check" /\ UNCHANGED <<host, call, unfit, performed, threw>>
      /\ phase = "reading" /\ reading # <<>> /\ Step = Head(reading)
  BY <1>0, StepIs DEF Check
<1>2. /\ threw = "none" /\ Suits(held, Step) /\ Onward(held, reading) \subseteq fits
  BY <1>1, StepSuits DEF Asks
<1>3. held \notin Nils
  BY <1>1, <1>2 DEF Suits
<1>4. CASE GoOn(held, Tail(reading))
  <2>1. Onward(held, reading) = {<<held, Tail(reading)>>}
    BY <1>0, <1>1 DEF Onward, WordsApart
  <2> QED
    BY <1>1, <1>2, <1>4, <2>1, GoesOn DEF GoOn
<1>5. CASE Settle("Err", "Failed")
  BY <1>1, <1>2, <1>3, <1>5, Settles DEF Settle
<1> QED
  BY <1>4, <1>5 DEF Check

\* The reading is over, and no nil is left in it.
LEMMA FinishIInv ==
  ASSUME NEW fits, Agree(fits), IInv(fits), Finish
  PROVE  IInv(fits)'
<1>1. phase = "reading" /\ reading = <<>>
  BY DEF Finish
<1>2. threw = "none" /\ held \notin Nils
  BY <1>1, StepSuits
<1> QED
  BY <1>1, <1>2, Settles DEF Finish, Settle

\* The caller has its answer.
LEMMA ReturnIInv ==
  ASSUME NEW fits, IInv(fits), Return
  PROVE  IInv(fits)'
BY DEF Return, IInv, CallInv, QuietInv, FitInv, FailureInv, FailureSurfaces, NilIsNone

\* Every step keeps the invariant.
LEMMA NextIInv ==
  ASSUME NEW fits, Agree(fits)
  PROVE  IInv(fits) /\ [Next]_vars => IInv(fits)'
<1> SUFFICES ASSUME IInv(fits), [Next]_vars
             PROVE  IInv(fits)'
  OBVIOUS
<1>1. CASE Enter \/ Cross
  BY <1>1, EnterIInv, CrossIInv
<1>2. CASE Reject \/ Give \/ Throw \/ StandIn
  BY <1>2, RejectIInv, GiveIInv, ThrowIInv, StandInIInv
<1>3. CASE AskError \/ AskPresence \/ Each
  BY <1>3, AskErrorIInv, AskPresenceIInv, EachIInv
<1>4. CASE Get \/ Check \/ Finish
  BY <1>4, GetIInv, CheckIInv, FinishIInv
<1>5. CASE Return
  BY <1>5, ReturnIInv
<1>6. CASE UNCHANGED vars
  BY <1>6 DEF vars, IInv, CallInv, Callable, QuietInv, FitInv, FailureInv, Garbles, ErrorOf, FailureSurfaces, NilIsNone
<1> QED
  BY <1>1, <1>2, <1>3, <1>4, <1>5, <1>6 DEF Next, Read

-----------------------------------------------------------------------------
\* If the two sides of every call agree, no call ends in a getter's
\* `preconditionFailure`, nor in a stand-in's `unreachable!`.
THEOREM AgreeingIsNeverMistaken ==
  ASSUME NEW CONSTANT fits, Agree(fits)
  PROVE  Spec => []NeverMistaken
<1>1. Init => IInv(fits)
  BY InitIInv
<1>2. IInv(fits) /\ [Next]_vars => IInv(fits)'
  BY NextIInv
<1>3. IInv(fits) => NeverMistaken
  BY DEF IInv, CallInv, NeverMistaken
<1> QED
  BY <1>1, <1>2, <1>3, PTL DEF Spec

\* If they agree, every failure, and every argument that cannot cross whole,
\* surfaces as the Err for it, and nothing is done for the latter.
THEOREM AgreeingSurfacesFailures ==
  ASSUME NEW CONSTANT fits, Agree(fits)
  PROVE  Spec => []FailureSurfaces
<1>1. Init => IInv(fits)
  BY InitIInv
<1>2. IInv(fits) /\ [Next]_vars => IInv(fits)'
  BY NextIInv
<1>3. IInv(fits) => FailureSurfaces
  BY DEF IInv
<1> QED
  BY <1>1, <1>2, <1>3, PTL DEF Spec

\* If they agree, Swift's nil is Rust's None, and None stands for nothing else.
THEOREM AgreeingMakesNilNone ==
  ASSUME NEW CONSTANT fits, Agree(fits)
  PROVE  Spec => []NilIsNone
<1>1. Init => IInv(fits)
  BY InitIInv
<1>2. IInv(fits) /\ [Next]_vars => IInv(fits)'
  BY NextIInv
<1>3. IInv(fits) => NilIsNone
  BY DEF IInv
<1> QED
  BY <1>1, <1>2, <1>3, PTL DEF Spec

=============================================================================
