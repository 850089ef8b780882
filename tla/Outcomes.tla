------------------------------ MODULE Outcomes ------------------------------
(****************************************************************************)
(* How a value made in Swift becomes a value in Rust.                       *)
(*                                                                          *)
(* Every throwing call of the bridge returns a `CzOutcome`: a box holding   *)
(* either what a closure made, of a type nobody declares, or what it threw. *)
(* Rust turns its arguments into something that can cross, calls, asks      *)
(* `error`, and then takes the box apart with getters that each cast it to  *)
(* the one type they expect, and trap if it holds another.  The two sides   *)
(* of each call are written in two languages and meet only at run time, so  *)
(* this module takes them as two tables, translated apart from each other,  *)
(* and runs every call through both.                                        *)
(*                                                                          *)
(* A dynamic type is a sequence of words: <<"Platform">>, or                *)
(* <<"list", "Platform">>, or <<"map", "Text">>.  What Rust does with an    *)
(* outcome is a sequence of steps: <<"error", "list", "platform">>.         *)
(****************************************************************************)
EXTENDS Sequences, TLC

CONSTANTS
  Returns,  \* Swift: object -> call -> the types its closure can give
  Casts,    \* Swift: a file's own getter -> the types it takes
  Parts,    \* Swift: value -> field with an outcome of its own -> its types
  Carries,  \* Swift: a thrown error that crosses whole -> what its case carries
  Takes,    \* Rust: object -> call -> the kinds of arguments that may not fit
  Reads,    \* Rust: object -> call -> the readings of the outcome
  Fields,   \* Rust: value -> field with an outcome of its own -> its reading
  Handles,  \* Rust, off macOS: object -> call -> the handles it takes
  Inhabited, \* Rust, off macOS: the handles there are
  Inspects  \* Rust: a thrown error that crosses whole -> what Rust asks of it

ASSUME SidesMeet ==
  /\ DOMAIN Returns = DOMAIN Reads
  /\ \A o \in DOMAIN Returns : DOMAIN Returns[o] = DOMAIN Reads[o]
  /\ DOMAIN Returns = DOMAIN Handles
  /\ \A o \in DOMAIN Returns : DOMAIN Returns[o] = DOMAIN Handles[o]
  /\ DOMAIN Parts = DOMAIN Fields
  /\ \A v \in DOMAIN Parts : DOMAIN Parts[v] = DOMAIN Fields[v]
  /\ DOMAIN Carries = DOMAIN Inspects

-----------------------------------------------------------------------------
(* What an outcome can hold.                                                *)

\* `absent(nil)`, which `isSome` tells apart from every other value.
Absent == <<"Absent">>

\* A `nil` that was not made `Absent`: only a getter of an optional takes it.
Nil == <<"nil">>

\* What `throw` leaves in place of a value; the second, of a body that throws
\* nothing but errors of the bridge.
Thrown == <<"thrown">>
ThrownPlainly == <<"thrown", "plainly">>

\* What a stand-in's outcome holds: its getters are all `unreachable!`.
Unreachable == <<"unreachable">>

\* What a body marked `try` can give, and what an optional one can.
Try(types) == types \cup {Thrown}
Maybe(types) == types \cup {Absent}

\* What a closure can throw: an error of no particular kind, among them
\* BridgeError; a ContainerizationError, of a code Rust knows or not; and the
\* cases of the two errors that cross with what they hold.
Failures == {"Other", "KnownCode", "NewCode"} \cup DOMAIN Carries

\* The getters that every outcome has.  `number` and `strings` also take the
\* tuple of a delete, and `bytes` an address's bytes; `hasBytes` and `bytes`
\* take an optional, and so a nil.
CommonCasts == [
  boolean |-> {<<"Bool">>},
  int32 |-> {<<"Int32">>},
  integer |-> {<<"Int64">>},
  number |-> {<<"UInt64">>, <<"deleted and freed">>},
  wide |-> {<<"UInt128">>},
  text |-> {<<"Text">>},
  strings |-> {<<"list", "Text">>, <<"deleted and freed">>},
  textMap |-> {<<"map", "Text">>},
  hasBytes |-> {<<"Data">>, Nil},
  bytes |-> {<<"Data">>, Nil, <<"list", "UInt8">>}]

Getters == CommonCasts @@ Casts

-----------------------------------------------------------------------------

VARIABLES
  host,      \* "macOS", or "elsewhere", where stand-ins take Swift's place
  call,      \* the <<object, call>> being made, or <<>>
  phase,     \* "idle", "entered", "crossing", "reading", "settled", "crashed"
  unfit,     \* the argument that does not fit Swift, or "none"
  performed, \* whether Containerization was asked to act
  threw,     \* what the closure threw, or "none"
  held,      \* the type of what the outcome holds
  reading,   \* the steps Rust has left
  result     \* what the Rust call returns

vars == <<host, call, phase, unfit, performed, threw, held, reading, result>>

Calls == UNION {{o} \X DOMAIN Returns[o] : o \in DOMAIN Returns}

\* A row of a table that lists only the calls with something to say.
Of(table, c) ==
  IF c[1] \in DOMAIN table /\ c[2] \in DOMAIN table[c[1]] THEN table[c[1]][c[2]] ELSE {}

\* What may not fit, by where that is found out: a path that is not UTF-8,
\* before Rust calls at all; and, in the closure, a count above Int.max, a
\* name that is not one component of a path, and a path lent inside a value.
Refused == {"path"}
Rejected == {"count", "name", "lent path"}

Nothing == [ok |-> "Ok", error |-> "none"]

Init ==
  /\ host \in {"macOS", "elsewhere"}
  /\ call = <<>>
  /\ phase = "idle"
  /\ unfit = "none"
  /\ performed = FALSE
  /\ threw = "none"
  /\ held = Absent
  /\ reading = <<>>
  /\ result = Nothing

-----------------------------------------------------------------------------
(* The call.                                                                *)

\* What can be called: off macOS, only what takes no uninhabited handle.
Callable(c) == host = "elsewhere" => Handles[c[1]][c[2]] \subseteq Inhabited

\* A Rust method is called, with arguments that all fit or with one that
\* does not.
Enter ==
  /\ phase = "idle"
  /\ \E c \in Calls :
       /\ Callable(c)
       /\ call' = c
       /\ unfit' \in Of(Takes, c) \cup {"none"}
  /\ phase' = "entered"
  /\ UNCHANGED <<host, performed, threw, held, reading, result>>

\* Rust turns its arguments into what can cross.  `platform::path(path)?`
\* and its like return before Swift is called at all.
Cross ==
  /\ phase = "entered"
  /\ IF unfit \in Refused
     THEN /\ phase' = "settled"
          /\ result' = [ok |-> "Err", error |-> "Failed"]
     ELSE phase' = "crossing" /\ UNCHANGED result
  /\ UNCHANGED <<host, call, unfit, performed, threw, held, reading>>

\* The closure of `CzOutcome` or of `awaiting` throws for an argument it
\* cannot convert, before it acts.
Reject ==
  /\ host = "macOS" /\ phase = "crossing" /\ unfit \in Rejected
  /\ threw' = "Other"
  /\ held' = Nil
  /\ reading' \in Reads[call[1]][call[2]]
  /\ phase' = "reading"
  /\ UNCHANGED <<host, call, unfit, performed, result>>

\* The closure acts, and the outcome keeps what it made.
Give ==
  /\ host = "macOS" /\ phase = "crossing" /\ unfit \notin Rejected
  /\ performed' = TRUE
  /\ held' \in Returns[call[1]][call[2]] \ {Thrown, ThrownPlainly}
  /\ reading' \in Reads[call[1]][call[2]]
  /\ phase' = "reading"
  /\ UNCHANGED <<host, call, unfit, threw, result>>

\* The closure acts, and the outcome keeps what that threw.
Throw ==
  /\ host = "macOS" /\ phase = "crossing" /\ unfit \notin Rejected
  /\ \/ Thrown \in Returns[call[1]][call[2]] /\ threw' \in Failures
     \/ ThrownPlainly \in Returns[call[1]][call[2]] /\ threw' = "Other"
  /\ performed' = TRUE
  /\ held' = Nil
  /\ reading' \in Reads[call[1]][call[2]]
  /\ phase' = "reading"
  /\ UNCHANGED <<host, call, unfit, result>>

\* Off macOS, a stand-in makes an outcome that is a failure, whatever its
\* arguments, and asks nobody to act.
StandIn ==
  /\ host = "elsewhere" /\ phase = "crossing"
  /\ threw' = "MacOSOnly"
  /\ held' = Unreachable
  /\ reading' \in Reads[call[1]][call[2]]
  /\ phase' = "reading"
  /\ UNCHANGED <<host, call, unfit, performed, result>>

-----------------------------------------------------------------------------
(* The reading.                                                             *)

Step == IF phase = "reading" /\ reading # <<>> THEN Head(reading) ELSE "none"

Settle(ok, error) ==
  /\ phase' = "settled"
  /\ result' = [ok |-> ok, error |-> error]
  /\ UNCHANGED <<held, reading>>

GoOn(type, steps) ==
  /\ held' = type
  /\ reading' = steps
  /\ UNCHANGED <<phase, result>>

\* A getter's cast fails: `preconditionFailure`, and the process ends.
Trap ==
  /\ phase' = "crashed"
  /\ UNCHANGED <<held, reading, result>>

\* The Error that `platform::outcome` makes of what was thrown: the two that
\* cross with what they hold first, then the code, if Rust knows it; and off
\* macOS, that nothing was attempted.
ErrorOf(failure) ==
  IF failure \in DOMAIN Carries THEN failure
  ELSE IF failure = "KnownCode" THEN "Coded"
  ELSE IF failure = "MacOSOnly" THEN "Unavailable"
  ELSE "Failed"

\* Rust asks an error for what its case does not carry, which traps too.
Garbles(failure) == failure \in DOMAIN Carries /\ ~(Inspects[failure] \subseteq Carries[failure])

\* `platform::outcome`, which every reading but an infallible one begins with;
\* or the message alone, for an `io::Error`.
AskError ==
  /\ Step \in {"error", "message"}
  /\ IF threw = "none" THEN GoOn(held, Tail(reading))
     ELSE IF Step = "error" /\ Garbles(threw) THEN Trap
     ELSE Settle("Err", IF Step = "error" THEN ErrorOf(threw) ELSE "Failed")
  /\ UNCHANGED <<host, call, unfit, performed, threw>>

\* The questions that come before a value that may not be there, and the nil
\* each tells apart: `isSome` of an outcome, `hasBytes` of a `Data?`, and
\* `isSome` of a content.
NilOf == [optional |-> Absent, hasBytes |-> Nil, holdsContent |-> <<"CzContent", "nil">>]
Nils == {NilOf[q] : q \in DOMAIN NilOf}

AskPresence ==
  /\ Step \in DOMAIN NilOf
  /\ IF held = Unreachable \/ (Step \in DOMAIN Getters /\ held \notin Getters[Step]) THEN Trap
     ELSE IF held = NilOf[Step] THEN Settle("None", "none")
     ELSE GoOn(held, Tail(reading))
  /\ UNCHANGED <<host, call, unfit, performed, threw>>

\* `len` and `at`, of a list that may be empty, and `entryKeys` and
\* `entryValues`, of a map.
Each ==
  /\ Step \in {"list", "map"}
  /\ IF Head(held) # Step THEN Trap
     ELSE \/ GoOn(Tail(held), Tail(reading))
          \/ Settle("Ok", "none")
  /\ UNCHANGED <<host, call, unfit, performed, threw>>

\* A getter takes what the outcome holds as the type it expects.  A value
\* read field by field goes on with one of the fields that come back as
\* outcomes of their own.
Get ==
  /\ Step \in DOMAIN Getters \ DOMAIN NilOf
  /\ IF held \notin Getters[Step] THEN Trap
     ELSE \/ Step \notin DOMAIN Fields /\ GoOn(held, Tail(reading))
          \/ Step \in DOMAIN Fields /\ Settle("Ok", "none")
          \/ /\ Step \in DOMAIN Fields
             /\ \E f \in DOMAIN Fields[Step] :
                  \E t \in Parts[Step][f] : GoOn(t, Fields[Step][f])
  /\ UNCHANGED <<host, call, unfit, performed, threw>>

\* A value that crossed may still be one that Rust's type cannot hold, and
\* then Rust returns an error of its own.
Check ==
  /\ Step = "check"
  /\ GoOn(held, Tail(reading)) \/ Settle("Err", "Failed")
  /\ UNCHANGED <<host, call, unfit, performed, threw>>

Finish ==
  /\ phase = "reading" /\ reading = <<>>
  /\ Settle("Ok", "none")
  /\ UNCHANGED <<host, call, unfit, performed, threw>>

\* The caller has its answer, and may make another call.
Return ==
  /\ phase = "settled"
  /\ call' = <<>>
  /\ phase' = "idle"
  /\ unfit' = "none"
  /\ performed' = FALSE
  /\ threw' = "none"
  /\ held' = Absent
  /\ reading' = <<>>
  /\ result' = Nothing
  /\ UNCHANGED host

Read == AskError \/ AskPresence \/ Each \/ Get \/ Check \/ Finish

Next == Enter \/ Cross \/ Reject \/ Give \/ Throw \/ StandIn \/ Read \/ Return

Spec == Init /\ [][Next]_vars

-----------------------------------------------------------------------------
(* When the tables of the two sides agree, as a compiler that saw both      *)
(* would put it: a typing of the readings.                                  *)

\* Whether a step can take a value of a type, and leaves no nil unasked.
Suits(type, step) ==
  /\ step \in DOMAIN NilOf => type # Unreachable /\ (step \in DOMAIN Getters => type \in Getters[step])
  /\ step \in {"list", "map"} => Head(type) = step
  /\ step \in DOMAIN Getters \ DOMAIN NilOf => type \in Getters[step]
  /\ step \in {"list", "map", "check"} \cup DOMAIN Fields => type \notin Nils

\* What is left to be read, and of what type, after the first step.
Onward(type, steps) ==
  LET step == Head(steps)
  IN  IF step \in {"list", "map"} THEN {<<Tail(type), Tail(steps)>>}
      ELSE IF step \in DOMAIN Fields
      THEN UNION {{<<t, Fields[step][f]>> : t \in Parts[step][f]} : f \in DOMAIN Fields[step]}
      ELSE IF step \in DOMAIN NilOf /\ type = NilOf[step] THEN {}
      ELSE {<<type, Tail(steps)>>}

\* A set of types with readings that suit them all the way down.
Typing(fits) ==
  \A p \in fits :
    IF p[2] = <<>> THEN p[1] \notin Nils
    ELSE Suits(p[1], Head(p[2])) /\ Onward(p[1], p[2]) \subseteq fits

\* The calls whose outcome can be a failure: of any kind, or with no more to
\* it than its message.
FailsAnyhow(c) == Thrown \in Returns[c[1]][c[2]] \/ Handles[c[1]][c[2]] \subseteq Inhabited
FailsPlainly(c) == ThrownPlainly \in Returns[c[1]][c[2]] \/ Of(Takes, c) \cap Rejected # {}

\* The readings of a call, and whether they begin by asking for the error.
Readings(c) == Reads[c[1]][c[2]]
Asks(r, questions) == r # <<>> /\ Head(r) \in questions

\* No word means two things to a reading.
WordsApart ==
  /\ {"none", "error", "message", "list", "map", "check"} \cap DOMAIN Getters = {}
  /\ {"error", "message", "list", "map", "check"} \cap DOMAIN NilOf = {}
  /\ DOMAIN Fields \subseteq DOMAIN Getters \ DOMAIN NilOf
  /\ {"none", "Other", "KnownCode", "NewCode", "MacOSOnly"} \cap DOMAIN Carries = {}

\* The sides agree, by a typing, if it types what each call can give, and if
\* what can fail is read by asking for the error first.
Agree(fits) ==
  /\ WordsApart
  /\ Typing(fits)
  /\ \A c \in Calls :
       /\ \A t \in Returns[c[1]][c[2]] \ {Thrown, ThrownPlainly}, r \in Readings(c) : <<t, r>> \in fits
       /\ FailsAnyhow(c) => \A r \in Readings(c) : Asks(r, {"error"})
       /\ FailsPlainly(c) => \A r \in Readings(c) : Asks(r, {"error", "message"})
       /\ Of(Takes, c) \subseteq Refused \cup Rejected
  /\ \A f \in DOMAIN Carries : Inspects[f] \subseteq Carries[f]

-----------------------------------------------------------------------------

\* No call of any object, whatever its closure gives, ends in a getter's
\* `preconditionFailure`: what the Swift side of the call makes is what the
\* Rust side of it takes, all the way down.  Nor, off macOS, in a stand-in's
\* `unreachable!`.
NeverMistaken == phase # "crashed"

\* A failure surfaces as the Err for it and as nothing else: no reading
\* passes over what was thrown to a value, to None, or to another error, and
\* an argument that cannot cross whole is an Err before Containerization is
\* asked to act on anything.  Off macOS every call that would reach Swift is
\* Err(Unavailable).
FailureSurfaces ==
  phase = "settled" =>
    /\ threw # "none" => result = [ok |-> "Err", error |-> ErrorOf(threw)]
    /\ unfit # "none" =>
         result = [ok |-> "Err", error |-> IF threw = "MacOSOnly" THEN "Unavailable" ELSE "Failed"] /\ ~performed
    /\ (host = "elsewhere" /\ unfit \notin Refused) => result = [ok |-> "Err", error |-> "Unavailable"]

\* Swift's nil is Rust's None, at whatever depth it comes: never a default in
\* its place, and never None for what was there.
NilIsNone ==
  (phase = "settled" /\ threw = "none") =>
    (result.ok = "None" <=> held \in Nils /\ performed)
=============================================================================
