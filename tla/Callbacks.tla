----------------------------- MODULE Callbacks ------------------------------
(***************************************************************************)
(* Rust closures that Swift calls during one bridge call, and how what     *)
(* they throw or panic with gets back to the Rust thread that made the     *)
(* call (src/platform/mod.rs).  The call is the widest one there is,       *)
(* `ContainerManager::create`: `progressing` around `configured`.  Or it   *)
(* is `ingest`, whose body writes into a directory of the store, `mkdir`,  *)
(* whose completion gets the directory, or `enumerate`, whose body Swift   *)
(* calls for one entry after the other.                                    *)
(*                                                                         *)
(* Swift reports progress from several tasks at once and awaits each       *)
(* report, and it calls the configuration closure once, on the value it    *)
(* seeded.  A panic cannot unwind through Swift, so it is kept and resumed *)
(* on the calling thread.                                                  *)
(***************************************************************************)
EXTENDS Naturals

CONSTANTS
  Reporters,   \* Swift tasks that report progress
  MaxReports,  \* bound: reports of one task during one call
  Configurer,  \* names the configuration closure in `result`
  None

Verdicts == {"success", "failure"}

Closures == {"configure", "ingest", "completion", "body"}

Results == [kind : {"panic"}, of : Reporters \cup {Configurer}]
             \cup [kind : {"error"}, of : {"closure", "swift"}]
             \cup [kind : {"ok"}]

ASSUME CallbacksAssumption ==
  /\ MaxReports \in Nat
  /\ Configurer \notin Reporters
  /\ None \notin Reporters \cup {Configurer} \cup Results

VARIABLES
  swift,      \* the Swift call: idle, running, or what it came back with
  report,     \* where each reporter is in `Progress::call`
  reports,    \* how many reports each reporter has made
  kept,       \* `Progress::panic`: whose panic is kept
  closure,    \* the closure Swift is handed besides the progress handler
  configure,  \* where it is: present, running, or how it ended
  error,      \* `Thrown::error`: whose error is kept
  panic,      \* `Thrown::panic`: whose panic is kept
  rust,       \* the calling thread: where it is after Swift returned
  result,     \* what the calling thread ends with
  \* history
  panicked,   \* the closures that panicked during this call
  first,      \* whose panic was kept first
  late        \* handler calls each reporter began with a panic already kept

vars == <<swift, report, reports, kept, closure, configure, error, panic, rust, result, panicked, first, late>>

TypeOK ==
  /\ swift \in {"idle", "running"} \cup Verdicts
  /\ report \in [Reporters -> {"none", "admitted", "handling", "unwound"}]
  /\ reports \in [Reporters -> 0..MaxReports]
  /\ kept \in Reporters \cup {None}
  /\ closure \in Closures
  /\ configure \in {"present", "running", "made", "unmade", "threw"}
  /\ error \in {Configurer, None} /\ panic \in {Configurer, None}
  /\ rust \in {"idle", "waiting", "thrown"}
  /\ result \in Results \cup {None}
  /\ panicked \subseteq Reporters \cup {Configurer}
  /\ first \in Reporters \cup {None}
  /\ late \in [Reporters -> Nat]

Init ==
  /\ swift = "idle" /\ rust = "idle"
  /\ report = [r \in Reporters |-> "none"]
  /\ reports = [r \in Reporters |-> 0]
  /\ kept = None
  /\ closure = "configure" /\ configure = "present"
  /\ error = None /\ panic = None
  /\ result = None
  /\ panicked = {}
  /\ first = None
  /\ late = [r \in Reporters |-> 0]

(* `progressing` and `configured` make a fresh `Panic`, `Configure` and    *)
(* `Thrown`, and call Swift; so do `ingest`, `with_descriptor` and         *)
(* `enumerating`, with a closure of their own and no progress.             *)
Begin ==
  /\ rust = "idle"
  /\ swift' = "running"
  /\ rust' = "waiting"
  /\ reports' = [r \in Reporters |-> 0]
  /\ kept' = None
  /\ closure' \in Closures
  /\ configure' = "present"
  /\ error' = None /\ panic' = None
  /\ result' = None
  /\ panicked' = {}
  /\ first' = None
  /\ late' = [r \in Reporters |-> 0]
  /\ UNCHANGED report

-----------------------------------------------------------------------------
(* Mutant: `caught` is not asked.                                          *)
AdmitAlways(r) ==
  /\ swift = "running" /\ closure = "configure"
  /\ report[r] = "none" /\ reports[r] < MaxReports
  /\ report' = [report EXCEPT ![r] = "admitted"]
  /\ reports' = [reports EXCEPT ![r] = @ + 1]
  /\ UNCHANGED <<swift, closure, kept, configure, error, panic, rust, result, panicked, first, late>>

(* `Progress::call`, to the end of `caught`: the lock is given back here,  *)
(* before the handler is called.                                           *)
Admit(r) ==
  /\ swift = "running" /\ closure = "configure"
  /\ report[r] = "none" /\ reports[r] < MaxReports
  /\ kept = None
  /\ report' = [report EXCEPT ![r] = "admitted"]
  /\ reports' = [reports EXCEPT ![r] = @ + 1]
  /\ UNCHANGED <<swift, closure, kept, configure, error, panic, rust, result, panicked, first, late>>

(* The report is dropped: a panic was caught.                              *)
Refuse(r) ==
  /\ swift = "running" /\ closure = "configure"
  /\ report[r] = "none" /\ reports[r] < MaxReports
  /\ kept # None
  /\ reports' = [reports EXCEPT ![r] = @ + 1]
  /\ UNCHANGED <<swift, closure, report, kept, configure, error, panic, rust, result, panicked, first, late>>

(* `catch` calls the handler.                                              *)
Handle(r) ==
  /\ report[r] = "admitted"
  /\ report' = [report EXCEPT ![r] = "handling"]
  /\ late' = [late EXCEPT ![r] = IF kept # None THEN @ + 1 ELSE @]
  /\ UNCHANGED <<swift, closure, reports, kept, configure, error, panic, rust, result, panicked, first>>

Handled(r) ==
  /\ report[r] = "handling"
  /\ report' = [report EXCEPT ![r] = "none"]
  /\ UNCHANGED <<swift, closure, reports, kept, configure, error, panic, rust, result, panicked, first, late>>

(* Mutant: `catch` drops the payload, so that nothing is kept.             *)
HandlerPanicsUnkept(r) ==
  /\ report[r] = "handling"
  /\ report' = [report EXCEPT ![r] = "none"]
  /\ panicked' = panicked \cup {r}
  /\ UNCHANGED <<swift, closure, reports, kept, configure, error, panic, rust, result, first, late>>

(* The handler panics and `catch_unwind` stops it.                         *)
HandlerPanics(r) ==
  /\ report[r] = "handling"
  /\ report' = [report EXCEPT ![r] = "unwound"]
  /\ panicked' = panicked \cup {r}
  /\ UNCHANGED <<swift, closure, reports, kept, configure, error, panic, rust, result, first, late>>

(* Mutant: a later panic replaces the one that is kept.                    *)
KeepLast(r) ==
  /\ report[r] = "unwound"
  /\ report' = [report EXCEPT ![r] = "none"]
  /\ kept' = r
  /\ first' = IF first = None THEN r ELSE first
  /\ UNCHANGED <<swift, closure, reports, configure, error, panic, rust, result, panicked, late>>

(* `get_or_insert`, under the lock: the first panic to get here stays.     *)
Keep(r) ==
  /\ report[r] = "unwound"
  /\ report' = [report EXCEPT ![r] = "none"]
  /\ kept' = IF kept = None THEN r ELSE kept
  /\ first' = IF first = None THEN r ELSE first
  /\ UNCHANGED <<swift, closure, reports, configure, error, panic, rust, result, panicked, late>>

-----------------------------------------------------------------------------
(* Swift's configuration closure: it fills the seed, and `Configure::call` *)
(* takes Rust's closure and runs it on the seed.  `WithDescriptor::call`   *)
(* takes its closure too, and `ingest`'s is moved into the one it passes;  *)
(* `Enumerate::call` runs its own for each entry.                          *)
RunConfigure ==
  /\ swift = "running" /\ configure = "present"
  /\ configure' = "running"
  /\ UNCHANGED <<swift, closure, report, reports, kept, error, panic, rust, result, panicked, first, late>>

(* `Thrown::threw`: the closure returned Ok.  `make` builds the            *)
(* configuration from the seed, or throws; `ingest` and `mkdir` have       *)
(* called all they will; the walk goes on.                                 *)
ConfigureOk ==
  /\ configure = "running"
  /\ \/ closure = "configure" /\ configure' \in {"made", "unmade"}
     \/ closure \in {"ingest", "completion"} /\ configure' = "made"
     \/ closure = "body" /\ configure' = "present"
  /\ UNCHANGED <<swift, closure, report, reports, kept, error, panic, rust, result, panicked, first, late>>

(* Mutant: the walk goes on though `call` said that the body threw.        *)
ConfigureThrowsUnheard ==
  /\ configure = "running"
  /\ configure' = IF closure = "body" THEN "present" ELSE "threw"
  /\ error' = Configurer
  /\ UNCHANGED <<swift, closure, report, reports, kept, panic, rust, result, panicked, first, late>>

(* It returned an error, which is kept; Swift throws `bodyFailed`.         *)
ConfigureThrows ==
  /\ configure = "running"
  /\ configure' = "threw"
  /\ error' = Configurer
  /\ UNCHANGED <<swift, closure, report, reports, kept, panic, rust, result, panicked, first, late>>

(* It panicked, which is kept; Swift throws `bodyFailed`.                  *)
ConfigurePanics ==
  /\ configure = "running"
  /\ configure' = "threw"
  /\ panic' = Configurer
  /\ panicked' = panicked \cup {Configurer}
  /\ UNCHANGED <<swift, closure, report, reports, kept, error, rust, result, first, late>>

(* Where the closure of a call that succeeds is.  `ingest` has nothing to  *)
(* take in before its body ran; `mkdir` calls its own at most once, and a  *)
(* walk may be over after any number of entries.                           *)
Served ==
  IF closure \in {"configure", "ingest"} THEN {"made"} ELSE {"made", "present"}

(* Swift's call returns, once the reports and the closure it awaits have:  *)
(* it fails if the closure threw, and may fail without it.                 *)
SwiftReturns(verdict) ==
  /\ swift = "running"
  /\ \A r \in Reporters : report[r] = "none"
  /\ configure # "running"
  /\ verdict = "success" => configure \in Served
  /\ swift' = verdict
  /\ UNCHANGED <<closure, report, reports, kept, configure, error, panic, rust, result, panicked, first, late>>

-----------------------------------------------------------------------------
(* Mutant: `Thrown::outcome` reads Swift's outcome before the error.       *)
ThrownOutcomeSwiftFirst ==
  /\ rust = "waiting" /\ swift \in Verdicts
  /\ panic' = None
  /\ error' = IF panic # None THEN error ELSE None
  /\ rust' = IF panic # None THEN "idle" ELSE "thrown"
  /\ result' = IF panic # None THEN [kind |-> "panic", of |-> panic]
               ELSE IF swift = "failure" THEN [kind |-> "error", of |-> "swift"]
               ELSE [kind |-> "ok"]
  /\ UNCHANGED <<swift, closure, report, reports, kept, configure, panicked, first, late>>

(* `Thrown::outcome`: the closure's panic, else its error, else what Swift *)
(* returned.  A panic unwinds through `progressing`, which drops its own.  *)
ThrownOutcome ==
  /\ rust = "waiting" /\ swift \in Verdicts
  /\ panic' = None
  /\ error' = IF panic # None THEN error ELSE None
  /\ rust' = IF panic # None THEN "idle" ELSE "thrown"
  /\ result' = IF panic # None THEN [kind |-> "panic", of |-> panic]
               ELSE IF error # None THEN [kind |-> "error", of |-> "closure"]
               ELSE IF swift = "failure" THEN [kind |-> "error", of |-> "swift"]
               ELSE [kind |-> "ok"]
  /\ UNCHANGED <<swift, closure, report, reports, kept, configure, panicked, first, late>>

(* Mutant: `panic.resume()` is left out of `progressing`, so that what     *)
(* Swift returned is the result whatever the handler did.                  *)
ResumeProgressLeftOut ==
  /\ rust = "thrown"
  /\ rust' = "idle"
  /\ kept' = None
  /\ result' = result
  /\ UNCHANGED <<swift, closure, report, reports, configure, error, panic, panicked, first, late>>

(* `progressing` resumes the handler's panic, in place of what Swift       *)
(* returned, or returns that.                                              *)
ResumeProgress ==
  /\ rust = "thrown"
  /\ rust' = "idle"
  /\ kept' = None
  /\ result' = IF kept # None THEN [kind |-> "panic", of |-> kept] ELSE result
  /\ UNCHANGED <<swift, closure, report, reports, configure, error, panic, panicked, first, late>>

Next ==
  \/ Begin
  \/ \E r \in Reporters :
       Admit(r) \/ Refuse(r) \/ Handle(r) \/ Handled(r) \/ HandlerPanics(r) \/ Keep(r)
  \/ RunConfigure \/ ConfigureOk \/ ConfigureThrows \/ ConfigurePanics
  \/ \E verdict \in Verdicts : SwiftReturns(verdict)
  \/ ThrownOutcome \/ ResumeProgress

Spec == Init /\ [][Next]_vars

-----------------------------------------------------------------------------
Over == rust = "idle" /\ result # None

(* No panic is swallowed and none is made up: the call ends in a panic     *)
(* exactly when a closure panicked.  The configuration closure's wins, and *)
(* among the handler's it is the first one kept.                           *)
PanicsSurface ==
  Over =>
    /\ result.kind = "panic" <=> panicked # {}
    /\ Configurer \in panicked => result.of = Configurer
    /\ result.kind = "panic" /\ Configurer \notin panicked => result.of = first /\ first \in panicked

(* Without a panic the call ends as Swift's did, but for a closure that    *)
(* returned an error, which the caller gets in place of `bodyFailed`.      *)
(* Success means that the configuration closure ran and its configuration  *)
(* was made, that `ingest`'s body ran, and that no call of any closure     *)
(* failed ("If it returns an error, nothing it wrote reaches the store,    *)
(* and `ingest` returns that error", local_content_store.rs:60-61).        *)
ErrorsSurface ==
  Over /\ panicked = {} =>
    /\ result.kind = "ok" => swift = "success" /\ configure \in Served
    /\ result.kind = "error" => swift = "failure"
    /\ result.kind = "error" /\ result.of = "closure" <=> configure = "threw"

(* Reports that were admitted before the panic was kept may still call the *)
(* handler, each reporter at most one of them.                             *)
LateCallsBounded ==
  \A r \in Reporters : late[r] <= 1

(* A task that its handler panicked on never calls it again during that    *)
(* call, not even while the panics of several tasks race for being kept:   *)
(* its `catch` stores its payload, or finds another there, before its next *)
(* report can ask `caught`.                                                *)
PanicEndsItsTasksReports ==
  \A r \in panicked \cap Reporters : report[r] \notin {"admitted", "handling"}

(* What `Progress` says of itself: once the handler panics, it isn't       *)
(* called again.                                                           *)
NotCalledAfterPanic ==
  \A r \in Reporters : late[r] = 0

=============================================================================
