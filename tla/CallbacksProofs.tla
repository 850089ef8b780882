--------------------------- MODULE CallbacksProofs --------------------------
(***************************************************************************)
(* Where a closure's panic or error ends up, for any number of reporters   *)
(* and reports.                                                            *)
(***************************************************************************)
EXTENDS Callbacks, TLAPS

(* The calling thread and the Swift call: the thread waits while Swift     *)
(* runs, and no closure runs once Swift has returned.                      *)
PhaseInv ==
  /\ swift = "running" => rust = "waiting"
  /\ rust = "waiting" => result = None /\ swift # "idle"
  /\ rust = "thrown" => swift \in Verdicts /\ result # None
  /\ swift = "idle" => rust = "idle" /\ result = None
  /\ swift # "running" => configure # "running" /\ \A r \in Reporters : report[r] = "none"
  /\ swift = "success" => configure \in Served
  /\ closure = "body" => configure \notin {"made", "unmade"}

(* A handler's panic is kept or about to be, and the first one stays until *)
(* `progressing` resumes it.                                               *)
KeptInv ==
  /\ rust # "idle" => kept = first
  /\ first # None => first \in panicked
  /\ \A r \in Reporters : report[r] = "unwound" => r \in panicked
  /\ \A r \in panicked \cap Reporters : first # None \/ report[r] = "unwound"

(* `Thrown` holds what the configuration closure threw until it is read.   *)
ThrownInv ==
  /\ rust = "waiting" => /\ panic # None <=> Configurer \in panicked
                         /\ error # None \/ panic # None <=> configure = "threw"
                         /\ error = None \/ panic = None
  /\ rust = "thrown" => /\ Configurer \notin panicked
                        /\ result = IF configure = "threw" THEN [kind |-> "error", of |-> "closure"]
                                    ELSE IF swift = "failure" THEN [kind |-> "error", of |-> "swift"]
                                    ELSE [kind |-> "ok"]

(* A reporter that is late was admitted while no panic was kept.           *)
LateInv ==
  /\ \A r \in Reporters : late[r] \in {0, 1}
  /\ \A r \in Reporters : report[r] = "admitted" => late[r] = 0
  /\ swift = "running" /\ kept = None => \A r \in Reporters : late[r] = 0

(* A reporter that panicked has its payload on the way to `kept`, or has   *)
(* stopped.                                                                *)
StoppedInv ==
  \A r \in panicked \cap Reporters : report[r] \in {"none", "unwound"}

IInv == TypeOK /\ PhaseInv /\ KeptInv /\ ThrownInv /\ LateInv /\ StoppedInv /\ PanicsSurface /\ ErrorsSurface

LEMMA InitIInv == Init => IInv
BY CallbacksAssumption DEF Init, IInv, TypeOK, Closures, Served, PhaseInv, KeptInv, ThrownInv, LateInv, StoppedInv, PanicsSurface, ErrorsSurface, Over, Verdicts, Results

LEMMA TypeStep == TypeOK /\ [Next]_vars => TypeOK'
<1> SUFFICES ASSUME TypeOK, [Next]_vars PROVE TypeOK'
  OBVIOUS
<1> USE CallbacksAssumption DEF TypeOK, Closures, Verdicts, Results
<1>1. CASE Begin
  BY <1>1 DEF Begin
<1>2. ASSUME NEW r \in Reporters, Admit(r) PROVE TypeOK'
  BY <1>2 DEF Admit
<1>3. ASSUME NEW r \in Reporters, Refuse(r) PROVE TypeOK'
  BY <1>3 DEF Refuse
<1>4. ASSUME NEW r \in Reporters, Handle(r) PROVE TypeOK'
  BY <1>4 DEF Handle
<1>5. ASSUME NEW r \in Reporters, Handled(r) PROVE TypeOK'
  BY <1>5 DEF Handled
<1>6. ASSUME NEW r \in Reporters, HandlerPanics(r) PROVE TypeOK'
  BY <1>6 DEF HandlerPanics
<1>7. ASSUME NEW r \in Reporters, Keep(r) PROVE TypeOK'
  BY <1>7 DEF Keep
<1>8. CASE RunConfigure
  BY <1>8 DEF RunConfigure
<1>9. CASE ConfigureOk
  BY <1>9 DEF ConfigureOk
<1>10. CASE ConfigureThrows
  BY <1>10 DEF ConfigureThrows
<1>11. CASE ConfigurePanics
  BY <1>11 DEF ConfigurePanics
<1>12. ASSUME NEW verdict \in Verdicts, SwiftReturns(verdict) PROVE TypeOK'
  BY <1>12 DEF SwiftReturns
<1>13. CASE ThrownOutcome
  BY <1>13 DEF ThrownOutcome
<1>14. CASE ResumeProgress
  BY <1>14 DEF ResumeProgress
<1>15. CASE UNCHANGED vars
  BY <1>15 DEF vars
<1> QED
  BY <1>1, <1>2, <1>3, <1>4, <1>5, <1>6, <1>7, <1>8, <1>9, <1>10, <1>11, <1>12, <1>13, <1>14, <1>15 DEF Next

LEMMA PhaseStep == TypeOK /\ PhaseInv /\ [Next]_vars => PhaseInv'
<1> SUFFICES ASSUME TypeOK, PhaseInv, [Next]_vars PROVE PhaseInv'
  OBVIOUS
<1> USE CallbacksAssumption DEF TypeOK, Closures, Served, PhaseInv, Verdicts, Results
<1>1. CASE Begin
  BY <1>1 DEF Begin
<1>2. ASSUME NEW r \in Reporters, Admit(r) PROVE PhaseInv'
  BY <1>2 DEF Admit
<1>3. ASSUME NEW r \in Reporters, Refuse(r) PROVE PhaseInv'
  BY <1>3 DEF Refuse
<1>4. ASSUME NEW r \in Reporters, Handle(r) PROVE PhaseInv'
  BY <1>4 DEF Handle
<1>5. ASSUME NEW r \in Reporters, Handled(r) PROVE PhaseInv'
  BY <1>5 DEF Handled
<1>6. ASSUME NEW r \in Reporters, HandlerPanics(r) PROVE PhaseInv'
  BY <1>6 DEF HandlerPanics
<1>7. ASSUME NEW r \in Reporters, Keep(r) PROVE PhaseInv'
  BY <1>7 DEF Keep
<1>8. CASE RunConfigure
  BY <1>8 DEF RunConfigure
<1>9. CASE ConfigureOk
  BY <1>9 DEF ConfigureOk
<1>10. CASE ConfigureThrows
  BY <1>10 DEF ConfigureThrows
<1>11. CASE ConfigurePanics
  BY <1>11 DEF ConfigurePanics
<1>12. ASSUME NEW verdict \in Verdicts, SwiftReturns(verdict) PROVE PhaseInv'
  BY <1>12 DEF SwiftReturns
<1>13. CASE ThrownOutcome
  BY <1>13 DEF ThrownOutcome
<1>14. CASE ResumeProgress
  BY <1>14 DEF ResumeProgress
<1>15. CASE UNCHANGED vars
  BY <1>15 DEF vars
<1> QED
  BY <1>1, <1>2, <1>3, <1>4, <1>5, <1>6, <1>7, <1>8, <1>9, <1>10, <1>11, <1>12, <1>13, <1>14, <1>15 DEF Next

LEMMA KeptStep == TypeOK /\ PhaseInv /\ KeptInv /\ [Next]_vars => KeptInv'
<1> SUFFICES ASSUME TypeOK, PhaseInv, KeptInv, [Next]_vars PROVE KeptInv'
  OBVIOUS
<1> USE CallbacksAssumption DEF TypeOK, Closures, PhaseInv, KeptInv, Verdicts
<1>1. CASE Begin
  BY <1>1 DEF Begin
<1>2. ASSUME NEW r \in Reporters, Admit(r) PROVE KeptInv'
  BY <1>2 DEF Admit
<1>3. ASSUME NEW r \in Reporters, Refuse(r) PROVE KeptInv'
  BY <1>3 DEF Refuse
<1>4. ASSUME NEW r \in Reporters, Handle(r) PROVE KeptInv'
  BY <1>4 DEF Handle
<1>5. ASSUME NEW r \in Reporters, Handled(r) PROVE KeptInv'
  BY <1>5 DEF Handled
<1>6. ASSUME NEW r \in Reporters, HandlerPanics(r) PROVE KeptInv'
  BY <1>6 DEF HandlerPanics
<1>7. ASSUME NEW r \in Reporters, Keep(r) PROVE KeptInv'
  BY <1>7 DEF Keep
<1>8. CASE RunConfigure
  BY <1>8 DEF RunConfigure
<1>9. CASE ConfigureOk
  BY <1>9 DEF ConfigureOk
<1>10. CASE ConfigureThrows
  BY <1>10 DEF ConfigureThrows
<1>11. CASE ConfigurePanics
  BY <1>11 DEF ConfigurePanics
<1>12. ASSUME NEW verdict \in Verdicts, SwiftReturns(verdict) PROVE KeptInv'
  BY <1>12 DEF SwiftReturns
<1>13. CASE ThrownOutcome
  BY <1>13 DEF ThrownOutcome
<1>14. CASE ResumeProgress
  BY <1>14 DEF ResumeProgress
<1>15. CASE UNCHANGED vars
  BY <1>15 DEF vars
<1> QED
  BY <1>1, <1>2, <1>3, <1>4, <1>5, <1>6, <1>7, <1>8, <1>9, <1>10, <1>11, <1>12, <1>13, <1>14, <1>15 DEF Next

LEMMA ThrownStep == TypeOK /\ PhaseInv /\ ThrownInv /\ [Next]_vars => ThrownInv'
<1> SUFFICES ASSUME TypeOK, PhaseInv, ThrownInv, [Next]_vars PROVE ThrownInv'
  OBVIOUS
<1> USE CallbacksAssumption DEF TypeOK, Closures, PhaseInv, ThrownInv, Verdicts
<1>1. CASE Begin
  BY <1>1 DEF Begin
<1>2. ASSUME NEW r \in Reporters, Admit(r) PROVE ThrownInv'
  BY <1>2 DEF Admit
<1>3. ASSUME NEW r \in Reporters, Refuse(r) PROVE ThrownInv'
  BY <1>3 DEF Refuse
<1>4. ASSUME NEW r \in Reporters, Handle(r) PROVE ThrownInv'
  BY <1>4 DEF Handle
<1>5. ASSUME NEW r \in Reporters, Handled(r) PROVE ThrownInv'
  BY <1>5 DEF Handled
<1>6. ASSUME NEW r \in Reporters, HandlerPanics(r) PROVE ThrownInv'
  BY <1>6 DEF HandlerPanics
<1>7. ASSUME NEW r \in Reporters, Keep(r) PROVE ThrownInv'
  BY <1>7 DEF Keep
<1>8. CASE RunConfigure
  BY <1>8 DEF RunConfigure
<1>9. CASE ConfigureOk
  BY <1>9 DEF ConfigureOk
<1>10. CASE ConfigureThrows
  BY <1>10 DEF ConfigureThrows
<1>11. CASE ConfigurePanics
  BY <1>11 DEF ConfigurePanics
<1>12. ASSUME NEW verdict \in Verdicts, SwiftReturns(verdict) PROVE ThrownInv'
  BY <1>12 DEF SwiftReturns
<1>13. CASE ThrownOutcome
  BY <1>13 DEF ThrownOutcome
<1>14. CASE ResumeProgress
  BY <1>14 DEF ResumeProgress
<1>15. CASE UNCHANGED vars
  BY <1>15 DEF vars
<1> QED
  BY <1>1, <1>2, <1>3, <1>4, <1>5, <1>6, <1>7, <1>8, <1>9, <1>10, <1>11, <1>12, <1>13, <1>14, <1>15 DEF Next

LEMMA LateStep == TypeOK /\ PhaseInv /\ LateInv /\ [Next]_vars => LateInv'
<1> SUFFICES ASSUME TypeOK, PhaseInv, LateInv, [Next]_vars PROVE LateInv'
  OBVIOUS
<1> USE CallbacksAssumption DEF TypeOK, Closures, PhaseInv, LateInv, Verdicts
<1>1. CASE Begin
  BY <1>1 DEF Begin
<1>2. ASSUME NEW r \in Reporters, Admit(r) PROVE LateInv'
  BY <1>2 DEF Admit
<1>3. ASSUME NEW r \in Reporters, Refuse(r) PROVE LateInv'
  BY <1>3 DEF Refuse
<1>4. ASSUME NEW r \in Reporters, Handle(r) PROVE LateInv'
  BY <1>4 DEF Handle
<1>5. ASSUME NEW r \in Reporters, Handled(r) PROVE LateInv'
  BY <1>5 DEF Handled
<1>6. ASSUME NEW r \in Reporters, HandlerPanics(r) PROVE LateInv'
  BY <1>6 DEF HandlerPanics
<1>7. ASSUME NEW r \in Reporters, Keep(r) PROVE LateInv'
  BY <1>7 DEF Keep
<1>8. CASE RunConfigure
  BY <1>8 DEF RunConfigure
<1>9. CASE ConfigureOk
  BY <1>9 DEF ConfigureOk
<1>10. CASE ConfigureThrows
  BY <1>10 DEF ConfigureThrows
<1>11. CASE ConfigurePanics
  BY <1>11 DEF ConfigurePanics
<1>12. ASSUME NEW verdict \in Verdicts, SwiftReturns(verdict) PROVE LateInv'
  BY <1>12 DEF SwiftReturns
<1>13. CASE ThrownOutcome
  BY <1>13 DEF ThrownOutcome
<1>14. CASE ResumeProgress
  BY <1>14 DEF ResumeProgress
<1>15. CASE UNCHANGED vars
  BY <1>15 DEF vars
<1> QED
  BY <1>1, <1>2, <1>3, <1>4, <1>5, <1>6, <1>7, <1>8, <1>9, <1>10, <1>11, <1>12, <1>13, <1>14, <1>15 DEF Next

(* A report is admitted while nothing is kept, and then KeptInv has all    *)
(* who panicked still on their way to keep it.                             *)
LEMMA StoppedStep == TypeOK /\ PhaseInv /\ KeptInv /\ StoppedInv /\ [Next]_vars => StoppedInv'
<1> SUFFICES ASSUME TypeOK, PhaseInv, KeptInv, StoppedInv, [Next]_vars PROVE StoppedInv'
  OBVIOUS
<1> USE CallbacksAssumption DEF TypeOK, StoppedInv
<1>1. ASSUME NEW r \in Reporters, Admit(r) PROVE StoppedInv'
  <2>1. kept = first /\ kept = None
    BY <1>1 DEF Admit, PhaseInv, KeptInv
  <2>2. r \notin panicked
    BY <2>1, <1>1 DEF Admit, KeptInv
  <2> QED
    BY <2>2, <1>1 DEF Admit
<1>2. ASSUME NEW r \in Reporters, Refuse(r) \/ Handled(r) PROVE StoppedInv'
  BY <1>2 DEF Refuse, Handled
<1>3. ASSUME NEW r \in Reporters, Handle(r) PROVE StoppedInv'
  BY <1>3 DEF Handle
<1>4. ASSUME NEW r \in Reporters, HandlerPanics(r) PROVE StoppedInv'
  BY <1>4 DEF HandlerPanics
<1>5. ASSUME NEW r \in Reporters, Keep(r) PROVE StoppedInv'
  BY <1>5 DEF Keep
<1>6. CASE Begin \/ RunConfigure \/ ConfigureOk \/ ConfigureThrows \/ ConfigurePanics
  BY <1>6 DEF Begin, RunConfigure, ConfigureOk, ConfigureThrows, ConfigurePanics
<1>7. ASSUME NEW verdict \in Verdicts, SwiftReturns(verdict) PROVE StoppedInv'
  BY <1>7 DEF SwiftReturns
<1>8. CASE ThrownOutcome \/ ResumeProgress \/ UNCHANGED vars
  BY <1>8 DEF ThrownOutcome, ResumeProgress, vars
<1> QED
  BY <1>1, <1>2, <1>3, <1>4, <1>5, <1>6, <1>7, <1>8 DEF Next

LEMMA SurfaceStep == IInv /\ [Next]_vars => (PanicsSurface /\ ErrorsSurface)'
<1> SUFFICES ASSUME IInv, [Next]_vars PROVE (PanicsSurface /\ ErrorsSurface)'
  OBVIOUS
<1> USE CallbacksAssumption DEF IInv, TypeOK, Closures, Served, PhaseInv, KeptInv, ThrownInv, PanicsSurface, ErrorsSurface, Over, Verdicts
<1>1. CASE Begin
  BY <1>1 DEF Begin
<1>2. ASSUME NEW r \in Reporters, Admit(r) PROVE (PanicsSurface /\ ErrorsSurface)'
  BY <1>2 DEF Admit
<1>3. ASSUME NEW r \in Reporters, Refuse(r) PROVE (PanicsSurface /\ ErrorsSurface)'
  BY <1>3 DEF Refuse
<1>4. ASSUME NEW r \in Reporters, Handle(r) PROVE (PanicsSurface /\ ErrorsSurface)'
  BY <1>4 DEF Handle
<1>5. ASSUME NEW r \in Reporters, Handled(r) PROVE (PanicsSurface /\ ErrorsSurface)'
  BY <1>5 DEF Handled
<1>6. ASSUME NEW r \in Reporters, HandlerPanics(r) PROVE (PanicsSurface /\ ErrorsSurface)'
  BY <1>6 DEF HandlerPanics
<1>7. ASSUME NEW r \in Reporters, Keep(r) PROVE (PanicsSurface /\ ErrorsSurface)'
  BY <1>7 DEF Keep
<1>8. CASE RunConfigure
  BY <1>8 DEF RunConfigure
<1>9. CASE ConfigureOk
  BY <1>9 DEF ConfigureOk
<1>10. CASE ConfigureThrows
  BY <1>10 DEF ConfigureThrows
<1>11. CASE ConfigurePanics
  BY <1>11 DEF ConfigurePanics
<1>12. ASSUME NEW verdict \in Verdicts, SwiftReturns(verdict) PROVE (PanicsSurface /\ ErrorsSurface)'
  BY <1>12 DEF SwiftReturns
<1>13. CASE ThrownOutcome
  BY <1>13 DEF ThrownOutcome
<1>14. CASE ResumeProgress
  BY <1>14 DEF ResumeProgress
<1>15. CASE UNCHANGED vars
  BY <1>15 DEF vars
<1> QED
  BY <1>1, <1>2, <1>3, <1>4, <1>5, <1>6, <1>7, <1>8, <1>9, <1>10, <1>11, <1>12, <1>13, <1>14, <1>15 DEF Next

LEMMA SpecIInv == Spec => []IInv
<1>1. IInv /\ [Next]_vars => IInv'
  BY TypeStep, PhaseStep, KeptStep, ThrownStep, LateStep, StoppedStep, SurfaceStep DEF IInv
<1> QED
  BY InitIInv, <1>1, PTL DEF Spec

(* The state keeps its types: among others no handler runs unless its task *)
(* reports, and what is kept is a reporter's panic.                        *)
THEOREM TypeCorrect == Spec => []TypeOK
BY SpecIInv, PTL DEF IInv

(* Every panic of a closure surfaces on the thread that called Swift, and  *)
(* it is the right one.                                                    *)
THEOREM PanicsAlwaysSurface == Spec => []PanicsSurface
BY SpecIInv, PTL DEF IInv

(* Without a panic, the caller gets its closure's own error, or else what  *)
(* Swift's call came back with.                                            *)
THEOREM ErrorsAlwaysSurface == Spec => []ErrorsSurface
BY SpecIInv, PTL DEF IInv

(* However many tasks report, each calls the handler at most once more     *)
(* after its panic has been kept.                                          *)
THEOREM LateCallsStayBounded == Spec => []LateCallsBounded
<1>1. \A n \in {0, 1} : n <= 1
  OBVIOUS
<1>2. LateInv => LateCallsBounded
  BY <1>1, Zenon DEF LateInv, LateCallsBounded
<1> QED
  BY SpecIInv, <1>2, PTL DEF IInv

(* However many tasks panic at once, none of them calls the handler again: *)
(* what `catch` keeps is there before `caught` is asked by the same task.  *)
THEOREM PanicAlwaysEndsReports == Spec => []PanicEndsItsTasksReports
<1>1. StoppedInv => PanicEndsItsTasksReports
  BY DEF StoppedInv, PanicEndsItsTasksReports
<1> QED
  BY SpecIInv, <1>1, PTL DEF IInv
=============================================================================
