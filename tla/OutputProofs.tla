---------------------------- MODULE OutputProofs ----------------------------
(***************************************************************************)
(* That a writer's descriptor number is its own for as long as anybody can *)
(* write to it or close it, for any number of processes, threads and       *)
(* descriptors, and however the host program reuses numbers; and that the  *)
(* duplicates made for a configuration neither leak nor stray.             *)
(***************************************************************************)
EXTENDS Output, TLAPS

(* A handle's number is open on its writer's file; the writer serves the   *)
(* end it was made for, and its process has been neither freed nor         *)
(* deleted.                                                                *)
HandleInv ==
  \A w \in Writers : handle[w] # None =>
    table[handle[w]] = w /\ writer[w] = w /\ state[w[1]] \notin {"none", "deleted"}

(* A number that is open on a writer's file is that writer's handle.       *)
TableInv ==
  \A f \in Fds : table[f] \notin {Host, None} => handle[table[f]] = f

(* An end's writer is of the same process, and has its handle until the    *)
(* process is being deleted.                                               *)
WriterInv ==
  \A e \in Writers : writer[e] # None =>
    /\ writer[e][1] = e[1]
    /\ state[e[1]] # "none"
    /\ state[e[1]] \in {"made", "running", "stopped"} => handle[writer[e]] # None

(* Two writers of a process duplicate different descriptors.               *)
TargetInv ==
  \A d, e \in Writers :
    writer[d] # None /\ writer[e] # None /\ d[1] = e[1] /\ writer[d] # writer[e] =>
      target[writer[d]] # target[writer[e]]

(* Who is mid-chunk has the lock of a writer that has its handle.          *)
WritingInv ==
  \A e \in writing :
    /\ writer[e] # None /\ handle[writer[e]] # None
    /\ \A d \in writing : writer[d] = writer[e] => d = e

(* A thread inside `delete` closes writers of the process that it deletes, *)
(* and has yet to close every one of them that still has its handle.       *)
DeletingInv ==
  \A d \in Deleters :
    /\ \A w \in closing[d] : deleting[d] # None /\ w[1] = deleting[d]
    /\ deleting[d] # None =>
         /\ state[deleting[d]] \in {"deleting", "deleted"}
         /\ \A w \in Of(deleting[d]) : handle[w] # None => w \in closing[d]

IInv ==
  /\ TypeOK
  /\ HandleInv /\ TableInv
  /\ WriterInv /\ TargetInv
  /\ WritingInv /\ DeletingInv
  /\ NeverStray

-----------------------------------------------------------------------------
(* A writer is an end of a process.                                        *)
LEMMA WriterIsPair ==
  /\ \A w \in Writers : w[1] \in Processes /\ w[2] \in Ends /\ w = <<w[1], w[2]>>
  /\ \A p \in Processes : Of(p) = {w \in Writers : w[1] = p}
BY DEF Writers, Of

(* Nothing in a table of descriptors is taken for something else.          *)
LEMMA Apart ==
  /\ None \notin Writers /\ None \notin Fds /\ None # Host /\ None \notin Execs
  /\ Host \notin Writers
  /\ Execs \subseteq Processes
BY OutputAssumption DEF Processes

(* The invariant holds at the start.                                       *)
LEMMA InitIInv == Init => IInv
<1> SUFFICES ASSUME Init PROVE IInv
  OBVIOUS
<1>1. TypeOK
  BY OutputAssumption DEF Init, TypeOK
<1>2. HandleInv /\ TableInv /\ WriterInv /\ TargetInv
  BY DEF Init, HandleInv, TableInv, WriterInv, TargetInv
<1>3. WritingInv /\ DeletingInv /\ NeverStray
  BY DEF Init, WritingInv, DeletingInv, NeverStray
<1> QED
  BY <1>1, <1>2, <1>3 DEF IInv

(* What the host program opens and closes is not a writer's.               *)
LEMMA HostIInv ==
  ASSUME NEW f \in Fds, IInv, HostOpen(f) \/ HostClose(f)
  PROVE  IInv'
<1>1. /\ table[f] \in {Host, None} /\ table'[f] \in {Host, None}
      /\ \A g \in Fds : g # f => table'[g] = table[g]
      /\ table' \in [Fds -> Writers \cup {Host, None}]
  BY DEF IInv, TypeOK, HostOpen, HostClose, Free
<1>2. UNCHANGED <<handle, writer, target, writing, state, deleting, closing, writes, stray>>
  BY DEF HostOpen, HostClose
<1>3. TypeOK'
  BY <1>1, <1>2 DEF IInv, TypeOK
<1>4. HandleInv' /\ TableInv'
  BY <1>1, <1>2, Apart DEF IInv, TypeOK, HandleInv, TableInv
<1>5. WriterInv' /\ TargetInv' /\ WritingInv' /\ DeletingInv' /\ NeverStray'
  BY <1>2 DEF IInv, WriterInv, TargetInv, WritingInv, DeletingInv, NeverStray
<1> QED
  BY <1>3, <1>4, <1>5 DEF IInv

(* A process gets a writer for each descriptor it was given, each with a   *)
(* number that was free.                                                   *)
LEMMA MakeIInv ==
  ASSUME NEW p \in Processes, NEW out \in Lent \cup {None}, NEW err \in Lent \cup {None},
         IInv, Make(p, out, err)
  PROVE  IInv'
<1> DEFINE given == WriterFor(p, out, err)
           made == {w \in Of(p) : \E e \in Of(p) : given[e] = w}
           so == <<p, "stdout">>
           se == <<p, "stderr">>
<1>1. /\ Of(p) = {so, se} /\ so # se /\ so \in Writers /\ se \in Writers
      /\ so[1] = p /\ se[1] = p /\ so[2] = "stdout" /\ se[2] = "stderr"
  BY DEF Of, Ends, Writers
<1>2. /\ given[so] = IF out = None THEN None ELSE so
      /\ given[se] = IF err = None THEN None ELSE IF err = out THEN so ELSE se
  BY <1>1 DEF WriterFor
<1>3. /\ so \in made <=> out # None
      /\ se \in made <=> err # None /\ err # out
      /\ made \subseteq Of(p)
  BY <1>1, <1>2, Apart
<1>4. PICK number \in [made -> Free] :
        /\ \A v, w \in made : v # w => number[v] # number[w]
        /\ table' = [f \in Fds |-> IF \E w \in made : number[w] = f
                                   THEN CHOOSE w \in made : number[w] = f ELSE table[f]]
        /\ handle' = [w \in Writers |-> IF w \in made THEN number[w] ELSE handle[w]]
  BY DEF Make
<1>5. /\ state[p] = "none"
      /\ writer' = [e \in Writers |-> IF e \in Of(p) THEN given[e] ELSE writer[e]]
      /\ target' = [w \in Writers |-> IF w \in Of(p) THEN IF w[2] = "stdout" THEN out ELSE err ELSE target[w]]
      /\ state' = [state EXCEPT ![p] = "made"]
      /\ UNCHANGED <<writing, deleting, closing, writes, stray>>
  BY DEF Make
<1> HIDE DEF given, made, so, se
<1>6. \A w \in made : number[w] \in Fds /\ table[number[w]] = None
  BY <1>4 DEF Free
<1>7. /\ \A w \in made : table'[number[w]] = w
      /\ \A f \in Fds : (\A w \in made : number[w] # f) => table'[f] = table[f]
  BY <1>4, <1>6
<1>8. /\ \A w \in made : handle'[w] = number[w]
      /\ \A w \in Writers : w \notin made => handle'[w] = handle[w]
  BY <1>1, <1>3, <1>4
<1>9. /\ \A e \in Writers : writer'[e] = IF e \in Of(p) THEN given[e] ELSE writer[e]
      /\ \A q \in Processes : state'[q] = IF q = p THEN "made" ELSE state[q]
      /\ target'[so] = out /\ target'[se] = err
      /\ \A w \in Writers : w \notin Of(p) => target'[w] = target[w]
  BY <1>1, <1>5 DEF IInv, TypeOK
<1>10. \A w \in Writers : w \in Of(p) <=> w[1] = p
  BY WriterIsPair
<1>11. \A w \in Of(p) : handle[w] = None
  BY <1>1, <1>5, <1>10 DEF IInv, HandleInv
<1>12. TypeOK'
  <2>1. table' \in [Fds -> Writers \cup {Host, None}]
    BY <1>1, <1>3, <1>4 DEF IInv, TypeOK
  <2>2. handle' \in [Writers -> Fds \cup {None}]
    BY <1>4, <1>6 DEF IInv, TypeOK
  <2>3. writer' \in [Writers -> Writers \cup {None}]
    BY <1>1, <1>2, <1>5 DEF IInv, TypeOK
  <2>4. target' \in [Writers -> Lent \cup {None}]
    BY <1>5 DEF IInv, TypeOK
  <2> QED
    BY <2>1, <2>2, <2>3, <2>4, <1>5 DEF IInv, TypeOK
<1>13. HandleInv'
  <2> SUFFICES ASSUME NEW w \in Writers, handle'[w] # None
               PROVE  table'[handle'[w]] = w /\ writer'[w] = w /\ state'[w[1]] \notin {"none", "deleted"}
    BY DEF HandleInv
  <2>1. CASE w \in made
    BY <2>1, <1>1, <1>2, <1>3, <1>7, <1>8, <1>9
  <2>2. CASE w \notin made
    <3>1. handle'[w] = handle[w] /\ w \notin Of(p)
      BY <2>2, <1>8, <1>11
    <3>2. handle[w] \in Fds /\ table[handle[w]] = w /\ writer[w] = w /\ state[w[1]] \notin {"none", "deleted"}
      BY <3>1 DEF IInv, TypeOK, HandleInv
    <3>3. table'[handle[w]] = w
      BY <3>2, <1>6, <1>7, Apart
    <3> QED
      BY <3>1, <3>2, <3>3, <1>9, <1>10, WriterIsPair
  <2> QED
    BY <2>1, <2>2
<1>14. TableInv'
  <2> SUFFICES ASSUME NEW f \in Fds, table'[f] \notin {Host, None}
               PROVE  handle'[table'[f]] = f
    BY DEF TableInv
  <2>1. CASE \E w \in made : number[w] = f
    BY <2>1, <1>7, <1>8
  <2>2. CASE \A w \in made : number[w] # f
    <3>1. table'[f] = table[f] /\ table[f] \in Writers /\ handle[table[f]] = f
      BY <2>2, <1>7 DEF IInv, TypeOK, TableInv
    <3>2. table[f] \notin Of(p)
      BY <3>1, <1>11, Apart
    <3> QED
      BY <3>1, <3>2, <1>3, <1>8
  <2> QED
    BY <2>1, <2>2
<1>15. WriterInv'
  <2> SUFFICES ASSUME NEW e \in Writers, writer'[e] # None
               PROVE  /\ writer'[e][1] = e[1]
                      /\ state'[e[1]] # "none"
                      /\ state'[e[1]] \in {"made", "running", "stopped"} => handle'[writer'[e]] # None
    BY DEF WriterInv
  <2>1. CASE e \in Of(p)
    <3>1. writer'[e] \in made
      BY <2>1, <1>1, <1>2, <1>3, <1>9
    <3> QED
      BY <2>1, <3>1, <1>1, <1>3, <1>6, <1>8, <1>9, Apart
  <2>2. CASE e \notin Of(p)
    <3>1. writer'[e] = writer[e] /\ writer[e] \in Writers /\ writer[e][1] = e[1] /\ e[1] # p /\ e[1] \in Processes
      BY <2>2, <1>9, <1>10, WriterIsPair DEF IInv, TypeOK, WriterInv
    <3>2. handle'[writer[e]] = handle[writer[e]] /\ state'[e[1]] = state[e[1]]
      BY <3>1, <1>3, <1>8, <1>9, <1>10
    <3> QED
      BY <3>1, <3>2 DEF IInv, WriterInv
  <2> QED
    BY <2>1, <2>2
<1>16. TargetInv'
  <2> SUFFICES ASSUME NEW d \in Writers, NEW e \in Writers, writer'[d] # None, writer'[e] # None,
                      d[1] = e[1], writer'[d] # writer'[e]
               PROVE  target'[writer'[d]] # target'[writer'[e]]
    BY DEF TargetInv
  <2>1. CASE d[1] = p
    <3>1. d \in {so, se} /\ e \in {so, se} /\ d # e
      BY <2>1, <1>1, <1>10
    <3>2. writer'[so] = given[so] /\ writer'[se] = given[se]
      BY <1>1, <1>9
    <3>3. given[so] # None /\ given[se] # None /\ given[so] # given[se]
      BY <3>1, <3>2
    <3>4. given[so] = so /\ given[se] = se /\ out # err
      BY <3>3, <1>2
    <3> QED
      BY <3>1, <3>2, <3>4, <1>9
  <2>2. CASE d[1] # p
    <3>1. /\ writer'[d] = writer[d] /\ writer[d] \in Writers /\ writer[d][1] # p
          /\ writer'[e] = writer[e] /\ writer[e] \in Writers /\ writer[e][1] # p
      BY <2>2, <1>9, <1>10 DEF IInv, TypeOK, WriterInv
    <3> QED
      BY <3>1, <1>9, <1>10 DEF IInv, TargetInv
  <2> QED
    BY <2>1, <2>2
<1>17. WritingInv'
  <2> SUFFICES ASSUME NEW e \in writing
               PROVE  /\ writer'[e] # None /\ handle'[writer'[e]] # None
                      /\ \A d \in writing : writer'[d] = writer'[e] => d = e
    BY <1>5 DEF WritingInv
  <2>1. \A d \in writing : d \in Writers /\ writer[d] \in Writers /\ d[1] # p /\ writer[d][1] # p
    BY <1>5 DEF IInv, TypeOK, WritingInv, WriterInv
  <2>2. \A d \in writing : writer'[d] = writer[d] /\ handle'[writer[d]] = handle[writer[d]]
    BY <2>1, <1>3, <1>8, <1>9, <1>10
  <2> QED
    BY <2>2 DEF IInv, WritingInv
<1>18. DeletingInv'
  <2> SUFFICES ASSUME NEW d \in Deleters
               PROVE  /\ \A w \in closing[d] : deleting[d] # None /\ w[1] = deleting[d]
                      /\ deleting[d] # None =>
                           /\ state'[deleting[d]] \in {"deleting", "deleted"}
                           /\ \A w \in Of(deleting[d]) : handle'[w] # None => w \in closing[d]
    BY <1>5 DEF DeletingInv
  <2>1. CASE deleting[d] # None
    <3>1. deleting[d] \in Processes /\ deleting[d] # p
      BY <2>1, <1>5, Apart DEF IInv, TypeOK, DeletingInv
    <3>2. \A w \in Of(deleting[d]) : w \in Writers /\ w \notin Of(p)
      BY <3>1, WriterIsPair
    <3>3. \A w \in Of(deleting[d]) : handle'[w] = handle[w]
      BY <3>2, <1>3, <1>8
    <3> QED
      BY <3>1, <3>3, <1>9 DEF IInv, DeletingInv
  <2> QED
    BY <2>1 DEF IInv, DeletingInv
<1>19. NeverStray'
  BY <1>5 DEF IInv, NeverStray
<1> QED
  BY <1>12, <1>13, <1>14, <1>15, <1>16, <1>17, <1>18, <1>19 DEF IInv

(* A process runs, or its container stops: its writers are as they were.   *)
LEMMA RunStopIInv ==
  ASSUME NEW p \in Processes, IInv, Run(p) \/ Stop(p)
  PROVE  IInv'
<1>1. UNCHANGED <<table, handle, writer, target, writing, deleting, closing, writes, stray>>
  BY DEF Run, Stop
<1>2. /\ state[p] \in {"made", "running", "stopped"} /\ state'[p] \in {"made", "running", "stopped"}
      /\ \A q \in Processes : q # p => state'[q] = state[q]
      /\ state' \in [Processes -> {"none", "made", "running", "stopped", "deleting", "deleted"}]
  BY DEF IInv, TypeOK, Run, Stop
<1>3. TypeOK'
  BY <1>1, <1>2 DEF IInv, TypeOK
<1>4. HandleInv' /\ WriterInv'
  BY <1>1, <1>2, WriterIsPair DEF IInv, HandleInv, WriterInv
<1>5. DeletingInv'
  BY <1>1, <1>2, Apart DEF IInv, TypeOK, DeletingInv
<1>6. TableInv' /\ TargetInv' /\ WritingInv' /\ NeverStray'
  BY <1>1 DEF IInv, TableInv, TargetInv, WritingInv, NeverStray
<1> QED
  BY <1>3, <1>4, <1>5, <1>6 DEF IInv

(* A relay takes its writer's lock.                                        *)
LEMMA BeginWriteIInv ==
  ASSUME NEW e \in Writers, IInv, BeginWrite(e)
  PROVE  IInv'
<1>1. UNCHANGED <<table, handle, writer, target, state, deleting, closing, stray>>
  BY DEF BeginWrite
<1>2. TypeOK'
  BY OutputAssumption DEF IInv, TypeOK, BeginWrite
<1>3. WritingInv'
  BY <1>1 DEF IInv, WritingInv, BeginWrite, Locked
<1>4. HandleInv' /\ TableInv' /\ WriterInv' /\ TargetInv' /\ DeletingInv' /\ NeverStray'
  BY <1>1 DEF IInv, HandleInv, TableInv, WriterInv, TargetInv, DeletingInv, NeverStray
<1> QED
  BY <1>2, <1>3, <1>4 DEF IInv

(* It writes to its writer's own number and gives the lock back.           *)
LEMMA EndWriteIInv ==
  ASSUME NEW e \in Writers, IInv, EndWrite(e)
  PROVE  IInv'
<1>1. UNCHANGED <<table, handle, writer, target, state, deleting, closing, writes>> /\ writing' = writing \ {e}
  BY DEF EndWrite
<1>2. writer[e] \in Writers /\ handle[writer[e]] # None /\ table[handle[writer[e]]] = writer[e]
  BY DEF IInv, TypeOK, WritingInv, HandleInv, EndWrite
<1>3. stray' = stray
  BY <1>2 DEF EndWrite
<1>4. TypeOK' /\ WritingInv'
  BY <1>1, <1>3 DEF IInv, TypeOK, WritingInv
<1>5. HandleInv' /\ TableInv' /\ WriterInv' /\ TargetInv' /\ DeletingInv' /\ NeverStray'
  BY <1>1, <1>3 DEF IInv, HandleInv, TableInv, WriterInv, TargetInv, DeletingInv, NeverStray
<1> QED
  BY <1>4, <1>5 DEF IInv

(* A thread that deletes a process has all of its writers to close.        *)
LEMMA DeleteIInv ==
  ASSUME NEW d \in Deleters, NEW p \in Execs, IInv, Delete(d, p)
  PROVE  IInv'
<1>1. /\ UNCHANGED <<table, handle, writer, target, writing, writes, stray>>
      /\ state[p] \in {"running", "deleting", "deleted"}
      /\ deleting[d] = None
  BY DEF Delete
<1>2. p \in Processes /\ p # None
  BY Apart
<1>3. /\ state'[p] = (IF state[p] = "running" THEN "deleting" ELSE state[p])
      /\ \A q \in Processes : q # p => state'[q] = state[q]
      /\ state' \in [Processes -> {"none", "made", "running", "stopped", "deleting", "deleted"}]
  BY <1>1, <1>2 DEF IInv, TypeOK, Delete
<1>4. /\ \A w \in Of(p) : w \in Writers /\ w[1] = p
      /\ \A w \in Of(p) : writer[w] # None => writer[w] \in Of(p)
  BY <1>2, WriterIsPair DEF IInv, TypeOK, WriterInv
<1>5. /\ closing'[d] = {writer[e] : e \in Of(p)} \ {None} /\ closing'[d] \subseteq Of(p)
      /\ \A c \in Deleters : c # d => closing'[c] = closing[c] /\ deleting'[c] = deleting[c]
      /\ deleting'[d] = p
  BY <1>4 DEF IInv, TypeOK, Delete
<1>6. TypeOK'
  <2>1. closing' \in [Deleters -> SUBSET Writers]
    BY <1>4, <1>5 DEF IInv, TypeOK, Delete
  <2>2. deleting' \in [Deleters -> Execs \cup {None}]
    BY DEF IInv, TypeOK, Delete
  <2> QED
    BY <2>1, <2>2, <1>1, <1>3 DEF IInv, TypeOK
<1>7. HandleInv' /\ WriterInv'
  BY <1>1, <1>3, WriterIsPair DEF IInv, HandleInv, WriterInv
<1>8. DeletingInv'
  <2> SUFFICES ASSUME NEW c \in Deleters
               PROVE  /\ \A w \in closing'[c] : deleting'[c] # None /\ w[1] = deleting'[c]
                      /\ deleting'[c] # None =>
                           /\ state'[deleting'[c]] \in {"deleting", "deleted"}
                           /\ \A w \in Of(deleting'[c]) : handle[w] # None => w \in closing'[c]
    BY <1>1 DEF DeletingInv
  <2>1. CASE c = d
    <3>1. \A w \in Of(p) : handle[w] # None => w \in closing'[d]
      BY <1>4, <1>5, Apart DEF IInv, HandleInv
    <3> QED
      BY <2>1, <3>1, <1>1, <1>2, <1>3, <1>4, <1>5
  <2>2. CASE c # d
    <3>1. deleting[c] # None => deleting[c] \in Processes /\ state[deleting[c]] \in {"deleting", "deleted"}
      BY Apart DEF IInv, TypeOK, DeletingInv
    <3>2. deleting[c] # None => state'[deleting[c]] = state[deleting[c]]
      BY <3>1, <1>3
    <3> QED
      BY <2>2, <3>1, <3>2, <1>5 DEF IInv, DeletingInv
  <2> QED
    BY <2>1, <2>2
<1>9. TableInv' /\ TargetInv' /\ WritingInv' /\ NeverStray'
  BY <1>1 DEF IInv, TableInv, TargetInv, WritingInv, NeverStray
<1> QED
  BY <1>6, <1>7, <1>8, <1>9 DEF IInv

(* A writer that nobody is writing through loses its handle, and its       *)
(* number its file.                                                        *)
LEMMA CloseIInv ==
  ASSUME NEW d \in Deleters, NEW w \in Writers, IInv, Close(d, w)
  PROVE  IInv'
<1>1. /\ UNCHANGED <<writer, target, writing, state, deleting, writes>>
      /\ w \in closing[d] /\ ~Locked(w)
      /\ closing' = [closing EXCEPT ![d] = @ \ {w}]
      /\ stray' = IF handle[w] = None \/ table[handle[w]] = w THEN stray ELSE "yes"
      /\ table' = IF handle[w] = None THEN table ELSE [table EXCEPT ![handle[w]] = None]
      /\ handle' = [handle EXCEPT ![w] = None]
  BY DEF Close
<1>2. stray' = stray
  BY <1>1 DEF IInv, HandleInv
<1>3. /\ handle'[w] = None
      /\ \A v \in Writers : v # w => handle'[v] = handle[v]
      /\ \A f \in Fds : f # handle[w] => table'[f] = table[f]
      /\ handle[w] # None => table'[handle[w]] = None
  BY <1>1, Apart DEF IInv, TypeOK
<1>4. /\ closing'[d] = closing[d] \ {w}
      /\ \A c \in Deleters : c # d => closing'[c] = closing[c]
  BY <1>1 DEF IInv, TypeOK
<1>5. deleting[d] # None /\ w[1] = deleting[d] /\ state[w[1]] \in {"deleting", "deleted"}
  BY <1>1 DEF IInv, DeletingInv
<1>6. TypeOK'
  <2>1. table' \in [Fds -> Writers \cup {Host, None}]
    BY <1>1 DEF IInv, TypeOK
  <2>2. handle' \in [Writers -> Fds \cup {None}]
    BY <1>1 DEF IInv, TypeOK
  <2>3. closing' \in [Deleters -> SUBSET Writers]
    BY <1>1 DEF IInv, TypeOK
  <2> QED
    BY <2>1, <2>2, <2>3, <1>1, <1>2 DEF IInv, TypeOK
<1>7. HandleInv'
  <2> SUFFICES ASSUME NEW v \in Writers, handle'[v] # None
               PROVE  table'[handle'[v]] = v /\ writer[v] = v /\ state[v[1]] \notin {"none", "deleted"}
    BY <1>1 DEF HandleInv
  <2>1. v # w /\ handle'[v] = handle[v] /\ handle[v] \in Fds
    BY <1>3 DEF IInv, TypeOK
  <2>2. table[handle[v]] = v /\ handle[v] # handle[w]
    BY <2>1 DEF IInv, HandleInv
  <2> QED
    BY <2>1, <2>2, <1>3 DEF IInv, HandleInv
<1>8. TableInv'
  <2> SUFFICES ASSUME NEW f \in Fds, table'[f] \notin {Host, None}
               PROVE  handle'[table'[f]] = f
    BY DEF TableInv
  <2>1. f # handle[w] /\ table'[f] = table[f] /\ table[f] \in Writers
    BY <1>3, Apart DEF IInv, TypeOK
  <2>2. handle[table[f]] = f
    BY <2>1 DEF IInv, TableInv
  <2> QED
    BY <2>1, <2>2, <1>3
<1>9. WriterInv'
  <2> SUFFICES ASSUME NEW e \in Writers, writer[e] # None
               PROVE  /\ writer[e][1] = e[1]
                      /\ state[e[1]] # "none"
                      /\ state[e[1]] \in {"made", "running", "stopped"} => handle'[writer[e]] # None
    BY <1>1 DEF WriterInv
  <2>1. writer[e] = w => state[e[1]] \in {"deleting", "deleted"}
    BY <1>5 DEF IInv, WriterInv
  <2> QED
    BY <2>1, <1>3 DEF IInv, TypeOK, WriterInv
<1>10. WritingInv'
  <2>1. \A e \in writing : writer[e] \in Writers /\ writer[e] # w
    BY <1>1 DEF IInv, TypeOK, WritingInv, Locked
  <2> QED
    BY <2>1, <1>1, <1>3 DEF IInv, WritingInv
<1>11. DeletingInv'
  <2> SUFFICES ASSUME NEW c \in Deleters
               PROVE  /\ \A v \in closing'[c] : deleting[c] # None /\ v[1] = deleting[c]
                      /\ deleting[c] # None =>
                           /\ state[deleting[c]] \in {"deleting", "deleted"}
                           /\ \A v \in Of(deleting[c]) : handle'[v] # None => v \in closing'[c]
    BY <1>1 DEF DeletingInv
  <2>1. closing'[c] \subseteq closing[c] /\ \A v \in closing[c] : v # w => v \in closing'[c]
    BY <1>4
  <2>2. deleting[c] # None => \A v \in Of(deleting[c]) : v \in Writers
    BY WriterIsPair, Apart DEF IInv, TypeOK
  <2> QED
    BY <2>1, <2>2, <1>3 DEF IInv, DeletingInv
<1>12. TargetInv' /\ NeverStray'
  BY <1>1, <1>2 DEF IInv, TargetInv, NeverStray
<1> QED
  BY <1>6, <1>7, <1>8, <1>9, <1>10, <1>11, <1>12 DEF IInv

(* `delete` returns once nothing is left for it to close: then no writer   *)
(* of the process has its handle, whichever thread closed it.              *)
LEMMA DeletedIInv ==
  ASSUME NEW d \in Deleters, IInv, Deleted(d)
  PROVE  IInv'
<1> DEFINE p == deleting[d]
<1>1. /\ UNCHANGED <<table, handle, writer, target, writing, closing, writes, stray>>
      /\ p # None /\ closing[d] = {}
  BY DEF Deleted
<1>2. p \in Execs /\ p \in Processes
  BY <1>1, Apart DEF IInv, TypeOK
<1>3. /\ state'[p] = "deleted" /\ state[p] \in {"deleting", "deleted"}
      /\ \A q \in Processes : q # p => state'[q] = state[q]
      /\ state' \in [Processes -> {"none", "made", "running", "stopped", "deleting", "deleted"}]
  BY <1>1, <1>2 DEF IInv, TypeOK, DeletingInv, Deleted
<1>4. /\ deleting'[d] = None
      /\ \A c \in Deleters : c # d => deleting'[c] = deleting[c]
      /\ deleting' \in [Deleters -> Execs \cup {None}]
  BY DEF IInv, TypeOK, Deleted
<1>5. \A w \in Writers : w[1] = p => handle[w] = None
  BY <1>1, <1>2, WriterIsPair DEF IInv, DeletingInv
<1> HIDE DEF p
<1>6. TypeOK'
  BY <1>1, <1>3, <1>4 DEF IInv, TypeOK
<1>7. HandleInv' /\ WriterInv'
  BY <1>1, <1>3, <1>5, WriterIsPair DEF IInv, HandleInv, WriterInv
<1>8. DeletingInv'
  BY <1>1, <1>3, <1>4, Apart DEF IInv, TypeOK, DeletingInv
<1>9. TableInv' /\ TargetInv' /\ WritingInv' /\ NeverStray'
  BY <1>1 DEF IInv, TableInv, TargetInv, WritingInv, NeverStray
<1> QED
  BY <1>6, <1>7, <1>8, <1>9 DEF IInv

(* A process that is freed leaves neither writers nor open numbers.        *)
LEMMA ReleaseIInv ==
  ASSUME NEW p \in Processes, IInv, Release(p)
  PROVE  IInv'
<1>1. /\ UNCHANGED <<writing, deleting, closing, writes>>
      /\ writing \cap Of(p) = {} /\ \A d \in Deleters : deleting[d] # p
      /\ state' = [state EXCEPT ![p] = "none"]
      /\ stray' = IF \A w \in Open(Of(p)) : table[handle[w]] = w THEN stray ELSE "yes"
      /\ table' = [f \in Fds |-> IF \E w \in Open(Of(p)) : handle[w] = f THEN None ELSE table[f]]
      /\ handle' = [w \in Writers |-> IF w \in Of(p) THEN None ELSE handle[w]]
      /\ writer' = [e \in Writers |-> IF e \in Of(p) THEN None ELSE writer[e]]
      /\ target' = [w \in Writers |-> IF w \in Of(p) THEN None ELSE target[w]]
  BY DEF Release
<1>2. \A w \in Writers : w \in Of(p) <=> w[1] = p
  BY WriterIsPair
<1>3. Of(p) \subseteq Writers
  BY WriterIsPair
<1>4. stray' = stray
  BY <1>1, <1>3 DEF IInv, HandleInv, Open
<1>5. /\ \A w \in Writers : handle'[w] = IF w[1] = p THEN None ELSE handle[w]
      /\ \A w \in Writers : writer'[w] = IF w[1] = p THEN None ELSE writer[w]
      /\ \A w \in Writers : target'[w] = IF w[1] = p THEN None ELSE target[w]
      /\ \A q \in Processes : state'[q] = IF q = p THEN "none" ELSE state[q]
  BY <1>1, <1>2 DEF IInv, TypeOK
<1>6. \A f \in Fds : \/ table'[f] = table[f] /\ \A w \in Writers : w[1] = p => handle[w] # f
                     \/ table'[f] = None /\ \E w \in Writers : w[1] = p /\ handle[w] = f
  BY <1>1, <1>2, <1>3, Apart DEF Open
<1>7. TypeOK'
  <2>1. table' \in [Fds -> Writers \cup {Host, None}]
    BY <1>1 DEF IInv, TypeOK
  <2>2. handle' \in [Writers -> Fds \cup {None}] /\ writer' \in [Writers -> Writers \cup {None}]
    BY <1>1 DEF IInv, TypeOK
  <2>3. target' \in [Writers -> Lent \cup {None}]
    BY <1>1 DEF IInv, TypeOK
  <2> QED
    BY <2>1, <2>2, <2>3, <1>1, <1>4 DEF IInv, TypeOK
<1>8. HandleInv'
  <2> SUFFICES ASSUME NEW w \in Writers, handle'[w] # None
               PROVE  table'[handle'[w]] = w /\ writer'[w] = w /\ state'[w[1]] \notin {"none", "deleted"}
    BY DEF HandleInv
  <2>1. w[1] # p /\ w[1] \in Processes /\ handle'[w] = handle[w] /\ handle[w] \in Fds
    BY <1>5, WriterIsPair DEF IInv, TypeOK
  <2>2. table[handle[w]] = w /\ writer[w] = w /\ state[w[1]] \notin {"none", "deleted"}
    BY <2>1 DEF IInv, HandleInv
  <2>3. \A v \in Writers : v[1] = p => handle[v] # handle[w]
    BY <2>1, <2>2, Apart DEF IInv, HandleInv
  <2> QED
    BY <2>1, <2>2, <2>3, <1>5, <1>6
<1>9. TableInv'
  <2> SUFFICES ASSUME NEW f \in Fds, table'[f] \notin {Host, None}
               PROVE  handle'[table'[f]] = f
    BY DEF TableInv
  <2>1. table'[f] = table[f] /\ \A w \in Writers : w[1] = p => handle[w] # f
    BY <1>6
  <2>2. table[f] \in Writers /\ handle[table[f]] = f
    BY <2>1 DEF IInv, TypeOK, TableInv
  <2> QED
    BY <2>1, <2>2, <1>5
<1>10. \A e \in Writers : writer'[e] # None =>
         /\ writer'[e] = writer[e] /\ e[1] # p /\ writer[e] \in Writers /\ writer[e][1] = e[1]
         /\ handle'[writer[e]] = handle[writer[e]] /\ target'[writer[e]] = target[writer[e]]
  BY <1>5 DEF IInv, TypeOK, WriterInv
<1>11. WriterInv' /\ TargetInv'
  BY <1>5, <1>10, WriterIsPair DEF IInv, WriterInv, TargetInv
<1>12. WritingInv'
  <2>1. \A e \in writing : e \in Writers /\ e[1] # p /\ writer[e] # None
    BY <1>1, <1>2 DEF IInv, TypeOK, WritingInv
  <2> QED
    BY <2>1, <1>1, <1>5, <1>10 DEF IInv, WritingInv
<1>13. DeletingInv'
  <2> SUFFICES ASSUME NEW d \in Deleters, deleting[d] # None
               PROVE  /\ state'[deleting[d]] \in {"deleting", "deleted"}
                      /\ \A w \in Of(deleting[d]) : handle'[w] # None => w \in closing[d]
    BY <1>1 DEF IInv, DeletingInv
  <2>1. deleting[d] \in Processes /\ deleting[d] # p
    BY <1>1, Apart DEF IInv, TypeOK
  <2>2. \A w \in Of(deleting[d]) : w \in Writers /\ w[1] # p
    BY <2>1, WriterIsPair
  <2> QED
    BY <2>1, <2>2, <1>5 DEF IInv, DeletingInv
<1>14. NeverStray'
  BY <1>4 DEF IInv, NeverStray
<1> QED
  BY <1>7, <1>8, <1>9, <1>11, <1>12, <1>13, <1>14 DEF IInv

(* Every step keeps the invariant.                                         *)
LEMMA NextIInv == IInv /\ [Next]_vars => IInv'
<1> SUFFICES ASSUME IInv, [Next]_vars
             PROVE  IInv'
  OBVIOUS
<1>1. ASSUME NEW f \in Fds, HostOpen(f) \/ HostClose(f)
      PROVE  IInv'
  BY <1>1, HostIInv
<1>2. ASSUME NEW p \in Processes, NEW out \in Lent \cup {None}, NEW err \in Lent \cup {None}, Make(p, out, err)
      PROVE  IInv'
  BY <1>2, MakeIInv
<1>3. ASSUME NEW p \in Processes, Run(p) \/ Stop(p)
      PROVE  IInv'
  BY <1>3, RunStopIInv
<1>4. ASSUME NEW p \in Processes, Release(p)
      PROVE  IInv'
  BY <1>4, ReleaseIInv
<1>5. ASSUME NEW d \in Deleters, NEW p \in Execs, Delete(d, p)
      PROVE  IInv'
  BY <1>5, DeleteIInv
<1>6. ASSUME NEW d \in Deleters, NEW w \in Writers, Close(d, w)
      PROVE  IInv'
  BY <1>6, CloseIInv
<1>7. ASSUME NEW d \in Deleters, Deleted(d)
      PROVE  IInv'
  BY <1>7, DeletedIInv
<1>8. ASSUME NEW e \in Writers, BeginWrite(e)
      PROVE  IInv'
  BY <1>8, BeginWriteIInv
<1>9. ASSUME NEW e \in Writers, EndWrite(e)
      PROVE  IInv'
  BY <1>9, EndWriteIInv
<1>10. CASE UNCHANGED vars
  BY <1>10 DEF vars, IInv, TypeOK, HandleInv, TableInv, WriterInv, TargetInv, WritingInv, DeletingInv, NeverStray
<1> QED
  BY <1>1, <1>2, <1>3, <1>4, <1>5, <1>6, <1>7, <1>8, <1>9, <1>10 DEF Next

LEMMA AlwaysIInv == Spec => []IInv
BY InitIInv, NextIInv, PTL DEF Spec

(* The invariant is what the properties say, put together.                 *)
LEMMA IInvImplies == IInv => TypeOK /\ NeverStray /\ OpenWhileNeeded /\ ChunksWhole
<1> SUFFICES ASSUME IInv
             PROVE  TypeOK /\ NeverStray /\ OpenWhileNeeded /\ ChunksWhole
  OBVIOUS
<1>1. \A f \in Fds : table[f] \notin {Host, None} =>
        handle[table[f]] = f /\ state[table[f][1]] \notin {"none", "deleted"}
  <2> SUFFICES ASSUME NEW f \in Fds, table[f] \notin {Host, None}
               PROVE  handle[table[f]] = f /\ state[table[f][1]] \notin {"none", "deleted"}
    OBVIOUS
  <2>1. table[f] \in Writers /\ handle[table[f]] = f
    BY DEF IInv, TypeOK, TableInv
  <2> QED
    BY <2>1, Apart DEF IInv, HandleInv
<1>2. \A e \in Writers : state[e[1]] \in {"made", "running", "stopped"} /\ writer[e] # None =>
        handle[writer[e]] # None /\ table[handle[writer[e]]] = writer[e]
  BY DEF IInv, TypeOK, WriterInv, HandleInv
<1>3. ChunksWhole
  BY DEF IInv, TypeOK, WritingInv, TargetInv, ChunksWhole
<1> QED
  BY <1>1, <1>2, <1>3 DEF IInv, OpenWhileNeeded

-----------------------------------------------------------------------------
(* Every variable of the model keeps its type.                             *)
THEOREM TypeCorrect == Spec => []TypeOK
BY AlwaysIInv, IInvImplies, PTL

(* No write and no close of `FileWriter` reaches a descriptor that is not  *)
(* the writer's own, however many threads delete and however soon the host *)
(* program reuses a number.                                                *)
THEOREM NothingStrays == Spec => []NeverStray
BY AlwaysIInv, IInvImplies, PTL

(* A duplicate is open exactly as long as it is needed: `delete` and the   *)
(* freeing of a process leave none behind, and a `stop` closes none.       *)
THEOREM OpenJustAsLong == Spec => []OpenWhileNeeded
BY AlwaysIInv, IInvImplies, PTL

(* The chunks of two ends that share a descriptor do not interleave.       *)
THEOREM ChunksStayWhole == Spec => []ChunksWhole
BY AlwaysIInv, IInvImplies, PTL

-----------------------------------------------------------------------------
(* The duplicates that the bridge makes for a sandbox's configuration, as  *)
(* Configurations has them: a behaviour of its own, of which this is about *)
(* the descriptors.  They are numbers of the same host program's table.    *)
CONSTANTS Programs, Class(_), MaxTouched
VARIABLES program, stage, config, touched, value, alive, made, logFile, stream, file, holder

Crossing == INSTANCE Configurations

(* A duplicate is open, and is the container's or that of the value being  *)
(* made.  Nothing is when there is no container and no value.              *)
OwnedInv ==
  /\ file = [n \in Fds |-> file[n]] /\ holder = [n \in Fds |-> holder[n]]
  /\ stage = "idle" => ~alive
  /\ stage # "making" => stream = 0
  /\ \A n \in Fds : holder[n] = "swift" =>
       file[n] # 0 /\ n \in (IF alive THEN Crossing!Handles(value) ELSE {}) \cup {stream}

(* The container's boot log has a duplicate of its own, which the value    *)
(* being made does not share.                                              *)
LogInv ==
  alive /\ value.bootLog.kind = "handle" =>
    /\ value.bootLog.handle \in Fds \ {stream}
    /\ holder[value.bootLog.handle] = "swift" /\ file[value.bootLog.handle] = logFile

CrossingInv == OwnedInv /\ LogInv

LEMMA FdsArePositive == Crossing!Fds = Fds /\ 0 \notin Fds
BY OutputAssumption DEF Fds, Crossing!Fds

LEMMA InitCrossingInv == Crossing!Init => CrossingInv
BY FdsArePositive DEF Crossing!Init, CrossingInv, OwnedInv, LogInv

(* Filling Rust's value and changing it leave descriptors alone.           *)
LEMMA FillCrossingInv ==
  CrossingInv /\ (Crossing!Seed \/ Crossing!Begin \/ Crossing!ReadBack \/ Crossing!Change) => CrossingInv'
<1> SUFFICES ASSUME CrossingInv, Crossing!Seed \/ Crossing!Begin \/ Crossing!ReadBack \/ Crossing!Change
             PROVE  CrossingInv'
  OBVIOUS
<1>0. \A v : Crossing!Fill(v) => stage' \in {"lent", "panicked"}
  BY Zenon DEF Crossing!Fill
<1>1. UNCHANGED <<alive, stream, file, holder, logFile>>
  BY DEF Crossing!Seed, Crossing!Begin, Crossing!ReadBack, Crossing!Change, Crossing!table
<1>2. stage' \in {"lent", "panicked"} /\ stage # "making"
  BY <1>0 DEF Crossing!Seed, Crossing!Begin, Crossing!ReadBack, Crossing!Change
<1>3. CASE Crossing!Seed
  <2>1. ~alive
    BY <1>3 DEF CrossingInv, OwnedInv, Crossing!Seed
  <2> QED
    BY <2>1, <1>1, <1>2 DEF CrossingInv, OwnedInv, LogInv
<1>4. CASE ~Crossing!Seed
  <2>1. value' = value
    BY <1>4 DEF Crossing!Begin, Crossing!ReadBack, Crossing!Change
  <2> QED
    BY <2>1, <1>1, <1>2 DEF CrossingInv, OwnedInv, LogInv
<1> QED
  BY <1>3, <1>4

(* A process's streams are duplicated under a number that nobody has.      *)
LEMMA MakeProcessCrossingInv == CrossingInv /\ Crossing!MakeProcess => CrossingInv'
<1> SUFFICES ASSUME CrossingInv, Crossing!MakeProcess PROVE CrossingInv'
  OBVIOUS
<1>1. UNCHANGED <<value, alive, logFile>> /\ stage' = "making" /\ stage = "lent" /\ stream = 0
  BY DEF CrossingInv, OwnedInv, Crossing!MakeProcess
<1>2. CASE UNCHANGED <<stream, file, holder>>
  BY <1>1, <1>2 DEF CrossingInv, OwnedInv, LogInv
<1>3. ASSUME NEW n \in Fds, file[n] = 0, file[config.stdio] # 0, stream' = n,
             Crossing!Duplicating(config.stdio, n, {})
      PROVE  CrossingInv'
  <2>1. /\ file' = [m \in Fds |-> IF m = n THEN file[config.stdio] ELSE file[m]]
        /\ holder' = [m \in Fds |-> IF m = n THEN "swift" ELSE holder[m]]
    BY <1>3, FdsArePositive DEF Crossing!Duplicating
  <2>2. OwnedInv'
    <3>1. ASSUME NEW m \in Fds, holder'[m] = "swift"
          PROVE  file'[m] # 0 /\ m \in (IF alive THEN Crossing!Handles(value) ELSE {}) \cup {n}
      BY <3>1, <2>1, <1>1, <1>3, FdsArePositive DEF CrossingInv, OwnedInv
    <3> QED
      BY <3>1, <2>1, <1>1, <1>3 DEF OwnedInv, Crossing!Handles
  <2>3. LogInv'
    BY <2>1, <1>1, <1>3 DEF CrossingInv, OwnedInv, LogInv
  <2> QED
    BY <2>2, <2>3 DEF CrossingInv
<1> QED
  BY <1>2, <1>3, FdsArePositive DEF Crossing!MakeProcess, Crossing!Free, Crossing!table

(* The value that is made has the duplicates that were made for it, and    *)
(* those of the value it replaces are closed.                              *)
LEMMA MakeCrossingInv == CrossingInv /\ Crossing!Make => CrossingInv'
<1> SUFFICES ASSUME CrossingInv, Crossing!Make PROVE CrossingInv'
  OBVIOUS
<1> DEFINE closed == Crossing!Handles(value)
<1>1. ASSUME NEW own, Crossing!Kept(own)
      PROVE  /\ stage' = "made" /\ alive' /\ stream' = 0
             /\ value'.bootLog.kind = config.bootLog.kind /\ value'.bootLog.handle = own
             /\ value'.stdio = stream
  BY <1>1 DEF Crossing!Kept, Crossing!Value
<1>2. \A n \in Fds : holder[n] = "swift" /\ n \notin closed => file[n] # 0 /\ n = stream
  BY DEF CrossingInv, OwnedInv
<1> HIDE DEF closed
<1>3. ASSUME config.bootLog.kind \in {"none", "file"}, Crossing!Kept(0), Crossing!Closing(closed)
      PROVE  CrossingInv'
  <2>1. /\ file' = [n \in Fds |-> IF n \in closed THEN 0 ELSE file[n]]
        /\ holder' = [n \in Fds |-> IF n \in closed THEN "nobody" ELSE holder[n]]
    BY <1>3, FdsArePositive DEF Crossing!Closing
  <2>2. OwnedInv'
    BY <2>1, <1>1, <1>2, <1>3, FdsArePositive DEF OwnedInv, Crossing!Handles
  <2>3. LogInv'
    BY <1>1, <1>3 DEF LogInv
  <2> QED
    BY <2>2, <2>3 DEF CrossingInv
<1>4. ASSUME NEW n \in Fds, file[n] = 0, file[config.bootLog.number] # 0,
             Crossing!Kept(n), logFile' = file[config.bootLog.number],
             Crossing!Duplicating(config.bootLog.number, n, closed)
      PROVE  CrossingInv'
  <2>1. /\ file' = [m \in Fds |-> IF m = n THEN file[config.bootLog.number] ELSE IF m \in closed THEN 0 ELSE file[m]]
        /\ holder' = [m \in Fds |-> IF m = n THEN "swift" ELSE IF m \in closed THEN "nobody" ELSE holder[m]]
    BY <1>4, FdsArePositive DEF Crossing!Duplicating
  <2>2. /\ stage' = "made" /\ alive' /\ stream' = 0
        /\ value'.bootLog.handle = n /\ value'.stdio = stream
    BY <1>1, <1>4
  <2>3. OwnedInv'
    BY <2>1, <2>2, <1>2, <1>4, FdsArePositive DEF OwnedInv, Crossing!Handles
  <2>4. LogInv'
    BY <2>1, <2>2, <1>4, FdsArePositive DEF LogInv
  <2> QED
    BY <2>3, <2>4 DEF CrossingInv
<1> QED
  BY <1>3, <1>4, FdsArePositive DEF Crossing!Make, Crossing!Free, closed

(* Giving up closes the duplicate of the value that was being made.        *)
LEMMA GiveUpCrossingInv == CrossingInv /\ Crossing!GiveUp => CrossingInv'
<1> SUFFICES ASSUME CrossingInv, Crossing!GiveUp PROVE CrossingInv'
  OBVIOUS
<1>1. /\ file' = [n \in Fds |-> IF n \in {stream} \ {0} THEN 0 ELSE file[n]]
      /\ holder' = [n \in Fds |-> IF n \in {stream} \ {0} THEN "nobody" ELSE holder[n]]
      /\ stream' = 0 /\ UNCHANGED <<alive, logFile>>
      /\ alive => value' = value
      /\ stage' = IF alive THEN "made" ELSE "idle"
  BY FdsArePositive DEF Crossing!GiveUp, Crossing!Closing
<1>2. OwnedInv'
  BY <1>1, FdsArePositive DEF CrossingInv, OwnedInv
<1>3. LogInv'
  BY <1>1, FdsArePositive DEF CrossingInv, LogInv
<1> QED
  BY <1>2, <1>3 DEF CrossingInv

(* Dropping the container closes all that is left.                         *)
LEMMA DropCrossingInv == CrossingInv /\ Crossing!Drop => CrossingInv'
<1> SUFFICES ASSUME CrossingInv, Crossing!Drop PROVE CrossingInv'
  OBVIOUS
<1>1. /\ file' = [n \in Fds |-> IF n \in Crossing!Handles(value) THEN 0 ELSE file[n]]
      /\ holder' = [n \in Fds |-> IF n \in Crossing!Handles(value) THEN "nobody" ELSE holder[n]]
      /\ stage = "made" /\ stage' = "idle" /\ alive' = FALSE /\ stream' = stream
  BY FdsArePositive DEF Crossing!Drop, Crossing!Closing
<1>2. OwnedInv'
  BY <1>1, FdsArePositive DEF CrossingInv, OwnedInv
<1>3. LogInv'
  BY <1>1 DEF LogInv
<1> QED
  BY <1>2, <1>3 DEF CrossingInv

(* The host program opens numbers that are free and closes its own.        *)
LEMMA HostCrossingInv ==
  ASSUME CrossingInv, NEW n \in Fds, NEW f, NEW who, who # "swift", holder[n] # "swift",
         file' = [file EXCEPT ![n] = f], holder' = [holder EXCEPT ![n] = who],
         UNCHANGED <<stage, value, alive, logFile, stream>>
  PROVE  CrossingInv'
<1>1. \A m \in Fds : file'[m] = (IF m = n THEN f ELSE file[m]) /\ holder'[m] = IF m = n THEN who ELSE holder[m]
  BY DEF CrossingInv, OwnedInv
<1>2. file' = [m \in Fds |-> file'[m]] /\ holder' = [m \in Fds |-> holder'[m]]
  BY DEF CrossingInv, OwnedInv
<1>3. OwnedInv'
  BY <1>1, <1>2 DEF CrossingInv, OwnedInv
<1>4. LogInv'
  BY <1>1 DEF CrossingInv, LogInv
<1> QED
  BY <1>3, <1>4 DEF CrossingInv

LEMMA NextCrossingInv == CrossingInv /\ [Crossing!Next]_(Crossing!vars) => CrossingInv'
<1> SUFFICES ASSUME CrossingInv, [Crossing!Next]_(Crossing!vars)
             PROVE  CrossingInv'
  OBVIOUS
<1>1. CASE Crossing!Seed \/ Crossing!Begin \/ Crossing!ReadBack \/ Crossing!Change
  BY <1>1, FillCrossingInv
<1>2. CASE Crossing!MakeProcess \/ Crossing!Make \/ Crossing!GiveUp \/ Crossing!Drop
  BY <1>2, MakeProcessCrossingInv, MakeCrossingInv, GiveUpCrossingInv, DropCrossingInv
<1>3. ASSUME NEW n \in Fds, Crossing!HostClose(n) \/ \E f \in program.files : Crossing!HostOpen(n, f)
      PROVE  CrossingInv'
  <2>1. holder[n] # "swift"
    BY <1>3 DEF CrossingInv, OwnedInv, Crossing!HostClose, Crossing!HostOpen
  <2> QED
    BY <1>3, <2>1, HostCrossingInv DEF Crossing!HostClose, Crossing!HostOpen
<1>4. CASE UNCHANGED Crossing!vars
  BY <1>4 DEF Crossing!vars, CrossingInv, OwnedInv, LogInv
<1> QED
  BY <1>1, <1>2, <1>3, <1>4, FdsArePositive DEF Crossing!Next

LEMMA CrossingInvImplies == CrossingInv => Crossing!NoLeak /\ Crossing!LogStaysPut
<1> SUFFICES ASSUME CrossingInv PROVE Crossing!NoLeak /\ Crossing!LogStaysPut
  OBVIOUS
<1>1. Crossing!NoLeak
  BY FdsArePositive DEF CrossingInv, OwnedInv, Crossing!NoLeak
<1>2. Crossing!LogStaysPut
  BY DEF CrossingInv, LogInv, Crossing!LogStaysPut
<1> QED
  BY <1>1, <1>2

LEMMA AlwaysCrossingInv == Crossing!Spec => []CrossingInv
BY InitCrossingInv, NextCrossingInv, PTL DEF Crossing!Spec

(* No duplicate of `makeProcess` or of the boot log outlives the value it  *)
(* was made for, also when the making fails halfway.                       *)
THEOREM NeverLeaks == Crossing!Spec => []Crossing!NoLeak
BY AlwaysCrossingInv, CrossingInvImplies, PTL

(* A container's boot log stays on the file that the caller lent, whatever *)
(* the host program does with its own number.                              *)
THEOREM LogAlwaysStaysPut == Crossing!Spec => []Crossing!LogStaysPut
BY AlwaysCrossingInv, CrossingInvImplies, PTL

=============================================================================
