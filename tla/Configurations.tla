--------------------------- MODULE Configurations ---------------------------
(***************************************************************************)
(* How a sandbox's configuration crosses between Rust and Swift            *)
(* (swift/Sources/ContainerizationBridge/Model/ContainerModel.swift and    *)
(* `configuring` in Stdio.swift, over src/bridge/accessors/container).     *)
(*                                                                         *)
(* Swift never makes a Rust value.  It fills one that Rust hands over,     *)
(* setter by setter, and a closure of Rust's changes it; then Swift makes  *)
(* a value of its own of it, which replaces the one it had.  What a        *)
(* container was made with is read back the same way.  Descriptors cross   *)
(* as numbers of the host program's table and are duplicated in Swift.     *)
(*                                                                         *)
(* A configuration stands for a container's and a pod's, whose shared part *)
(* crosses by the same code.  `plain` is all that has one setter and one   *)
(* getter; `unified` crosses as `sysctl` does, `volumes` as `mounts` do,   *)
(* `dns` as `hosts` does, and the three streams as the one `stdio`.  Paths *)
(* are absolute, and numbers such as an NBD volume's timeout are ones that *)
(* both sides can hold: what becomes of others is not modelled here.       *)
(***************************************************************************)
EXTENDS Integers, FiniteSets, Sequences, SequencesExt

CONSTANTS
  Programs,   \* host programs: what may be seeded for one, what it may set,
              \* and the files that it opens
  Class(_),   \* the canonical equivalence class of a key
  MaxTouched, \* bound: fields that a closure changes
  MaxFd       \* bound: descriptors in the host program's table

ASSUME ConfigurationsAssumption == MaxFd \in Nat /\ MaxTouched \in Nat /\ \A p \in Programs : 0 \notin p.files

VARIABLES
  program,    \* the program that runs
  stage,      \* where the configuration is
  config,     \* Rust's value: the seed, and what the closure makes of it
  touched,    \* the fields Rust has changed since it was filled
  value,      \* Swift's value: what was seeded, then what was made
  alive,      \* whether that is a container's
  made,       \* history: the Rust configuration `value` was made from
  logFile,    \* history: what its boot log's number was open on then
  stream,     \* the duplicate a value being made has for its `stdio`, or 0
  file,       \* the table: what each number is open on, or 0
  holder      \* who opened it

vars == <<program, stage, config, touched, value, alive, made, logFile, stream, file, holder>>
table == <<file, holder>>

Fds == 1..MaxFd
NoLog == [kind |-> "none", number |-> 0]
NoHosts == [set |-> FALSE, entries |-> <<>>]
NoValue == [stdio |-> 0, bootLog |-> [kind |-> "none", number |-> 0, handle |-> 0]]

(* `Configuration::default()`, which is not empty.                         *)
Default ==
  [plain |-> "default", stdio |-> 0, sysctl |-> <<>>, sockets |-> <<>>, interfaces |-> <<>>,
   mounts |-> <<[kind |-> "any", options |-> <<>>]>>,
   hosts |-> NoHosts, bootLog |-> NoLog, seccomp |-> [mode |-> "unconfined", profile |-> "absent"]]

Fields == DOMAIN Default

(* Swift's own numbers that a value holds open.                            *)
Handles(v) == {v.stdio, v.bootLog.handle} \ {0}

Init ==
  /\ program \in Programs
  /\ stage = "idle" /\ config = Default /\ touched = {}
  /\ value = NoValue /\ alive = FALSE /\ made = Default /\ logFile = 0 /\ stream = 0
  /\ file = [n \in Fds |-> 0] /\ holder = [n \in Fds |-> "nobody"]

-----------------------------------------------------------------------------
(* The setters that Swift calls, as `fill` writes them out.                *)
Set(f, x) == <<[do |-> "set", field |-> f, with |-> x]>>
Clear(f) == <<[do |-> "set", field |-> f, with |-> IF f = "hosts" THEN NoHosts ELSE IF f = "bootLog" THEN NoLog ELSE <<>>]>>
Push(f, x) == <<[do |-> "push", field |-> f, with |-> x]>>
Each(s, Call(_)) == FlattenSeq([i \in DOMAIN s |-> Call(s[i])])

(* A key's entry; keys are pushed in order, but a BTreeMap keeps its own.  *)
InsertCalls(m) ==
  Each(SetToSortSeq(DOMAIN m, LAMBDA j, k : j < k), LAMBDA k : <<[do |-> "insert", field |-> "sysctl", key |-> k, with |-> m[k]]>>)

(* Mutant: the addresses are set before the interface is pushed.           *)
InterfaceCallsIpv6First(i) ==
  IF i.kind = "vmnet" THEN Push("interfaces", i)
  ELSE (IF i.v6 = "absent" THEN <<>> ELSE <<[do |-> "ipv6", with |-> i.v6]>>)
       \o Push("interfaces", [kind |-> "nat", v6 |-> "absent"])

(* Any conforming type but vmnet's crosses as a NAT interface, which gets  *)
(* its IPv6 address, if any, once it is the last one pushed.               *)
InterfaceCalls(i) ==
  IF i.kind = "vmnet" THEN Push("interfaces", i)
  ELSE Push("interfaces", [kind |-> "nat", v6 |-> "absent"])
       \o (IF i.v6 = "absent" THEN <<>> ELSE <<[do |-> "ipv6", with |-> i.v6]>>)

HostsCalls(hosts) ==
  IF hosts.set
  THEN Set("hosts", [NoHosts EXCEPT !.set = TRUE]) \o Each(hosts.entries, LAMBDA e : <<[do |-> "entry", with |-> e]>>)
  ELSE <<>>

(* Mutant: a boot log reads back as the duplicate that Swift writes to.    *)
BootLogCallsHandle(log) ==
  IF log.kind = "none" THEN <<>>
  ELSE Set("bootLog", [kind |-> log.kind, number |-> log.handle])

(* The caller's number for it, which its handle remembers.                 *)
BootLogCalls(log) ==
  IF log.kind = "none" THEN <<>>
  ELSE Set("bootLog", [kind |-> log.kind, number |-> log.number])

(* Mutant: the mounts that the seed came with are not cleared.             *)
ContainerCallsKeeping(v) ==
  Set("plain", v.plain) \o Clear("sysctl") \o Clear("sockets") \o InsertCalls(v.sysctl)

(* A container's own part, before and after the one it shares with a pod.  *)
ContainerCalls(v) ==
  Set("plain", v.plain) \o Clear("sysctl") \o Clear("sockets") \o Clear("mounts") \o InsertCalls(v.sysctl)

SandboxCalls(v) ==
  Clear("interfaces") \o Clear("hosts") \o Clear("bootLog")
    \o Each(v.interfaces, InterfaceCalls) \o HostsCalls(v.hosts) \o BootLogCalls(v.bootLog)
    \o Set("seccomp", v.seccomp)

(* All but stdio: Swift's streams do not cross back.                       *)
FillCalls(v) ==
  ContainerCalls(v) \o SandboxCalls(v)
    \o Each(v.sockets, LAMBDA s : Push("sockets", s)) \o Each(v.mounts, LAMBDA m : Push("mounts", m))

(* What a setter does, and the value it has to find: the accessors panic   *)
(* with `unreachable!` if they find another.                               *)
Expected(c, s) ==
  /\ s.do = "ipv6" => c.interfaces # <<>> /\ Last(c.interfaces).kind = "nat"
  /\ s.do = "entry" => c.hosts.set

Apply(c, s) ==
  CASE s.do = "set" -> [c EXCEPT ![s.field] = s.with]
    [] s.do = "push" -> [c EXCEPT ![s.field] = Append(@, s.with)]
    [] s.do = "insert" -> [c EXCEPT ![s.field] = [k \in DOMAIN @ \cup {s.key} |-> IF k = s.key THEN s.with ELSE @[k]]]
    [] s.do = "ipv6" -> [c EXCEPT !.interfaces = [@ EXCEPT ![Len(@)].v6 = s.with]]
    [] s.do = "entry" -> [c EXCEPT !.hosts.entries = Append(@, s.with)]

(* A default of Rust's, filled: nobody else sees it before that is over.   *)
Fill(v) ==
  LET calls == FillCalls(v)
      After(i) == FoldLeft(Apply, Default, SubSeq(calls, 1, i))
  IN  /\ config' = After(Len(calls)) /\ touched' = {}
      /\ stage' = IF \A i \in DOMAIN calls : Expected(After(i - 1), calls[i]) THEN "lent" ELSE "panicked"

-----------------------------------------------------------------------------
(* Containerization calls `configuring`'s closure with the value it        *)
(* seeded, for Rust's default to be filled with.                           *)
Seed ==
  /\ stage = "idle"
  /\ value' \in program.seeds
  /\ Fill(value')
  /\ UNCHANGED <<program, alive, made, logFile, stream, table>>

(* `new_with` and a pod's `new`: the closure runs in Rust, on the default, *)
(* as a pod container's does: what Swift seeds there is that default.      *)
Begin ==
  /\ stage = "idle"
  /\ stage' = "lent" /\ config' = Default /\ touched' = {}
  /\ UNCHANGED <<program, value, alive, made, logFile, stream, table>>

(* `config()`: another default is filled with what the container has.      *)
ReadBack ==
  /\ stage = "made"
  /\ Fill(value)
  /\ UNCHANGED <<program, value, alive, made, logFile, stream, table>>

Change ==
  /\ stage = "lent"
  /\ \E c \in program.settings, f \in Fields :
       /\ Cardinality(touched \cup {f}) <= MaxTouched
       /\ config' = [config EXCEPT ![f] = c[f]]
       /\ touched' = touched \cup {f}
  /\ UNCHANGED <<program, stage, value, alive, made, logFile, stream, table>>

-----------------------------------------------------------------------------
Free == {n \in Fds : file[n] = 0}

(* The table once some numbers are closed, and one is duplicated first.    *)
Closing(closed) ==
  /\ file' = [n \in Fds |-> IF n \in closed THEN 0 ELSE file[n]]
  /\ holder' = [n \in Fds |-> IF n \in closed THEN "nobody" ELSE holder[n]]

Duplicating(number, n, closed) ==
  /\ file' = [m \in Fds |-> IF m = n THEN file[number] ELSE IF m \in closed THEN 0 ELSE file[m]]
  /\ holder' = [m \in Fds |-> IF m = n THEN "swift" ELSE IF m \in closed THEN "nobody" ELSE holder[m]]

(* `make`, up to the process's streams, which it duplicates first.         *)
MakeProcess ==
  /\ stage = "lent"
  /\ stage' = "making"
  /\ \/ /\ config.stdio = 0
        /\ UNCHANGED <<program, stream, table>>
     \/ \E n \in Free :
          /\ config.stdio # 0 /\ file[config.stdio] # 0
          /\ stream' = n
          /\ Duplicating(config.stdio, n, {})
  /\ UNCHANGED <<program, config, touched, value, alive, made, logFile>>

(* A map's keys can be equal in Swift, where the first stays and the last  *)
(* one's value wins.                                                       *)
Dictionary(m) ==
  LET Equal(k) == {j \in DOMAIN m : Class(j) = Class(k)}
  IN  [k \in {k \in DOMAIN m : \A j \in Equal(k) : k <= j} |-> m[CHOOSE j \in Equal(k) : \A l \in Equal(k) : l <= j]]

(* A shared mount's subpath crosses as its only option.                    *)
MountOf(m) == IF m.kind = "shared" /\ m.options # <<>> THEN [m EXCEPT !.options = <<Head(@)>>] ELSE m

(* The value Swift makes, `handle` being its boot log's own number.        *)
Value(c, own, handle) ==
  [plain |-> c.plain, stdio |-> own, sysctl |-> Dictionary(c.sysctl), sockets |-> c.sockets,
   interfaces |-> c.interfaces, mounts |-> [i \in DOMAIN c.mounts |-> MountOf(c.mounts[i])],
   hosts |-> c.hosts, seccomp |-> c.seccomp,
   bootLog |-> [kind |-> c.bootLog.kind, number |-> c.bootLog.number, handle |-> handle]]

Kept(handle) ==
  /\ value' = Value(config, stream, handle)
  /\ made' = config
  /\ stage' = "made" /\ alive' = TRUE /\ stream' = 0
  /\ config' = Default /\ touched' = {}
  /\ UNCHANGED program

(* Mutant: the boot log is written to through the caller's own number.     *)
MakeBorrowing ==
  /\ stage = "making"
  /\ Kept(config.bootLog.number)
  /\ logFile' = IF config.bootLog.kind = "handle" THEN file[config.bootLog.number] ELSE 0
  /\ Closing({n \in Handles(value) : holder[n] = "swift"})

(* The rest of it; the value that it replaces is let go.                   *)
Make ==
  /\ stage = "making"
  /\ \/ /\ config.bootLog.kind \in {"none", "file"}
        /\ Kept(0) /\ logFile' = 0
        /\ Closing(Handles(value))
     \/ \E n \in Free :
          /\ config.bootLog.kind = "handle" /\ file[config.bootLog.number] # 0
          /\ Kept(n) /\ logFile' = file[config.bootLog.number]
          /\ Duplicating(config.bootLog.number, n, Handles(value))

(* A number that is not open or cannot be duplicated; or text that Swift   *)
(* cannot make its value of, such as a path that is not UTF-8.             *)
Unmakeable(log) ==
  \/ log.kind = "malformed"
  \/ log.kind = "handle" /\ (file[log.number] = 0 \/ Free = {})

(* Mutant: the duplicate that was made for the process stays open.         *)
GiveUpLeaking ==
  /\ stage = "lent" \/ (stage = "making" /\ Unmakeable(config.bootLog))
  /\ stage' = (IF alive THEN "made" ELSE "idle")
  /\ value' = (IF alive THEN value ELSE NoValue)
  /\ config' = Default /\ touched' = {} /\ stream' = 0
  /\ UNCHANGED <<program, alive, made, logFile, table>>

(* The closure throws, or the value cannot be made: the seed is gone,      *)
(* while a container that was read back is as it was.  Rust also gives up  *)
(* a configuration that it only looks at.                                  *)
GiveUp ==
  /\ stage = "lent" \/ (stage = "making" /\ Unmakeable(config.bootLog))
  /\ stage' = (IF alive THEN "made" ELSE "idle")
  /\ value' = (IF alive THEN value ELSE NoValue)
  /\ config' = Default /\ touched' = {} /\ stream' = 0
  /\ Closing({stream} \ {0})
  /\ UNCHANGED <<program, alive, made, logFile>>

(* The container is dropped, and its configuration with it.                *)
Drop ==
  /\ stage = "made"
  /\ stage' = "idle" /\ value' = NoValue /\ alive' = FALSE
  /\ made' = Default /\ logFile' = 0
  /\ Closing(Handles(value))
  /\ UNCHANGED <<program, config, touched, stream>>

(* The host program's own use of its table.                                *)
HostOpen(n, f) ==
  /\ file[n] = 0
  /\ file' = [file EXCEPT ![n] = f] /\ holder' = [holder EXCEPT ![n] = "host"]
  /\ UNCHANGED <<program, stage, config, touched, value, alive, made, logFile, stream>>

HostClose(n) ==
  /\ holder[n] = "host"
  /\ file' = [file EXCEPT ![n] = 0] /\ holder' = [holder EXCEPT ![n] = "nobody"]
  /\ UNCHANGED <<program, stage, config, touched, value, alive, made, logFile, stream>>

Next ==
  \/ Seed \/ Begin \/ ReadBack \/ Change
  \/ MakeProcess \/ Make \/ GiveUp \/ Drop
  \/ \E n \in Fds : HostClose(n) \/ \E f \in program.files : HostOpen(n, f)

Spec == Init /\ [][Next]_vars

-----------------------------------------------------------------------------
(* No accessor panics with `unreachable!`, whatever Swift's value holds:   *)
(* `fill` calls its setters in an order that they allow.                   *)
NeverUnreachable == stage # "panicked"

(* What a container is made with reads back as Rust set it, whatever that  *)
(* was and whatever became of its descriptors, but for two things that     *)
(* the code says are lost: its streams, and keys that are equal in Swift.  *)
ReadsBackWhatItMade ==
  stage = "lent" /\ touched = {} /\ alive =>
    config = [made EXCEPT !.stdio = 0, !.sysctl = Dictionary(@)]

(* What Swift has, apart from streams and numbers of its own; an interface *)
(* of a type the bridge does not know is a NAT interface.                  *)
Contents(v) ==
  [v EXCEPT !.stdio = 0, !.bootLog.handle = 0,
            !.interfaces = [i \in DOMAIN @ |-> [@[i] EXCEPT !.kind = IF @ = "vmnet" THEN @ ELSE "nat"]]]

(* A closure changes what it touches and nothing else: every other field   *)
(* that Containerization seeded, or that was read back, is made again.     *)
UntouchedIsKept ==
  [][stage = "making" /\ stage' = "made" /\ value # NoValue =>
       \A f \in Fields \ touched : Contents(value')[f] = Contents(value)[f]]_vars

(* A container's boot log goes on to the file that the caller lent, while  *)
(* they close its number and open another file under it.                   *)
LogStaysPut ==
  alive /\ value.bootLog.kind = "handle" =>
    holder[value.bootLog.handle] = "swift" /\ file[value.bootLog.handle] = logFile

(* No duplicate outlives the value it was made for, also when the making   *)
(* fails halfway.                                                          *)
NoLeak ==
  \A n \in Fds : holder[n] = "swift" => n \in Handles(value) \cup {stream}

=============================================================================
