# A TLA+ model of containerization-framework

This crate lets Rust programs use Apple's Containerization framework. Most of it
is a bridge: a Rust module tree (`src/src`), a Swift package
(`src/swift/Sources/ContainerizationBridge`) and the glue that swift-bridge
generates between them. What Containerization does to a virtual machine is its
own. What the bridge has to get right is everything in between: synchronous Rust
calls into async Swift, Rust closures that Swift calls on threads of its own,
values that cross field by field, and descriptors and handles that two
languages own together.

The modules here model that part. Each is checked on small instances by TLC, and
for several of them the properties are proved for every value of the constants
by TLAPS.

## The system

### Components

| Component | State it keeps | Operations | What makes it correct |
| --- | --- | --- | --- |
| Blocking calls (`Blocking.swift`) | per call: a detached task, its body, a slot for the outcome, a semaphore | `blocking`, `offPool` | every call returns, with its own outcome; nothing it lent outlives it; no pool thread is parked |
| Callbacks (`platform/mod.rs`, `Extras.swift`) | `Panic`, `Progress`, `Configure`, `Thrown`: what a closure threw, or its panic, kept for the calling thread | `progressing`, `configured`, `with_descriptor`, `enumerating` | no panic or error is swallowed or made up; precedence among them |
| Stdio (`Stdio.swift`) | `FileReader`: a duplicate descriptor and its readability handler; `FileWriter`: a duplicate and a lock; `Output`: the writers of a process | `stream`, `write`, `close`, `keep`, `configuring` | input in order and bounded loss; no write or close hits somebody else's descriptor; no leak |
| Vsock listener (`vsock_listener.rs`, `VirtualMachine.swift`) | an `AsyncStream`'s iterator behind a lock | `next`, `finish` | awaited by one task at a time; one owner for each connection; `finish` ends a wait |
| Vmnet networks, container managers | a Swift struct per handle with a record of addresses; one allocator for all copies | `new`, `create_interface`, `release_interface`, `create*`, `release_network`, `delete` | an address is used once and can always be given back |
| Configuration crossing (`Model/ContainerModel.swift`, `bridge/accessors/container`) | Rust's value while Swift fills it; Swift's value once it is made | `fill`, `init`, `config` | setters in an order the accessors allow; what a closure leaves alone survives; what was made reads back |
| Outcomes (`Bridged.swift`, `Conversions.swift`, every file's `extension CzOutcome`) | what a call made or threw | `error`, `taken`, `at`, `isSome`, … | Rust takes what Swift put in, whatever that is; what was thrown is the `Err` that comes out; a nil is a `None`; what does not fit is never acted on |
| Linux containers, pods, processes | Containerization's, behind a handle | `create`, `start`, `exec`, `stop`, … each passed on | the stdio they own; see Stdio |
| Virtual machine instances, guest agent (`VirtualMachine.swift`, `Vminitd.swift`) | a handle; duplicates share one connection | each passed on; `close`, `duplicate` | dialled descriptors have one owner |
| Content store, images, registry (`LocalContentStore.swift`, `ImageStore.swift`, `RegistryClient.swift`) | files of the store; an ingest session while it is open | `ingest`, `get`, `delete`, `pull`, … | a session that fails leaves nothing |
| Archives, EXT4 (`Archive.swift`, `Ext4.swift`, `containerization_archive`, `formatter.rs`) | an archive that is open or freed; transactions, entries, iterators and entry readers that point into it; a formatter | `next_entry`, `read`, `write_entry`, `finish_encoding`, `with_file_handle`, `create`, `close` | nothing uses an archive that was freed, or from two threads at once, though Swift was told not to look; a descriptor that was handed over is closed once |
| Addresses and small values (`Addresses.swift`, `Values.swift`, `Model/AddressModel.swift`) | none | conversions | every value that crosses comes back |
| OS utilities (`OS.swift`, `FileDescriptorOps.swift`, `IO.swift`) | none, or a terminal's initial state | system calls passed on; `mkdir` and `enumerate` call closures | what a closure throws ends the walk and reaches the caller |
| Runtime spec and image values (`Spec.swift`, `Model/*.swift`, `bridge/accessors`) | none | lent field by field, rebuilt | no getter is asked for what is not there; every field crosses, nil for `None` and for nothing else |
| Stand-in for other platforms (`platform/unsupported`) | none | every call fails | a program that compiles gets an error, and meets no `unreachable!` |

### How they interact

A Rust thread calls a method of a handle. The method calls Swift through the
glue, which hands the work to `blocking` and wraps its result in a `CzOutcome`;
Rust asks it for an error and takes the value. While the call is under way Swift
may call closures of Rust's: a configuration closure in place, on a thread of
Swift's cooperative pool, and a progress handler through `offPool`, on a thread
of Dispatch. A closure can call back into the bridge, so calls nest. What a
closure throws is kept in Rust and read by the calling thread once Swift has
returned. Configurations cross by being filled and read; the descriptors they
name are duplicated, and the duplicates belong to the process they were made
for. Managers copy the network struct they are made on.

### What is hard here

* Two runtimes share a few threads: a parked pool thread can stop everything.
* A panic cannot unwind through Swift, and up to four failures of one call have
  to become one result.
* Swift's handlers, relays and cancellations run on queues of their own, at the
  same time as Rust's threads.
* Descriptor numbers are reused as soon as they are closed, by the host program
  as well.
* Swift copies structs where Rust moves handles.
* Accessors are called in an order that only the other language's code shows.

`PROJECT.json` lists each such hazard at the line where it bites, with the
properties that would catch it, or why none does.

## Modules

All of these are written; what is still planned is at the end. The order is the
order of importance: first what every call goes through, then what runs at the
same time as calls, then what they carry.

| Module | Models | Extends / composes |
| --- | --- | --- |
| `SynchronousCalls` | what `blocking` promises its makers: calls that nest and return once | abstract |
| `Blocking` | `blocking`, `offPool`, nested calls, the cooperative pool | implements `SynchronousCalls` |
| `Callbacks` | `progressing` around `configured`, `ingest`, `with_descriptor`, `enumerating`; `Panic`, `Progress`, `Configure`, `Thrown` | |
| `GuestInput` | what a guest's stdin promises: chunks in order, and a bound on those dropped | abstract |
| `FileReader` | a guest's stdin: handler, stream, cancellation, re-creation | implements `GuestInput` |
| `Output` | a guest's stdout and stderr over the host's descriptor table | |
| `Connections` | what a listener promises: an iterator any thread may advance | abstract |
| `VsockListener` | the listener's lock, stream and `finish` | implements `Connections` |
| `AddressPools` | what a network promises: one pool of addresses for as long as it is in use | abstract |
| `Networks` | networks, managers, their records and allocators | implements `AddressPools` |
| `Configurations` | seed, fill, change, make, read back, over a descriptor table | |
| `Archives` | writers, readers and what they make, over any program Rust's types allow; descriptors that are handed over | |
| `Outcomes` | one call, from its arguments to what Rust returns, for any tables of the two sides, on macOS and elsewhere | |
| `ImageCalls`, `ArchiveCalls`, `SystemCalls`, `ContainerCalls`, `AddressCalls`, `SpecCalls` | those tables, for the calls of the bridge by subject | given to `Outcomes` by `MCOutcomes` |
| `StandIns` | which handles each call takes where there is no Swift | given to `Outcomes` by `MCOutcomes` |
| `LentFields` | for each type that Swift copies: what Rust holds, the getters it lends, how Swift reads them | |
| `Lending` | the copying of one field, getter by getter | extends `LentFields` |
| `BlockingProofs`, `CallbacksProofs`, `FileReaderProofs`, `OutputProofs`, `VsockListenerProofs`, `NetworksProofs`, `ArchivesProofs`, `OutcomesProofs` | the theorems | extend the module they are named after; `OutputProofs` has those about `Configurations`' descriptors too |
| `MC*` | instances for TLC | extend the module they are named after |

### Blocking

A call is a record of one `blocking`: `task` is where its detached task is,
`body` and `closure` are what Swift still holds of it, `outcome` is the slot,
`semaphore` the signal, `returned` what the maker got. `maker` says who parked
for it: a thread of the program, or another call whose closure made it. `Run`
takes a ready task onto one of `PoolWidth` pool threads; `Await` and `Resume`
give the thread up and back; `OffPool`, `RunClosure` and `ResumeContinuation`
are `offPool`'s three steps; `Configure` and `Configured` run a closure in place;
`Finish`, `Signal` and `Return` are the end of the body, of the task and of
`blocking`. `obey` says whether configuration closures keep to their docs, which
ask them not to call back; it is chosen once, so a run shows both. `MaxSteps` bounds the awaits, closures and nested
calls of one body.

`SynchronousCalls` is what the maker of a call sees: it makes the call, does nothing
else, and gets back what the body ended with, after every call that the body's
closures made. A call is under way there for as long as somebody is parked for it.
`Call` and `Return` map to their namesakes and `Finish`, the end of the body, to
`End`; what the pool, the detached task, closures and the semaphore do is a stutter.

### Callbacks

One bridge call, again and again: `Begin`, then `Swift`'s side. Each of
`Reporters` reports progress up to `MaxReports` times. A report is admitted
(`Admit`) or refused (`Refuse`) by `Progress::call`'s question whether a panic
was kept, which is asked under the lock; the handler runs after the lock was
given back (`Handle`), and returns or panics; `Keep` stores the panic. These are
separate steps because other reporters run in between. `RunConfigure` and what
follows are `Configure::call` and what Swift makes of it. `ThrownOutcome` and
`ResumeProgress` are what the calling thread does with it all.

`closure` says which call it is. `configure` is `ContainerManager::create`, the
widest. `ingest` is the content store's, whose body must have run if it succeeds.
`completion` is `mkdir`, whose closure gets the descriptor of what was
made and is called at most once; `body` is `enumerate`, whose closure is called
for one entry after the other, until it throws. They share `Thrown`, and
`Served` says how far a closure must be for a call to succeed.

### FileReader

`input` is what the caller's descriptor holds, `handler` whose readability
handler is installed, `run` the run of a handler that is under way with its
buffer, `stream[s]` the state of the s-th stream. `Read` is `read(2)`; `Retry`,
`Yield`, `ClearHandler`, `Finish` and `Terminated` are the branches of the handler
in their order: a run at the end clears the handler, finishes the stream, and the
stream's `onTermination`, which `finish` calls in place, clears the handler once
more. `Cancel` is Containerization's; its `OnTermination` runs some time later and
does not wait for a run.

`GuestInput` has neither handlers nor runs: it is the input, and each chunk at its
head is delivered to the open stream or dropped by a cancelled one. Under the
mapping a chunk that a run has read and not yet yielded is still the head of the
input. `Read`, `Retry` and `Terminated` are then stutters, `Yield` a `Deliver` or a `Drop`, and a
`Finish` by a run that met the end is a `Finish` if its stream is open and nothing
otherwise.

### Output

`table` is the host process's descriptor table. `Make` is
`LinuxProcessConfiguration.init`, which duplicates stdout and, unless it is the
same number, stderr. Relays write in two steps, so that a chunk can be cut in
two by anything that is not excluded by the writer's lock. `Delete`, `Close` and
`Deleted` are `CzLinuxProcess.delete`, with one step per writer. `HostOpen` and
`HostClose` are the rest of the program, which takes the lowest or any other
free number.

### Connections and VsockListener

`Connections` is the promise: a queue, threads that wait, and an end. The
listener adds the lock `advancing` and the two places where a `next` can wait,
for the lock and for the stream. Under the mapping at the end of `VsockListener`
locking, awaiting and returning are stutters, and taking from the stream is the
abstract `Take`.

### Networks

A handle is a network's or a manager's. `NewManager` is every constructor that
is given a network: Swift copies the struct, Rust drops the handle. `Allocate`
and `Deallocate` are Containerization's, as the bridge uses them. A manager's
`create` is in three steps because seeding the interface comes before Rust's
closure and whatever fails after it.

`AddressPools` knows networks in use and leases, and neither handles nor copies. A
network is in use while some handle has it, and a lease is what any of its holders
records. Moving a network into a manager is a stutter under this mapping, which is
the point of it: nothing is lost or given twice in the copying.

### Configurations

`FillCalls` is the sequence of setters that `fill` calls for a value, and `Fill`
applies them one after the other to Rust's default. A setter that finds the
value in a state its accessor calls `unreachable!` panics. Filling is one step,
since nobody else sees the value before it is over. `program` is the host
program that runs: what Containerization seeds for it, what its closures set and
which files it opens. `Change` is a closure,
field by field, with `touched` remembering which. `MakeProcess` and `Make` are the
two places where descriptors are duplicated, with `GiveUp` between and around
them. `ReadBack` is `config()`. Fields with one setter and one getter are one
field, `plain`; maps, lists that need a second setter, optional parts, mounts,
the boot log and the seccomp profile each have a field because each crosses in a
way of its own. Keys of maps are numbers, and `Class` says which of them Swift
takes for the same string.

### Archives

Swift's archive classes are not `Sendable`, are marked `@unchecked Sendable`, and
some keep a pointer into another's archive. What keeps a program safe is what
Rust's types let it write, so the model is any program that compiles: `holder` is
the thread that owns a value, `of` what it borrows, and `usable` the borrowers
whose borrow is not over. `SendTypes` and `SyncTypes` are the `unsafe impl`s, and
the lack of them. A borrow ends when its base is moved (`Send`), dropped
(`DropBase`), or used as `&mut self` (`FinishEncoding`); the borrower may still be
there then, and all it can do is be dropped (`DropBorrower`). `archive` and
`refers` are Swift's side: the archive an object points into, and whether it was
freed, which `FinishEncoding` and the end of the last reference do. A call has a
`Begin` and an `End`, so that two threads' calls overlap; `using` is what a call
touches. `GiveDescriptor`, `WithFileHandle` and its two failures are
`with_file_handle`, with `owners` saying who is to close a descriptor.

### Outcomes and the tables of calls

The tables hold four hundred calls, and all of them go the same way: Rust makes
its arguments into what can cross (`Cross`), Swift's closure rejects them
(`Reject`), gives a value (`Give`) or throws (`Throw`), and Rust takes the outcome
apart (`AskError`, `AskPresence`, `Each`, `Get`, `Check`, `Finish`). `Outcomes` is
that way. What the two sides of a call do is not in it but in two tables, because
that is how the code has it: the Swift side says what the closure can give
(`Returns`), what each getter's cast takes (`Casts`), which fields of a value are
outcomes again (`Parts`) and what the case of an error carries (`Carries`); the Rust
side says in which order it asks (`Reads`), for which fields (`Fields`), what it
asks of an error (`Inspects`) and which arguments may not fit (`Takes`). Each was
translated from its own language's files, so that a disagreement of the code is a
disagreement of the tables and stops the model where it would stop the program.

A type is a sequence of words such as `<<"list", "Platform">>`, a reading a
sequence of steps such as `<<"error", "list", "platform">>`. A call that reads in
more ways than one, because it looks at what it has read so far, has a set of
readings. A list's elements, and a map's, are all of one type and read alike, so
one stands for all; of statistics, which cross as lists of numbers, the tables know
the length of a list and not the order in it. A runtime spec is read to the bottom of what it
holds (`SpecCalls`). Left out are calls whose value is a plain number or flag and
crosses without an outcome.

`host` is chosen once. Elsewhere than on macOS, stand-ins take Swift's place: most
handles are uninhabited there, so that only calls that take none of them can be
made, and those fail with an outcome whose getters are all `unreachable!`.
`StandIns` lists, file by file, which handles each call takes.

What no compiler of either language sees, that the two tables agree, is put as one
would see it: `Agree(fits)` says that `fits`, a set of types with readings, is a
typing of everything the calls can give, closed under taking a value apart
(`Onward`), in which every step suits its type (`Suits`), and that calls that can
fail are read by asking for the error first. `SidesAgree` in `MCOutcomes` collects
the typing of the bridge's own tables (`Fits`) and checks it. Running the calls and
checking their types are two different questions: the first follows each call to
what it returns, the second is what makes the answer hold for calls that are added
later (see Proofs).

### LentFields and Lending

The other direction: Swift copies a value that Rust lends. swift-bridge returns
neither collections nor optional structs, so such a field has a set of getters:
whether it is there, its length, the element at an index. A getter asked for what
is not there is `unreachable!` or an index out of range. What Rust holds, what it
lends and what Swift reads are written in three places that no compiler compares,
and `LentFields` has a table for each, for 49 types. A small struct that only one
other holds is read through its holder, and its fields are the holder's.

`Lending` picks a field and a value it may hold, and copies it as the initializer
does: `AskHas` for each gate, then `AskValue`, `AskHalves` for a number of 128
bits, or `AskLen` and the elements, which are those of a list (`AskAt`), of a map
(`AskEntry`), enums (`AskKind`, `AskPayload`) or extended attributes, which cross
joined and are cut apart (`Slice`). An `Option` is a sequence of at most one
value. A map's keys have classes, because Swift compares strings by canonical
equivalence and Rust by bytes. `AskedFirst` is what Swift asks before it knows an
enum's kind: a pod volume's location, for which Rust has a stand-in if the volume
is a tmpfs (`AnswersAnyway`). A value that is no collection crosses as it is:
the raw values of enums are compared by the repository's own tests. Left out are
dates and durations, a formatter's link, and a prefix too long for Swift, which
makes the call throw.

## Runs

| Run | Shows | Bounds |
| --- | --- | --- |
| `blocking` | safety, refinement and liveness: nothing hangs with obedient closures, and what still returns is sound when they call back from the pool | 2 threads, 3 calls (a call, one nested in it and one in that, or beside it), one pool thread, which is the tightest, 2 steps each |
| `callbacks` | precedence and completeness of errors and panics, and how often the handler is still called after one | 3 reporters, 2 reports each: one that is late twice, and one that comes between |
| `callbacks_after_panic` | a finding | 2 reporters, the least that races |
| `file_reader` | order, loss, end, refinement | 4 chunks, 3 streams, 1 interrupted read: a run of the first stream can end in the third |
| `file_reader_again` | a finding | 1 chunk, 2 streams |
| `output` | ownership of descriptors, and `delete` returns | an exec'ed and an init process, 2 deleters, 2 numbers, which two writers and the host take from each other, 2 chunks |
| `vsock_listener` | exclusion, ownership, refinement, `finish` ends every wait | 3 threads, 3 connections: one waits for the lock, one for the stream, one finishes |
| `networks` | ownership of addresses, and that all copies of a network are one pool | 3 handles, 2 networks of 2 addresses, 3 ids: more ids than addresses |
| `configurations` | values and descriptors | a program of values: 2 seeds that between them have each kind of part, a closure that changes 2 fields, 4 keys in 2 classes; and a program of descriptors: 4 numbers, the caller's, the process's, and the boot log's old and new |
| `archives` | no use after free, one thread at a time, descriptors closed once | 2 threads, one value of each type and one descriptor: every property is about two threads, or about a borrower and its base |
| `outcomes` | the two sides of every call agree, by a typing and by running them: no cast fails, failures and nils come through, nothing is done with half an argument; elsewhere every call fails cleanly | every call of the tables with every type, failure and misfit, on both hosts; one call at a time, since calls share no outcome; `MaxOnward`, 12 steps of a reading into the fields of fields: were it too low, the typing would not be closed and `SidesAgree` would fail |
| `lending` | no getter is asked amiss, and the copy is the value | every field of every type; 2 values, lists and attributes up to 2, 3 keys of which 2 are equal to Swift, and 4 in place of 2^64: an element that is skipped, repeated or cut in the wrong place, and a carry between halves, show there |

Symmetry is used where model values are interchangeable and no liveness
property is checked.

`CHECK_DEADLOCK FALSE` is given where the system may really stop: disobedient
closures can park every pool thread; a `FileReader` stops once its input is over
or its streams are; a listener stops when it is finished, or waits when nobody
connects; the copying of a field ends.

### Fairness

* `Blocking`: strong fairness of `Run`. The pool serves every ready task in the
  end, but another may take the thread that came free. Weak fairness of
  everything else: what Swift awaits arrives, Dispatch finds a thread, and a
  thread that can move does.
* `FileReader`: weak fairness of the handler's steps and of `OnTermination`,
  which Dispatch and Swift's runtime run.
* `Output`: weak fairness of `EndWrite`: whoever lent a descriptor drains it, or
  `delete` waits for as long as the write does. Strong fairness of `Close`, which
  waits for a lock that relays take again and again.
* `VsockListener`: strong fairness of `Lock`, for the same reason.

## Findings

1. `Progress` says that its handler is not called again once it panicked
   (`src/src/platform/mod.rs:74`). It can be: the question and the call are not
   one step, and Swift reports from several tasks. `NotCalledAfterPanic` fails;
   `LateCallsBounded` and `PanicEndsItsTasksReports`, which are proved, say how far
   it goes: every other task calls the handler once more at most, and the task that
   it panicked on does not call it again.
2. A `FileReader` that is streamed again after its container was stopped and
   created again can lose its end: a run of the first stream's handler that meets
   the end of the input clears the second stream's handler, and that stream is
   never finished. `StreamEnds` fails for a reader that is streamed twice;
   `FirstStreamEnds` holds.

## Proofs

All theorems are of the form `Spec => []P`, or one of the four refinements
`Spec => ImplementsConnections`, `ImplementsSynchronousCalls`, `ImplementsGuestInput`
and `ImplementsAddressPools`, and hold for every value of the constants under
the assumptions that the modules name; those of `OutcomesProofs` have one more
hypothesis, which a run discharges. Each rests on an inductive invariant,
because the property alone is not preserved by every step.

* `BlockingProofs`. `StageInv` ties `task`, `body`, `closure`, `outcome` and
  `semaphore` of a call together: what Swift holds depends only on how far the
  task got, and the semaphore is signalled last. `ParkedInv` says that a call made
  from a closure is waited for by that closure and by nothing else, which gives
  nesting and keeps the pool free. The five safety properties follow, and so does the
  refinement: by `StageInv` a call has its outcome exactly if its body has ended, so
  that a closure's call is made before that, and by `ParkedInv` none of those is
  under way when it ends.
* `CallbacksProofs`. `PhaseInv` orders the three parties; `KeptInv` says whose
  panic is kept; `ThrownInv` what `Thrown` holds until it is read; `LateInv` that a
  late call's report was admitted before the panic was kept, so that there is one
  for each reporter at most; `StoppedInv` that a task whose report panicked is
  unwinding or done reporting, for until it has kept its panic it asks nothing, and
  from then on one is kept.
* `ArchivesProofs`. `BorrowsHold` says that a borrow that is not over keeps its base
  with the thread that has the borrower, and the archive it points into open;
  `CallsHold` that a call in progress is made with values that its thread holds and
  whose borrows last. Together with `ClosedOnce` they are inductive, and the other
  properties follow, for any number of threads, values and descriptors.
* `VsockListenerProofs`. `LockInv` makes the lock's holder the only thread past
  it; `BufferInv` and `OwnerInv` split the connections made so far into those
  in the buffer, in order, and those with one owner each. The refinement maps
  each action to one of `Connections`' or to a stutter.
  The type invariant, that nothing but a connection is handed out, is a theorem
  of its own. No run repeats it, nor those of `Blocking`, `Callbacks`, `Output` and
  `Networks`, which are theorems too: the runs are for what a small instance can tell us more of.
* `NetworksProofs`. `OneHolder` says that a network is one handle's, which is
  what makes a copied record safe; `RecordInv` that the record and the allocator
  split the addresses. The type invariant is a theorem of its own: it needs the
  record to be right, since giving back an address that is not on it goes wrong. For the refinement,
  `OneHolder` makes the union of the holders' records the record of one handle
  (`HoldersRecord`), so that what an allocator hands out is leased to nobody; a
  move hands that record on unchanged, and is a stutter.
* `OutputProofs`. `NeverStray` and `OpenWhileNeeded` are about a table of numbers
  that the host program reuses. `HandleInv` and `TableInv` make a writer's handle
  and the table each other's inverse, so that a number a writer still knows cannot
  be the host's; `WriterInv` and `TargetInv` say which writer an end of a process
  has, and that two writers of one process are open on different descriptors;
  `WritingInv` that whoever is mid-chunk has the writer's lock, which a `Close`
  has to wait for; `DeletingInv` that a thread in `delete` has yet to close each
  writer of its process that is open, which is what makes two threads that delete
  one process harmless.

  `NeverLeaks` and `LogAlwaysStaysPut` are about the descriptors of `Configurations`,
  of which the module makes an instance, `Crossing`: the same argument about the same
  table. `OwnedInv` says that a duplicate is open and is one of the container's handles
  or of the value being made, and `LogInv` that the container's boot log has a
  duplicate of its own, which is open on the file that the caller named.
* `FileReaderProofs`. The invariant counts: `Taken` is how many chunks left the
  caller's descriptor, `Given` how many of them were yielded or lost, and the two
  differ by the chunk that a run has in its hands. `InputInv` says that what is
  left begins after `Taken`, `StretchInv` that each stream has a stretch of what was
  given and the open one ends with `Given`, and `FreshInv` that a stream opened
  while an earlier stream's run goes on has nothing yet: that run's chunk is older
  than any the new stream will get. With `StreamInv`, which orders the streams
  and says whose handler may be installed, these give `InOrder`. `LossInv` says that
  a stream which lost a chunk has no run, handler or termination left to lose
  another by; `EndInv` that a run which takes the input to be over is right. The
  refinement adds that the stream of a run is open or was cancelled, never finished:
  `LossInv` then allows the abstract `Drop`, and `EndInv` the abstract `Finish`.
* `OutcomesProofs`. The theorems are about any two tables and any `fits` with
  `Agree(fits)`: they are the soundness of that typing. `FitInv` says that what is
  being read and what is left of the reading are in `fits`, for as long as nothing
  was thrown, and `FailureInv` that a failure is held only while the reading is
  about to ask for it. There is a lemma for each step of a reading: it cannot trap
  (`StepSuits`), and goes on within `fits` (`GoesOn`) or settles with the right
  answer (`Settles`). For the tables of this bridge the hypothesis is `SidesAgree`,
  which TLC checks; so the theorems say of a call that is added, or of a getter
  that is changed, that agreeing with the other side is enough.

What is checked by TLC only:

* Liveness, which is beyond the prover.
* `Lending`, which is about particular tables. TLC goes through all of them, with lists
  and attributes up to the run's bounds; that longer ones are copied whole would
  take induction over their length, through the joining of attributes.
* `Configurations`' values. `NeverUnreachable`, `ReadsBackWhatItMade` and
  `UntouchedIsKept` say what a fold over a list of setters computes, which would take
  induction over that list.
* `SidesAgree`, a calculation over the tables.

## What is not modelled

* Containerization itself: the virtual machine, the guest, the registry's
  network traffic, the image formats, the sessions of the content store, the
  connection that duplicates of an agent share. Where the bridge depends on what
  it does (it cancels a relay, calls a closure once, allocates an address), an
  action marked external stands for it.
* The glue swift-bridge generates, and `bridge/mod.rs` and its siblings, which only
  declare; `build.rs` and the tooling.
* Dates, durations, the raw values of enums and the texts of errors; the bytes of
  EXT4's inodes and superblocks.
* `exec_with`'s closure calling back into the container whose lock Swift holds: the
  lock is Containerization's, and `Blocking` has the part that is the bridge's.
* Dispatch's own limit of threads, lost wake-ups of the system's semaphores, and
  memory orderings: the code uses locks and a semaphore throughout.

## Plan

What is left of the system is mostly Containerization's own or has no state. Worth
adding: dates and durations, as functions checked over small ranges.

Theorems worth adding: that `Output` implements an abstract specification of a guest's
output, a file that gets whole chunks, as `FileReader` does one of its input.
