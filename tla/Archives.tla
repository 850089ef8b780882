------------------------------ MODULE Archives ------------------------------
(***************************************************************************)
(* Who may use an archive, and when (src/containerization_archive and      *)
(* src/containerization_ext4/ext4/formatter.rs, over Archive.swift and     *)
(* Ext4.swift).                                                            *)
(*                                                                         *)
(* Swift's classes here are not Sendable, yet the bridge marks them so,    *)
(* and some of them keep a pointer into the archive of another.  What      *)
(* keeps a program safe is what Rust's types let it write: which values    *)
(* move to another thread, which are shared, and which borrow which.  The  *)
(* model is any program that compiles.  A borrow is over once its base is  *)
(* moved, dropped, or used as `&mut`: the borrower may still exist, since  *)
(* nothing that drops it uses the borrow, but it can only be dropped.      *)
(***************************************************************************)
CONSTANTS
  Threads,
  Writers, Transactions, Entries,     \* ArchiveWriter, and what it makes
  Readers, Iterators, EntryReaders,   \* ArchiveReader, and what it makes
  Formatters,                         \* EXT4's
  Descriptors,                        \* what `with_file_handle` is given
  None

Archives == Writers \cup Readers
Bases == Archives \cup Formatters
Borrowers == Transactions \cup Entries \cup Iterators \cup EntryReaders
Objects == Bases \cup Borrowers

ASSUME ArchivesAssumption ==
  /\ None \notin Threads \cup Objects
  /\ Bases \cap Borrowers = {}
  /\ Threads \cap Readers = {}
  /\ Writers \cap Readers = {}
  /\ "caller" \notin Readers

VARIABLES
  host,     \* the platform: macOS, or elsewhere, where nothing can be made
  holder,   \* the thread that owns each Rust value, None if it is not there
  of,       \* the value each borrower borrows, None if it borrows nothing
  refers,   \* the archive its Swift object keeps a pointer to, if any
  usable,   \* the borrowers whose borrow is not over
  archive,  \* what became of the archive of each writer and reader
  using,    \* the values each thread's call in progress is made with
  owners,   \* who will close each descriptor
  open      \* the descriptors that are open

vars == <<host, holder, of, refers, usable, archive, using, owners, open>>
values == <<holder, of, refers, usable>>
descriptors == <<owners, open>>

TypeOK ==
  /\ host \in {"macOS", "elsewhere"}
  /\ holder \in [Objects -> Threads \cup {None}]
  /\ of \in [Borrowers -> Archives \cup {None}]
  /\ refers \in [Borrowers -> Archives \cup {None}]
  /\ usable \in SUBSET Borrowers
  /\ archive \in [Archives -> {"none", "open", "freed"}]
  /\ using \in [Threads -> SUBSET Objects]
  /\ owners \in [Descriptors -> SUBSET (Threads \cup Readers \cup {"caller"})]
  /\ open \in SUBSET Descriptors

Init ==
  /\ host \in {"macOS", "elsewhere"}
  /\ holder = [o \in Objects |-> None]
  /\ of = [b \in Borrowers |-> None]
  /\ refers = [b \in Borrowers |-> None]
  /\ usable = {}
  /\ archive = [a \in Archives |-> "none"]
  /\ using = [t \in Threads |-> {}]
  /\ owners = [d \in Descriptors |-> {}]
  /\ open = {}

BorrowersOf(base) == {b \in Borrowers : of[b] = base}

\* A thread that is in no call of the bridge.
Idle(t) == using[t] = {} /\ \A d \in Descriptors : t \notin owners[d]

-----------------------------------------------------------------------------
(* What Rust's types allow.                                                *)

\* Mutant: a transaction can be sent as its writer can.
SendWithTransactions == Bases \cup Transactions

\* The `unsafe impl Send`s.  The others hold a raw pointer, and have none.
SendTypes == Bases

\* Mutant: `unsafe impl Sync for ArchiveReader`.
SyncReaders == Readers

\* There is no `unsafe impl Sync`.
SyncTypes == {}

\* A value is used by the thread that has it, or through a shared reference
\* another thread was lent; a borrower only while its borrow lasts.
MayUse(t, o) ==
  /\ holder[o] = t \/ (o \in SyncTypes /\ holder[o] # None)
  /\ o \in Borrowers => o \in usable

\* The values the methods are called with.
WriterCalls ==
  {{w} : w \in Writers} \cup {{w, e} : w \in Writers, e \in Entries}
TransactionCalls ==
  {{x} : x \in Transactions} \cup {{x, e} : x \in Transactions, e \in Entries}
EntryCalls == {{e} : e \in Entries}
ReaderCalls == {{r} : r \in Readers}
IteratorCalls == {{i} : i \in Iterators}
EntryReaderCalls == {{s} : s \in EntryReaders}
FormatterCalls ==
  {{f} : f \in Formatters} \cup {{f, r} : f \in Formatters, r \in Readers}

Calls ==
  UNION {WriterCalls, TransactionCalls, EntryCalls, ReaderCalls, IteratorCalls,
         EntryReaderCalls, FormatterCalls}

-----------------------------------------------------------------------------
(* Making values.  Elsewhere every constructor fails.                      *)

Unmade(o) == holder[o] = None

Make(t, o, base, pointer) ==
  /\ host = "macOS" /\ Unmade(o)
  /\ holder' = [holder EXCEPT ![o] = t]
  /\ of' = [of EXCEPT ![o] = base]
  /\ refers' = [refers EXCEPT ![o] = pointer]
  /\ usable' = usable \cup {o}

\* `new` and its siblings; a name is used again when nothing is left of it.
MakeBase(t, o) ==
  /\ host = "macOS" /\ Unmade(o) /\ BorrowersOf(o) = {} /\ Idle(t)
  /\ holder' = [holder EXCEPT ![o] = t]
  /\ archive' = [a \in Archives |-> IF a = o THEN "open" ELSE archive[a]]
  /\ UNCHANGED <<host, of, refers, usable, using, descriptors>>

\* What a writer makes once its archive is freed has no archive.
Pointer(base) == IF archive[base] = "open" THEN base ELSE None

\* `make_transaction_writer` and `WriteEntry::with_archive`.
FromWriter(t, w, b) ==
  /\ b \in Transactions \cup Entries
  /\ Idle(t) /\ MayUse(t, w)
  /\ Make(t, b, w, Pointer(w))
  /\ UNCHANGED <<host, archive, using, descriptors>>

\* `WriteEntry::new`, and each entry an iterator or `extract_file` returns.
NewEntry(t, e) ==
  /\ Idle(t)
  /\ Make(t, e, None, None)
  /\ UNCHANGED <<host, archive, using, descriptors>>

\* `make_iterator` and `make_streaming_iterator`.
MakeIterator(t, r, i) ==
  /\ Idle(t) /\ MayUse(t, r)
  /\ Make(t, i, r, Pointer(r))
  /\ UNCHANGED <<host, archive, using, descriptors>>

-----------------------------------------------------------------------------
(* Calls, which take a while.                                              *)

Begin(t, call) ==
  /\ Idle(t) /\ \A o \in call : MayUse(t, o)
  /\ using' = [using EXCEPT ![t] = call]
  /\ UNCHANGED <<host, values, archive, descriptors>>

End(t) ==
  /\ using[t] # {}
  /\ using' = [using EXCEPT ![t] = {}]
  /\ UNCHANGED <<host, values, archive, descriptors>>

\* A StreamingIterator's `next` returns a reader that borrows what it does.
EndNextStreaming(t, i, s) ==
  /\ using[t] = {i}
  /\ Make(t, s, of[i], refers[i])
  /\ using' = [using EXCEPT ![t] = {}]
  /\ UNCHANGED <<host, archive, descriptors>>

\* Mutant: `finish_encoding` takes `&self`.
FinishEncodingShared(t, w) ==
  /\ Idle(t) /\ MayUse(t, w)
  /\ using' = [using EXCEPT ![t] = {w}]
  /\ archive' \in {archive, [archive EXCEPT ![w] = "freed"]}
  /\ UNCHANGED <<host, values, descriptors>>

\* `finish_encoding(&mut self)` ends every borrow.  It may throw before it
\* has freed the archive.  One that is freed stays so.
FinishEncoding(t, w) ==
  /\ Idle(t) /\ holder[w] = t
  /\ usable' = usable \ BorrowersOf(w)
  /\ using' = [using EXCEPT ![t] = {w}]
  /\ archive' \in {archive, [archive EXCEPT ![w] = "freed"]}
  /\ UNCHANGED <<host, holder, of, refers, descriptors>>

-----------------------------------------------------------------------------
(* Moving and dropping values.                                             *)

\* A move to another thread, which ends every borrow.
Send(t, u, o) ==
  /\ Idle(t) /\ t # u /\ o \in SendTypes /\ holder[o] = t
  /\ o \in Borrowers => o \in usable
  /\ holder' = [holder EXCEPT ![o] = u]
  /\ usable' = usable \ BorrowersOf(o)
  /\ UNCHANGED <<host, of, refers, archive, using, descriptors>>

\* What a Swift object's end frees: its archive, and a reader's descriptors.
Free(gone) ==
  /\ archive' = [a \in Archives |-> IF a \in gone THEN "freed" ELSE archive[a]]
  /\ owners' = [d \in Descriptors |-> owners[d] \ gone]
  /\ open' = {d \in open : owners[d] \cap gone = {}}

\* A base's Swift object ends with it, unless a borrower's keeps it.
DropBase(t, o) ==
  /\ Idle(t) /\ o \in Bases /\ holder[o] = t
  /\ holder' = [holder EXCEPT ![o] = None]
  /\ usable' = usable \ BorrowersOf(o)
  /\ \/ Free({o})
     \/ BorrowersOf(o) # {} /\ UNCHANGED <<archive, descriptors>>
  /\ UNCHANGED <<host, of, refers, using>>

DropBorrower(t, b) ==
  /\ Idle(t) /\ b \in Borrowers /\ holder[b] = t
  /\ holder' = [holder EXCEPT ![b] = None]
  /\ of' = [of EXCEPT ![b] = None]
  /\ refers' = [refers EXCEPT ![b] = None]
  /\ usable' = usable \ {b}
  /\ IF of[b] # None /\ holder[of[b]] = None /\ BorrowersOf(of[b]) = {b}
     THEN Free({of[b]}) ELSE UNCHANGED <<archive, descriptors>>
  /\ UNCHANGED <<host, using>>

-----------------------------------------------------------------------------
(* `ArchiveReader::with_file_handle`, which is given a descriptor.         *)

\* The program opens a file, or drops the OwnedFd it has of one.
OpenFile(d) ==
  /\ d \notin open
  /\ open' = open \cup {d}
  /\ owners' = [owners EXCEPT ![d] = @ \cup {"caller"}]
  /\ UNCHANGED <<host, values, archive, using>>

CloseFile(d) ==
  /\ "caller" \in owners[d]
  /\ open' = open \ {d}
  /\ owners' = [owners EXCEPT ![d] = @ \ {"caller"}]
  /\ UNCHANGED <<host, values, archive, using>>

\* Mutant: the descriptor crosses `as_raw_fd`, and stays the OwnedFd's.
LendDescriptor(t, d) ==
  /\ Idle(t) /\ "caller" \in owners[d]
  /\ owners' = [owners EXCEPT ![d] = @ \cup {t}]
  /\ UNCHANGED <<host, values, archive, using, open>>

\* `into_raw_fd`: the descriptor is the call's, whose FileHandle closes it.
GiveDescriptor(t, d) ==
  /\ Idle(t) /\ "caller" \in owners[d]
  /\ owners' = [owners EXCEPT ![d] = (@ \ {"caller"}) \cup {t}]
  /\ UNCHANGED <<host, values, archive, using, open>>

\* The reader keeps the FileHandle.
WithFileHandle(t, d, r) ==
  /\ host = "macOS" /\ t \in owners[d] /\ Unmade(r) /\ BorrowersOf(r) = {}
  /\ holder' = [holder EXCEPT ![r] = t]
  /\ archive' = [archive EXCEPT ![r] = "open"]
  /\ owners' = [owners EXCEPT ![d] = (@ \ {t}) \cup {r}]
  /\ UNCHANGED <<host, of, refers, usable, using, open>>

\* The initializer throws, and the last reference to the FileHandle goes.
WithFileHandleThrows(t, d) ==
  /\ host = "macOS" /\ t \in owners[d]
  /\ owners' = [owners EXCEPT ![d] = @ \ {t}]
  /\ open' = open \ {d}
  /\ UNCHANGED <<host, values, archive, using>>

\* Elsewhere the stand-in closes it.
WithFileHandleElsewhere(t, d) ==
  /\ host = "elsewhere" /\ t \in owners[d]
  /\ owners' = [owners EXCEPT ![d] = @ \ {t}]
  /\ open' = open \ {d}
  /\ UNCHANGED <<host, values, archive, using>>

-----------------------------------------------------------------------------
Next ==
  \/ \E t \in Threads :
       \/ \E o \in Bases : MakeBase(t, o) \/ DropBase(t, o)
       \/ \E w \in Writers :
            \/ \E b \in Borrowers : FromWriter(t, w, b)
            \/ FinishEncoding(t, w)
       \/ \E e \in Entries : NewEntry(t, e)
       \/ \E i \in Iterators :
            \/ \E r \in Readers : MakeIterator(t, r, i)
            \/ \E s \in EntryReaders : EndNextStreaming(t, i, s)
       \/ \E call \in Calls : Begin(t, call)
       \/ End(t)
       \/ \E o \in Objects, u \in Threads : Send(t, u, o)
       \/ \E b \in Borrowers : DropBorrower(t, b)
       \/ \E d \in Descriptors :
            \/ GiveDescriptor(t, d)
            \/ \E r \in Readers : WithFileHandle(t, d, r)
            \/ WithFileHandleThrows(t, d)
            \/ WithFileHandleElsewhere(t, d)
  \/ \E d \in Descriptors : OpenFile(d) \/ CloseFile(d)

Spec == Init /\ [][Next]_vars

-----------------------------------------------------------------------------
(* Properties.                                                             *)

(* No call uses an archive that was freed: neither `finish_encoding` nor   *)
(* the end of a writer or reader leaves a transaction, an entry, an        *)
(* iterator or an entry reader that could still be called (the promise of  *)
(* archive_writer.rs:95-97, for every way a borrow can end).               *)
NoUseAfterFree ==
  \A t \in Threads : \A b \in using[t] \cap Borrowers :
    refers[b] # None => archive[refers[b]] = "open"

\* The Swift objects a call uses that are not made for two threads.
Touches(t) ==
  using[t] \cup ({refers[b] : b \in using[t] \cap Borrowers} \ {None})

(* Two threads' calls never use one Swift object, nor one archive, at the  *)
(* same time, though Swift was told by `@unchecked Sendable` not to look   *)
(* (Archive.swift:107, :298, :356, :422, :460, :473 and :486).             *)
OneAtATime ==
  \A t, u \in Threads : t # u => Touches(t) \cap Touches(u) = {}

(* A descriptor given to `with_file_handle` has one owner at any time, who *)
(* is there to close it, whether the reader is made or not, and on every   *)
(* platform: it is closed once and never leaked ("The reader owns          *)
(* `file_handle`, and closes it.", archive_reader.rs:44-45).               *)
ClosedOnce ==
  \A d \in Descriptors :
    /\ \A p, q \in owners[d] : p = q
    /\ d \in open <=> owners[d] # {}
    /\ \A r \in owners[d] \cap Readers : archive[r] = "open"

=============================================================================
