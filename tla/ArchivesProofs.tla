--------------------------- MODULE ArchivesProofs ---------------------------
(***************************************************************************)
(* That no archive is used once it is freed, nor by two threads at once,   *)
(* and that a descriptor is closed once, for any number of threads,        *)
(* writers, readers and formatters and of what they make.                  *)
(***************************************************************************)
EXTENDS Archives, TLAPS

\* A borrow that is not over keeps its base where the borrower is, and the
\* archive it points into open.
BorrowsHold ==
  \A b \in usable :
    /\ holder[b] \in Threads
    /\ of[b] # None => holder[of[b]] = holder[b]
    /\ refers[b] # None => refers[b] = of[b] /\ archive[refers[b]] = "open"

\* A call in progress is its thread's, with values that stay there.
CallsHold ==
  \A t \in Threads : \A o \in using[t] :
    holder[o] = t /\ (o \in Borrowers => o \in usable)

IInv == TypeOK /\ BorrowsHold /\ CallsHold /\ ClosedOnce

LEMMA InitIInv == Init => IInv
BY ArchivesAssumption DEF Init, IInv, TypeOK, BorrowsHold, CallsHold, ClosedOnce, Objects

(* Each call is made with values of the model.                             *)
LEMMA CallsType == \A call \in Calls : call \subseteq Objects
BY DEF Calls, WriterCalls, TransactionCalls, EntryCalls, ReaderCalls, IteratorCalls,
       EntryReaderCalls, FormatterCalls, Objects, Bases, Archives, Borrowers

LEMMA TypeStep == TypeOK /\ [Next]_vars => TypeOK'
<1> SUFFICES ASSUME TypeOK, [Next]_vars PROVE TypeOK'
  OBVIOUS
<1> USE ArchivesAssumption DEF TypeOK, values, descriptors, Objects, Bases, Archives, Borrowers
<1>1. ASSUME NEW t \in Threads, NEW o \in Bases, MakeBase(t, o) PROVE TypeOK'
  BY <1>1 DEF MakeBase
<1>2. ASSUME NEW t \in Threads, NEW o \in Bases, DropBase(t, o) PROVE TypeOK'
  BY <1>2 DEF DropBase, Free
<1>3. ASSUME NEW t \in Threads, NEW w \in Writers, NEW b \in Borrowers, FromWriter(t, w, b) PROVE TypeOK'
  BY <1>3 DEF FromWriter, Make, Pointer
<1>4. ASSUME NEW t \in Threads, NEW w \in Writers, FinishEncoding(t, w) PROVE TypeOK'
  BY <1>4 DEF FinishEncoding
<1>5. ASSUME NEW t \in Threads, NEW e \in Entries, NewEntry(t, e) PROVE TypeOK'
  BY <1>5 DEF NewEntry, Make
<1>6. ASSUME NEW t \in Threads, NEW i \in Iterators, NEW r \in Readers, MakeIterator(t, r, i) PROVE TypeOK'
  BY <1>6 DEF MakeIterator, Make, Pointer
<1>7. ASSUME NEW t \in Threads, NEW i \in Iterators, NEW s \in EntryReaders, EndNextStreaming(t, i, s) PROVE TypeOK'
  BY <1>7 DEF EndNextStreaming, Make
<1>8. ASSUME NEW t \in Threads, NEW call \in Calls, Begin(t, call) PROVE TypeOK'
  BY <1>8, CallsType DEF Begin
<1>9. ASSUME NEW t \in Threads, End(t) PROVE TypeOK'
  BY <1>9 DEF End
<1>10. ASSUME NEW t \in Threads, NEW o \in Objects, NEW u \in Threads, Send(t, u, o) PROVE TypeOK'
  BY <1>10 DEF Send
<1>11. ASSUME NEW t \in Threads, NEW b \in Borrowers, DropBorrower(t, b) PROVE TypeOK'
  BY <1>11 DEF DropBorrower, Free
<1>12. ASSUME NEW t \in Threads, NEW d \in Descriptors, GiveDescriptor(t, d) PROVE TypeOK'
  BY <1>12 DEF GiveDescriptor
<1>13. ASSUME NEW t \in Threads, NEW d \in Descriptors, NEW r \in Readers, WithFileHandle(t, d, r) PROVE TypeOK'
  BY <1>13 DEF WithFileHandle
<1>14. ASSUME NEW t \in Threads, NEW d \in Descriptors, WithFileHandleThrows(t, d) PROVE TypeOK'
  BY <1>14 DEF WithFileHandleThrows
<1>15. ASSUME NEW t \in Threads, NEW d \in Descriptors, WithFileHandleElsewhere(t, d) PROVE TypeOK'
  BY <1>15 DEF WithFileHandleElsewhere
<1>16. ASSUME NEW d \in Descriptors, OpenFile(d) PROVE TypeOK'
  BY <1>16 DEF OpenFile
<1>17. ASSUME NEW d \in Descriptors, CloseFile(d) PROVE TypeOK'
  BY <1>17 DEF CloseFile
<1>18. CASE UNCHANGED vars
  BY <1>18 DEF vars
<1>19. QED
  BY <1>1, <1>2, <1>3, <1>4, <1>5, <1>6, <1>7, <1>8, <1>9, <1>10, <1>11, <1>12, <1>13, <1>14, <1>15, <1>16, <1>17, <1>18 DEF Next

LEMMA BorrowsStep == IInv /\ [Next]_vars => BorrowsHold'
<1> SUFFICES ASSUME IInv, [Next]_vars PROVE BorrowsHold'
  OBVIOUS
<1> USE ArchivesAssumption DEF IInv, TypeOK, BorrowsHold, values, descriptors,
         Objects, Bases, Archives, Borrowers, BorrowersOf
<1>1. ASSUME NEW t \in Threads, NEW o \in Bases, MakeBase(t, o) PROVE BorrowsHold'
  BY <1>1 DEF MakeBase, Unmade
<1>2. ASSUME NEW t \in Threads, NEW o \in Bases, DropBase(t, o) PROVE BorrowsHold'
  BY <1>2 DEF DropBase, Free
<1>3. ASSUME NEW t \in Threads, NEW w \in Writers, NEW b \in Borrowers, FromWriter(t, w, b) PROVE BorrowsHold'
  BY <1>3 DEF FromWriter, Make, Pointer, MayUse, SyncTypes, Unmade
<1>4. ASSUME NEW t \in Threads, NEW w \in Writers, FinishEncoding(t, w) PROVE BorrowsHold'
  BY <1>4 DEF FinishEncoding
<1>5. ASSUME NEW t \in Threads, NEW e \in Entries, NewEntry(t, e) PROVE BorrowsHold'
  BY <1>5 DEF NewEntry, Make, Unmade
<1>6. ASSUME NEW t \in Threads, NEW i \in Iterators, NEW r \in Readers, MakeIterator(t, r, i) PROVE BorrowsHold'
  BY <1>6 DEF MakeIterator, Make, Pointer, MayUse, SyncTypes, Unmade
<1>7. ASSUME NEW t \in Threads, NEW i \in Iterators, NEW s \in EntryReaders, EndNextStreaming(t, i, s) PROVE BorrowsHold'
  BY <1>7 DEF EndNextStreaming, Make, CallsHold
<1>8. ASSUME NEW t \in Threads, NEW call \in Calls, Begin(t, call) PROVE BorrowsHold'
  BY <1>8 DEF Begin, MayUse, SyncTypes
<1>9. ASSUME NEW t \in Threads, End(t) PROVE BorrowsHold'
  BY <1>9 DEF End
<1>10. ASSUME NEW t \in Threads, NEW o \in Objects, NEW u \in Threads, Send(t, u, o) PROVE BorrowsHold'
  BY <1>10 DEF Send, SendTypes
<1>11. ASSUME NEW t \in Threads, NEW b \in Borrowers, DropBorrower(t, b) PROVE BorrowsHold'
  BY <1>11 DEF DropBorrower, Free
<1>12. ASSUME NEW t \in Threads, NEW d \in Descriptors, GiveDescriptor(t, d) PROVE BorrowsHold'
  BY <1>12 DEF GiveDescriptor
<1>13. ASSUME NEW t \in Threads, NEW d \in Descriptors, NEW r \in Readers, WithFileHandle(t, d, r) PROVE BorrowsHold'
  BY <1>13 DEF WithFileHandle, Unmade
<1>14. ASSUME NEW t \in Threads, NEW d \in Descriptors, WithFileHandleThrows(t, d) PROVE BorrowsHold'
  BY <1>14 DEF WithFileHandleThrows
<1>15. ASSUME NEW t \in Threads, NEW d \in Descriptors, WithFileHandleElsewhere(t, d) PROVE BorrowsHold'
  BY <1>15 DEF WithFileHandleElsewhere
<1>16. ASSUME NEW d \in Descriptors, OpenFile(d) PROVE BorrowsHold'
  BY <1>16 DEF OpenFile
<1>17. ASSUME NEW d \in Descriptors, CloseFile(d) PROVE BorrowsHold'
  BY <1>17 DEF CloseFile
<1>18. CASE UNCHANGED vars
  BY <1>18 DEF vars
<1>19. QED
  BY <1>1, <1>2, <1>3, <1>4, <1>5, <1>6, <1>7, <1>8, <1>9, <1>10, <1>11, <1>12, <1>13, <1>14, <1>15, <1>16, <1>17, <1>18 DEF Next

LEMMA CallsStep == IInv /\ [Next]_vars => CallsHold'
<1> SUFFICES ASSUME IInv, [Next]_vars PROVE CallsHold'
  OBVIOUS
<1> USE ArchivesAssumption DEF IInv, TypeOK, CallsHold, BorrowsHold, values, descriptors,
         Objects, Bases, Archives, Borrowers, BorrowersOf
<1>1. ASSUME NEW t \in Threads, NEW o \in Bases, MakeBase(t, o) PROVE CallsHold'
  BY <1>1 DEF MakeBase, Unmade, Idle
<1>2. ASSUME NEW t \in Threads, NEW o \in Bases, DropBase(t, o) PROVE CallsHold'
  <2>1. ASSUME NEW v \in Threads, NEW c \in using[v] PROVE c # o /\ v # t /\ (c \in usable => of[c] # o)
    BY <1>2 DEF DropBase, Idle
  <2>2. \A c \in Objects : c # o => holder'[c] = holder[c]
    BY <1>2 DEF DropBase
  <2>3. using' = using /\ usable' = usable \ BorrowersOf(o)
    BY <1>2 DEF DropBase
  <2>4. QED
    BY <2>1, <2>2, <2>3
<1>3. ASSUME NEW t \in Threads, NEW w \in Writers, NEW b \in Borrowers, FromWriter(t, w, b) PROVE CallsHold'
  BY <1>3 DEF FromWriter, Make, Pointer, MayUse, SyncTypes, Idle, Unmade
<1>4. ASSUME NEW t \in Threads, NEW w \in Writers, FinishEncoding(t, w) PROVE CallsHold'
  BY <1>4 DEF FinishEncoding, Idle
<1>5. ASSUME NEW t \in Threads, NEW e \in Entries, NewEntry(t, e) PROVE CallsHold'
  BY <1>5 DEF NewEntry, Make, Unmade, Idle
<1>6. ASSUME NEW t \in Threads, NEW i \in Iterators, NEW r \in Readers, MakeIterator(t, r, i) PROVE CallsHold'
  BY <1>6 DEF MakeIterator, Make, Pointer, MayUse, SyncTypes, Idle, Unmade
<1>7. ASSUME NEW t \in Threads, NEW i \in Iterators, NEW s \in EntryReaders, EndNextStreaming(t, i, s) PROVE CallsHold'
  BY <1>7 DEF EndNextStreaming, Make, Unmade
<1>8. ASSUME NEW t \in Threads, NEW call \in Calls, Begin(t, call) PROVE CallsHold'
  BY <1>8 DEF Begin, MayUse, SyncTypes
<1>9. ASSUME NEW t \in Threads, End(t) PROVE CallsHold'
  BY <1>9 DEF End
<1>10. ASSUME NEW t \in Threads, NEW o \in Objects, NEW u \in Threads, Send(t, u, o) PROVE CallsHold'
  <2>1. ASSUME NEW v \in Threads, NEW c \in using[v] PROVE c # o /\ v # t /\ (c \in usable => of[c] # o)
    BY <1>10 DEF Send, Idle, SendTypes
  <2>2. \A c \in Objects : c # o => holder'[c] = holder[c]
    BY <1>10 DEF Send
  <2>3. using' = using /\ usable' = usable \ BorrowersOf(o)
    BY <1>10 DEF Send
  <2>4. QED
    BY <2>1, <2>2, <2>3
<1>11. ASSUME NEW t \in Threads, NEW b \in Borrowers, DropBorrower(t, b) PROVE CallsHold'
  BY <1>11 DEF DropBorrower, Free, Idle
<1>12. ASSUME NEW t \in Threads, NEW d \in Descriptors, GiveDescriptor(t, d) PROVE CallsHold'
  BY <1>12 DEF GiveDescriptor
<1>13. ASSUME NEW t \in Threads, NEW d \in Descriptors, NEW r \in Readers, WithFileHandle(t, d, r) PROVE CallsHold'
  BY <1>13 DEF WithFileHandle, Unmade
<1>14. ASSUME NEW t \in Threads, NEW d \in Descriptors, WithFileHandleThrows(t, d) PROVE CallsHold'
  BY <1>14 DEF WithFileHandleThrows
<1>15. ASSUME NEW t \in Threads, NEW d \in Descriptors, WithFileHandleElsewhere(t, d) PROVE CallsHold'
  BY <1>15 DEF WithFileHandleElsewhere
<1>16. ASSUME NEW d \in Descriptors, OpenFile(d) PROVE CallsHold'
  BY <1>16 DEF OpenFile
<1>17. ASSUME NEW d \in Descriptors, CloseFile(d) PROVE CallsHold'
  BY <1>17 DEF CloseFile
<1>18. CASE UNCHANGED vars
  BY <1>18 DEF vars
<1>19. QED
  BY <1>1, <1>2, <1>3, <1>4, <1>5, <1>6, <1>7, <1>8, <1>9, <1>10, <1>11, <1>12, <1>13, <1>14, <1>15, <1>16, <1>17, <1>18 DEF Next

LEMMA ClosedStep == IInv /\ [Next]_vars => ClosedOnce'
<1> SUFFICES ASSUME IInv, [Next]_vars PROVE ClosedOnce'
  OBVIOUS
<1> USE ArchivesAssumption DEF IInv, TypeOK, ClosedOnce, values, descriptors, Archives
<1>1. ASSUME NEW t \in Threads, NEW o \in Bases, MakeBase(t, o) PROVE ClosedOnce'
  BY <1>1 DEF MakeBase
<1>2. ASSUME NEW t \in Threads, NEW o \in Bases, DropBase(t, o) PROVE ClosedOnce'
  BY <1>2 DEF DropBase, Free
<1>3. ASSUME NEW t \in Threads, NEW w \in Writers, NEW b \in Borrowers, FromWriter(t, w, b) PROVE ClosedOnce'
  BY <1>3 DEF FromWriter, Make, Pointer
<1>4. ASSUME NEW t \in Threads, NEW w \in Writers, FinishEncoding(t, w) PROVE ClosedOnce'
  BY <1>4 DEF FinishEncoding
<1>5. ASSUME NEW t \in Threads, NEW e \in Entries, NewEntry(t, e) PROVE ClosedOnce'
  BY <1>5 DEF NewEntry, Make
<1>6. ASSUME NEW t \in Threads, NEW i \in Iterators, NEW r \in Readers, MakeIterator(t, r, i) PROVE ClosedOnce'
  BY <1>6 DEF MakeIterator, Make, Pointer
<1>7. ASSUME NEW t \in Threads, NEW i \in Iterators, NEW s \in EntryReaders, EndNextStreaming(t, i, s) PROVE ClosedOnce'
  BY <1>7 DEF EndNextStreaming, Make
<1>8. ASSUME NEW t \in Threads, NEW call \in Calls, Begin(t, call) PROVE ClosedOnce'
  BY <1>8 DEF Begin
<1>9. ASSUME NEW t \in Threads, End(t) PROVE ClosedOnce'
  BY <1>9 DEF End
<1>10. ASSUME NEW t \in Threads, NEW o \in Objects, NEW u \in Threads, Send(t, u, o) PROVE ClosedOnce'
  BY <1>10 DEF Send
<1>11. ASSUME NEW t \in Threads, NEW b \in Borrowers, DropBorrower(t, b) PROVE ClosedOnce'
  BY <1>11 DEF DropBorrower, Free
<1>12. ASSUME NEW t \in Threads, NEW d \in Descriptors, GiveDescriptor(t, d) PROVE ClosedOnce'
  BY <1>12 DEF GiveDescriptor
<1>13. ASSUME NEW t \in Threads, NEW d \in Descriptors, NEW r \in Readers, WithFileHandle(t, d, r) PROVE ClosedOnce'
  BY <1>13 DEF WithFileHandle
<1>14. ASSUME NEW t \in Threads, NEW d \in Descriptors, WithFileHandleThrows(t, d) PROVE ClosedOnce'
  BY <1>14 DEF WithFileHandleThrows
<1>15. ASSUME NEW t \in Threads, NEW d \in Descriptors, WithFileHandleElsewhere(t, d) PROVE ClosedOnce'
  BY <1>15 DEF WithFileHandleElsewhere
<1>16. ASSUME NEW d \in Descriptors, OpenFile(d) PROVE ClosedOnce'
  BY <1>16 DEF OpenFile
<1>17. ASSUME NEW d \in Descriptors, CloseFile(d) PROVE ClosedOnce'
  BY <1>17 DEF CloseFile
<1>18. CASE UNCHANGED vars
  BY <1>18 DEF vars
<1>19. QED
  BY <1>1, <1>2, <1>3, <1>4, <1>5, <1>6, <1>7, <1>8, <1>9, <1>10, <1>11, <1>12, <1>13, <1>14, <1>15, <1>16, <1>17, <1>18 DEF Next

LEMMA Invariance == Spec => []IInv
<1>1. IInv /\ [Next]_vars => IInv'
  BY TypeStep, BorrowsStep, CallsStep, ClosedStep DEF IInv
<1>2. QED
  BY <1>1, InitIInv, PTL DEF Spec

(* TypeOK, for any instance.                                               *)
THEOREM TypeCorrect == Spec => []TypeOK
<1>1. IInv => TypeOK
  BY DEF IInv
<1>2. QED
  BY <1>1, Invariance, PTL

(* However a borrow ends (`finish_encoding`, a move or a drop), what       *)
(* borrowed is never called again: no call uses a freed archive.           *)
THEOREM FreedIsUnused == Spec => []NoUseAfterFree
<1>1. IInv => NoUseAfterFree
  BY DEF IInv, BorrowsHold, CallsHold, NoUseAfterFree
<1>2. QED
  BY <1>1, Invariance, PTL

(* What `@unchecked Sendable` in Archive.swift and Ext4.swift relies on:   *)
(* the calls of two threads share no Swift object and no archive.          *)
THEOREM CallsAreApart == Spec => []OneAtATime
<1>1. ASSUME IInv, NEW t \in Threads, NEW o \in Touches(t) PROVE holder[o] = t
  BY <1>1 DEF IInv, TypeOK, BorrowsHold, CallsHold, Touches
<1>2. IInv => OneAtATime
  BY <1>1 DEF OneAtATime
<1>3. QED
  BY <1>2, Invariance, PTL

(* A descriptor given to `with_file_handle` is closed by one owner, that   *)
(* is there while the descriptor is open.                                  *)
THEOREM DescriptorsClosedOnce == Spec => []ClosedOnce
<1>1. IInv => ClosedOnce
  BY DEF IInv
<1>2. QED
  BY <1>1, Invariance, PTL

=============================================================================
