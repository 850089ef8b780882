SPECIFICATION Spec
CONSTANTS
  Threads = {t, u}
  Writers = {w}
  Transactions = {x}
  Entries = {e}
  Readers = {r}
  Iterators = {i}
  EntryReaders = {s}
  Formatters = {f}
  Descriptors = {d}
  None = None
SYMMETRY Symmetry
INVARIANTS
  NoUseAfterFree
  OneAtATime
  ClosedOnce
