SPECIFICATION FairSpec
CONSTANTS
  Execs = {x1}
  Inits = {i1}
  Deleters = {d1, d2}
  Lent = {a, b}
  MaxFd = 2
  MaxWrites = 2
  Host = Host
  None = None
INVARIANTS
  NeverStray
  OpenWhileNeeded
  ChunksWhole
PROPERTY
  DeleteReturns
