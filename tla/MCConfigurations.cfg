SPECIFICATION Spec
CONSTANTS
  Programs <- TwoPrograms
  Class <- Pairs
  MaxTouched = 2
  MaxFd = 4
  Files = {f, g}
SYMMETRY Symmetry
INVARIANTS
  NeverUnreachable
  ReadsBackWhatItMade
  LogStaysPut
  NoLeak
PROPERTY
  UntouchedIsKept
