SPECIFICATION Spec
CONSTANTS
  Values = {x, y}
  Bytes = {b, c}
  Keys = {1, 2, 3}
  Canonical <- CanonicalKeys
  MaxLen = 2
  Half = 4
CHECK_DEADLOCK FALSE
INVARIANTS
  NeverAsksAmiss
  CopiesWhole
