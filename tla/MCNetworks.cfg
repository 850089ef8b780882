SPECIFICATION Spec
CONSTANTS
  Handles = {h1, h2, h3}
  Networks = {n1, n2}
  Addresses = {a, b}
  Ids = {i, j, k}
  None = None
SYMMETRY Symmetry
INVARIANTS
  NoSharedAddress
  NothingStranded
PROPERTIES
  ImplementsAddressPools
