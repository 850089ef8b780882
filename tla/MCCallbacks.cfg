SPECIFICATION Spec
CONSTANTS
  Reporters = {r1, r2, r3}
  MaxReports = 2
  Configurer = Configurer
  None = None
SYMMETRY Symmetry
INVARIANTS
  PanicsSurface
  ErrorsSurface
  LateCallsBounded
  PanicEndsItsTasksReports
