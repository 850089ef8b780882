SPECIFICATION Spec
CONSTANTS
  Reporters = {r1, r2}
  MaxReports = 1
  Configurer = Configurer
  None = None
INVARIANT
  NotCalledAfterPanic
