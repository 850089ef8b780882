SPECIFICATION Spec
CONSTANTS
  MaxChunks = 4
  MaxStreams = 3
  MaxInterrupts = 1
CHECK_DEADLOCK FALSE
INVARIANTS
  InOrder
  LossBounded
  FinishesAtTheEnd
PROPERTIES
  ImplementsGuestInput
  FirstStreamEnds
