SPECIFICATION Spec
CONSTANTS
  MaxChunks = 1
  MaxStreams = 2
  MaxInterrupts = 0
CHECK_DEADLOCK FALSE
PROPERTY
  StreamEnds
