SPECIFICATION FairProcessSpec
CONSTANTS
  Timeouts = {0, 200}
  Step = 100
  MaxTime = 300
  MaxOut = 3
  MaxErr = 1
  PipeSize = 2
  BufferSize = 2
  Flush = 2
  ReadMax = 2
  MaxLoops = 3
  CallbackUnhooks = FALSE
CHECK_DEADLOCK FALSE
INVARIANTS BuffersSound EndsClean OutcomeTrue
PROPERTIES ProcessEnds
