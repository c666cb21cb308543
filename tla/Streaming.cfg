CONSTANTS
  LineLimit = 2
  TailLimit = 4
  Chunk = 2
  PipeSize = 3
  MaxBytes = 5
SPECIFICATION Spec
INVARIANTS TypeOK LinesAreThoseWritten NothingSecret FinalErrorSurvives NothingRunsOn
PROPERTIES CallEnds
CHECK_DEADLOCK FALSE
