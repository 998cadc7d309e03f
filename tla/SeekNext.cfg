SPECIFICATION Spec
CONSTANTS
  Configurations <- PartlyMarkedFiles
  SeekLen = 5
  SkipsNil = FALSE
INVARIANT SeekNextReadsNext
CHECK_DEADLOCK FALSE
