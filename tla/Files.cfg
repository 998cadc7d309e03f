SPECIFICATION FilesSpec
CONSTANTS
  Configurations <- Files
  SeekLen = 5
  SkipsNil = FALSE
  WalRecords <- SmallWalRecords
  Compressed = TRUE
  maxWalFileSize = 20
  MaxFiles = 3
  MaxAppends = 4
  MaxRotates = 1
  Cuts = {"header", "record"}
  TableKeys = {1, 2, 3}
  Values = {1, 2}
  Callers = {"free", "flush", "merge"}
  Faults = {"data", "index", "close"}
  MaxFaults = 2
INVARIANTS
  RoundTrip SeekNextFinds ReaderInStep StoppedKeepsPrefix
  ReplayKeepsOrder OpeningKeepsRecords
  ReadsBack CallerWritesAll
PROPERTIES RotatedIsFinal
CHECK_DEADLOCK FALSE
