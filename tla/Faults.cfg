SPECIFICATION SpecWithFaults
CONSTANTS
  Keys = {1, 2}
  Values = {v1, v2}
  Tombstone = Tombstone
  Absent = Absent
  Garbage = Garbage
  Writers = {w}
  Readers = {r}
  MemstoreMaxSize = 1
  MaxWalFileRecords = 9
  EnableCompactions = FALSE
  CompactionFileThreshold = 0
  CompactionMaxSizeBytes = 99
  RatioNum = 1
  RatioDen = 5
  CrashPoints = {"between", "bare", "headers", "index", "data"}
  FaultPoints = {"received", "bare", "headers", "index", "data", "complete", "removed", "write"}
  MaxMutations = 2
  MaxOpens = 3
SYMMETRY Symmetry
INVARIANTS MemoryMatchesDisk
PROPERTY Durable
CHECK_DEADLOCK FALSE
