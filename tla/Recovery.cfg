SPECIFICATION Spec
CONSTANTS
  Keys = {1}
  Values = {v1, v2}
  Tombstone = Tombstone
  Absent = Absent
  Garbage = Garbage
  Writers = {w}
  Readers = {}
  MemstoreMaxSize = 1
  MaxWalFileRecords = 9
  EnableCompactions = TRUE
  CompactionFileThreshold = 1
  CompactionMaxSizeBytes = 99
  RatioNum = 1
  RatioDen = 5
  CrashPoints = {"between", "headers"}
  MaxMutations = 3
  MaxOpens = 3
SYMMETRY Symmetry
INVARIANTS Inv LineagePreserved
PROPERTY Durable
