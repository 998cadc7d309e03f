SPECIFICATION Spec
CONSTANTS
  Keys = {1}
  Values = {v1, v2}
  Tombstone = Tombstone
  Absent = Absent
  Garbage = Garbage
  Writers = {w}
  Readers = {}
  MemstoreMaxSize = 1
  MaxWalFileRecords = 9
  EnableCompactions = TRUE
  CompactionFileThreshold = 0
  CompactionMaxSizeBytes = 2
  RatioNum = 1
  RatioDen = 5
  CrashPoints = {}
  MaxMutations = 2
  MaxOpens = 2
SYMMETRY Symmetry
PROPERTY Durable
