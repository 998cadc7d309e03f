SPECIFICATION FairSpec
CONSTANTS
  Keys = {1}
  Values = {v1}
  Tombstone = Tombstone
  Absent = Absent
  Garbage = Garbage
  Writers = {w1, w2}
  Readers = {r}
  MemstoreMaxSize = 1
  MaxWalFileRecords = 9
  EnableCompactions = TRUE
  CompactionFileThreshold = 0
  CompactionMaxSizeBytes = 99
  RatioNum = 1
  RatioDen = 5
  CrashPoints = {"between"}
  MaxMutations = 3
  MaxOpens = 2
INVARIANTS MemoryMatchesDisk GetSeesLatest WalInLockstep MergeKeepsAll
PROPERTIES ImplementsKVStore CallsReturn CompactionEnds
