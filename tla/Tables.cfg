SPECIFICATION TablesSpec
CONSTANTS
  IndexFiles <- SmallFiles
  IndexedKeys = {2, 4, 6, 8}
  Targets = {1, 2, 3, 4, 8, 9}
  RecordLens = {17, 31}
  HeaderSize = 8
  MinEntries = 0
  MaxEntries = 4
  offsetCacheMaxSize = 6
  MaxCalls = 2
  Keys = {1, 2}
  Values = {1, 2, 3, 4}
  Tombstone = Tombstone
  Absent = Absent
  Garbage = Garbage
  MaxTables = 4
INVARIANTS
  FoundIsRight SearchSound IndexComplete SliceAgrees
  HeapSound MergesAsSpecified
PROPERTIES CallsReturn MergeEnds
