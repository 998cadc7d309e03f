SPECIFICATION Spec
CONSTANTS
  IndexFiles <- SmallFiles
  IndexedKeys = {2, 4, 6}
  Targets = {1, 2, 3, 4, 6, 7}
  RecordLens = {17}
  HeaderSize = 8
  MinEntries = 1
  MaxEntries = 3
  offsetCacheMaxSize = 6
  MaxCalls = 1
INVARIANT GetFinds
CHECK_DEADLOCK FALSE
