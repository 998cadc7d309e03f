SPECIFICATION MemorySpec
CONSTANTS
  Keys = {1, 3, 4, 6}
  Targets = {2, 4}
  MaxHeight = 3
  MaxIterators = 1
  StoreKeys = {1, 2}
  StoreValues = {0, 1, 3}
  memstoreMaxSize = 6
  StoreCallers = {"nonempty", "direct"}
  MaxMutations = 5
  Gets = {g1}
  MaxReaders = 4
  MaxCompactions = 2
INVARIANTS
  GetReadsOpen GetNewest LineageOrdered
  LevelsSorted FindsLeast IteratorComplete
  LastWriteWins ReplaySeesTheSame SizeExact
PROPERTIES SearchEnds
