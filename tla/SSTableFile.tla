----------------------------- MODULE SSTableFile ----------------------------
(***************************************************************************)
(* One table on disk: SSTableStreamWriter with the writes that may fail,   *)
(* the three callers that drive it, a kill, and SSTableReader over what is *)
(* left.  A record file is the sequence of its whole records and an offset *)
(* a place in it; RecordIO has the bytes.                                  *)
(***************************************************************************)
EXTENDS Integers, Sequences, FiniteSets

CONSTANTS
  TableKeys, Values,     \* numbers above zero
  Callers,          \* subset of {"free", "flush", "merge"}: who drives the writer
  Faults,           \* what may fail: "data", "index", "close"
  MaxFaults         \* bound: failures

ASSUME SSTableFileAssumption ==
  /\ TableKeys \cup Values \subseteq Nat \ {0} /\ IsFiniteSet(TableKeys)
  /\ Callers \subseteq {"free", "flush", "merge"} /\ Faults \subseteq {"data", "index", "close"}
  /\ MaxFaults \in Nat

VARIABLES
  caller,
  todo,             \* pairs the caller still has to write, in key order
  index, data,      \* index and data writer, with what is in their buffers
  indexFile, dataFile, bloomFile, metaFile,     \* on disk; a file that is
                    \* not there, or empty, is the empty sequence
  bloomFilter, metaData, lastKey,
  step,               \* "open", the steps of Close, "closed" or "killed"
  acked,            \* pairs WriteNext returned no error for
  input, err, faults

files == <<indexFile, dataFile, bloomFile, metaFile>>
writer == <<index, data, bloomFilter, metaData, lastKey>>
fileVars == <<caller, todo, files, writer, step, acked, input, err, faults>>

null == 0            \* a tombstone's value
NullKey == 0
EOF == -1

(* What a memstore, a skip list or a merge gives the writer. *)
Pairs == TableKeys \X (Values \cup {null})

Inputs ==
  {table \in UNION {[1..length -> Pairs] : length \in 0..Cardinality(TableKeys)} :
     \A n \in 2..Len(table) : table[n - 1][1] < table[n][1]}

(* Open has created the files: all are empty. *)
Open ==
  /\ caller \in Callers
  /\ input \in Inputs /\ todo = input
  /\ index = <<>> /\ data = <<>> /\ indexFile = <<>> /\ dataFile = <<>>
  /\ bloomFile = <<>> /\ metaFile = <<>>
  /\ bloomFilter = {} /\ lastKey = NullKey
  /\ metaData = [NumRecords |-> 0, NullValues |-> 0, MinKey |-> NullKey, MaxKey |-> NullKey]
  /\ step = "open" /\ acked = <<>> /\ err = FALSE /\ faults = 0

(* crc64 of nothing is zero. *)
Checksum(value) == IF value = null THEN 0 ELSE value

-----------------------------------------------------------------------------

CanFail(part) == part \in Faults /\ faults < MaxFaults /\ faults' = faults + 1

\* Mutant of AfterError: every caller goes on with the next pair.
AfterErrorDropped == todo' = Tail(todo) /\ UNCHANGED <<err, step>>

(* flushMemstore, WriteSkipListMap and Merge end at the first error.
   MergeCompact overwrites it and takes the next pair.  The free caller goes
   on as the tests do, or gives the same key again. *)
AfterError ==
  CASE caller = "flush" -> todo' = todo /\ err' = TRUE /\ step' = "closeIndex"
    [] caller = "merge" -> todo' = Tail(todo) /\ UNCHANGED <<err, step>>
    [] OTHER -> todo' \in {todo, Tail(todo)} /\ UNCHANGED <<err, step>>

nextKey == Head(todo)[1]
nextValue == Head(todo)[2]

Ascending == lastKey = NullKey \/ lastKey < nextKey

(* What WriteNext does before it writes: the key counts as the last one, and
   for the filter, even if a write fails then. *)
Begin ==
  /\ step = "open" /\ todo # <<>> /\ Ascending
  /\ lastKey' = nextKey
  /\ bloomFilter' = bloomFilter \cup {nextKey}

Meta == IF lastKey = NullKey THEN [metaData EXCEPT !.MinKey = nextKey] ELSE metaData

WriteNextRefused ==
  /\ step = "open" /\ todo # <<>> /\ ~Ascending
  /\ AfterError
  /\ UNCHANGED <<caller, files, writer, acked, input, faults>>

Entry == [key |-> nextKey, offset |-> Len(data) + 1, checksum |-> Checksum(nextValue)]

Counted == [Meta EXCEPT !.NumRecords = @ + 1, !.NullValues = IF nextValue = null THEN @ + 1 ELSE @]

WriteNext ==
  /\ Begin
  /\ data' = Append(data, nextValue) /\ index' = Append(index, Entry)
  /\ metaData' = Counted
  /\ acked' = Append(acked, Head(todo)) /\ todo' = Tail(todo)
  /\ UNCHANGED <<caller, files, step, input, err, faults>>

WriteDataFails ==
  /\ Begin /\ CanFail("data")
  /\ metaData' = Meta /\ AfterError
  /\ UNCHANGED <<caller, files, index, data, acked, input>>

\* Mutant of WriteIndexFails: the data record stays.
WriteIndexFailsUnseeked ==
  /\ Begin /\ CanFail("index")
  /\ data' = Append(data, nextValue)
  /\ metaData' = Meta /\ AfterError
  /\ UNCHANGED <<caller, files, index, acked, input>>

(* The data record is written and taken back by Seek(preWriteOffset). *)
WriteIndexFails ==
  /\ Begin /\ CanFail("index")
  /\ metaData' = Meta /\ AfterError
  /\ UNCHANGED <<caller, files, index, data, acked, input>>

-----------------------------------------------------------------------------

StartClose ==
  /\ step = "open" /\ todo = <<>>
  /\ step' = "closeIndex"
  /\ UNCHANGED <<caller, todo, files, writer, acked, input, err, faults>>

(* What reached a file of what was written to it: a prefix. *)
Partly(file, content) == \E n \in 0..Len(content) : file' = SubSeq(content, 1, n)

(* Close of a record file flushes its buffer; when that fails some of it may
   have reached the file.  SSTableStreamWriter.Close joins the error and goes
   on with the other files. *)
CloseFile(file, content) ==
  \/ file' = content /\ UNCHANGED <<err, faults>>
  \/ CanFail("close") /\ Partly(file, content) /\ err' = TRUE

CloseIndex ==
  /\ step = "closeIndex" /\ CloseFile(indexFile, index) /\ step' = "closeData"
  /\ UNCHANGED <<caller, todo, dataFile, bloomFile, metaFile, writer, acked, input>>

CloseData ==
  /\ step = "closeData" /\ CloseFile(dataFile, data) /\ step' = "bloom"
  /\ UNCHANGED <<caller, todo, indexFile, bloomFile, metaFile, writer, acked, input>>

(* The filter may hold keys nobody added. *)
CloseBloom ==
  /\ step = "bloom" /\ step' = "meta"
  /\ \E others \in SUBSET (TableKeys \ bloomFilter) : bloomFile' = <<bloomFilter \cup others>>
  /\ UNCHANGED <<caller, todo, indexFile, dataFile, metaFile, writer, acked, input, err, faults>>

CloseMeta ==
  /\ step = "meta" /\ step' = "closed"
  /\ metaFile' = <<[metaData EXCEPT !.MaxKey = lastKey]>>
  /\ UNCHANGED <<caller, todo, indexFile, dataFile, bloomFile, writer, acked, input, err, faults>>

(* Buffers are written to their files when they are full. *)
Kill ==
  /\ step \notin {"closed", "killed"} /\ step' = "killed"
  /\ IF step \in {"open", "closeIndex"} THEN Partly(indexFile, index) ELSE UNCHANGED indexFile
  /\ IF step \in {"open", "closeIndex", "closeData"} THEN Partly(dataFile, data) ELSE UNCHANGED dataFile
  /\ UNCHANGED <<caller, todo, bloomFile, metaFile, writer, acked, input, err, faults>>

-----------------------------------------------------------------------------

(* getValueAtOffset: the end of the file reads as nil. *)
ValueAt(entry) == IF entry.offset <= Len(dataFile) THEN dataFile[entry.offset] ELSE null

Mismatch(entry) == entry.checksum # 0 /\ Checksum(ValueAt(entry)) # entry.checksum

(* NewSSTableReader: an empty metadata file means version 0, a protobuf data
   file, which is not checked.  The others are validated against the index. *)
Version == IF metaFile = <<>> THEN 0 ELSE 1

Opens == Version = 1 => \A n \in DOMAIN indexFile : ~Mismatch(indexFile[n])

Entries(k) == {n \in DOMAIN indexFile : indexFile[n].key = k}

ReaderContains(k) == (bloomFile # <<>> => k \in bloomFile[1]) /\ Entries(k) # {}

(* Get, and ScanRange and ScanStartingAt, read the value at the entry's offset. *)
ReaderGet(k) == ValueAt(indexFile[CHOOSE n \in Entries(k) : TRUE])

(* The full scan goes through both files side by side. *)
Scan == [n \in DOMAIN indexFile |-> <<indexFile[n].key, IF n <= Len(dataFile) THEN dataFile[n] ELSE EOF>>]

FileNext ==
  \/ WriteNext \/ WriteNextRefused \/ WriteDataFails \/ WriteIndexFails
  \/ StartClose \/ CloseIndex \/ CloseData \/ CloseBloom \/ CloseMeta
  \/ Kill

FileSpec == Open /\ [][FileNext]_fileVars

-----------------------------------------------------------------------------

(* Once the metadata is on disk, its counts, which decide about compactions, and
   its key range are those of the pairs WriteNext accepted, although writes
   failed in between.  If Close reported no error, these pairs are what the table
   has, whichever way it is read: by key, by the scan that pairs the files by
   position, and behind the filter. *)
ReadsBack ==
  Version = 1 =>
    /\ metaFile[1].NumRecords = Len(acked)
    /\ metaFile[1].NullValues = Cardinality({n \in DOMAIN acked : acked[n][2] = null})
    /\ \A n \in DOMAIN acked : metaFile[1].MinKey <= acked[n][1] /\ acked[n][1] <= metaFile[1].MaxKey
    /\ ~err => /\ Opens /\ Scan = acked
               /\ \A k \in TableKeys :
                    /\ ReaderContains(k) <=> \E n \in DOMAIN acked : acked[n][1] = k
                    /\ ReaderContains(k) => \E n \in DOMAIN acked : acked[n] = <<k, ReaderGet(k)>>

(* A flush that returns no error has written all it was given: SimpleDB removes
   the WAL file then.  (MergeCompact drops a pair whose write failed.) *)
CallerWritesAll == caller = "flush" /\ step = "closed" /\ ~err => acked = input

=============================================================================
