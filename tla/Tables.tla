------------------------------- MODULE Tables -------------------------------
(***************************************************************************)
(* What memstores, write-ahead-log files and sstables say about a key, and *)
(* how a stack of them is read and merged.                                 *)
(*                                                                         *)
(* A layer maps every key to a cell: a value, Tombstone (the key is there  *)
(* with a nil value), Garbage (the index knows the key, its bytes cannot   *)
(* be decoded) or Absent (the layer does not mention the key).  Keys are   *)
(* naturals, so that they have the order of the bytes comparator.          *)
(***************************************************************************)
EXTENDS Integers, Sequences, FiniteSets, FiniteSetsExt

CONSTANTS Keys, Values, Tombstone, Absent, Garbage

ASSUME KeysAssumption == Keys \subseteq Nat /\ IsFiniteSet(Keys)

ASSUME CellAssumption ==
  /\ Tombstone \notin Values /\ Absent \notin Values /\ Garbage \notin Values
  /\ Tombstone # Absent /\ Tombstone # Garbage /\ Absent # Garbage

MemCell == Values \cup {Tombstone, Absent}
Cell == MemCell \cup {Garbage}
Memstore == [Keys -> MemCell]

EmptyStore == [k \in Keys |-> Absent]

Over(upper, lower) == IF upper # Absent THEN upper ELSE lower

(***************************************************************************)
(* GetBytes does not tell a tombstone from a missing key: both are         *)
(* ErrNotFound, written Absent.                                            *)
(***************************************************************************)
ValueOf(c) == IF c = Tombstone THEN Absent ELSE c

(***************************************************************************)
(* MemStore.EstimatedSizeInBytes: the key bytes plus the live value bytes, *)
(* one byte each here, and 15 per cent on top.                             *)
(***************************************************************************)
KeysOf(cells) == {k \in Keys : cells[k] # Absent}
LiveKeysOf(cells) == {k \in Keys : cells[k] \notin {Absent, Tombstone}}
Bytes(cells) == Cardinality(KeysOf(cells)) + Cardinality(LiveKeysOf(cells))
EstimatedSizeInBytes(store) == (115 * Bytes(store)) \div 100

(***************************************************************************)
(* An sstable directory on its way to completion.  The reader takes a      *)
(* directory without metadata for a v0 table and does not validate it:     *)
(*   bare      no index or data file with a header: cannot be opened       *)
(*   headers   both files hold their header only: an empty table           *)
(*   index     the index is flushed, the data is not: every value is nil   *)
(*   data      index and data are flushed, the metadata is not: the values *)
(*             are decoded as the v0 protobuf entries they are not         *)
(*   complete  the metadata is there too                                   *)
(***************************************************************************)
Stages == {"bare", "headers", "index", "data", "complete"}
Table == [stage : Stages, cells : Memstore]

NewTable(cells) == [stage |-> "bare", cells |-> cells]

CellIn(t, k) ==
  CASE t.stage \in {"bare", "headers"} -> Absent
    [] t.stage = "index" -> IF t.cells[k] = Absent THEN Absent ELSE Tombstone
    [] t.stage = "data" -> IF t.cells[k] = Absent THEN Absent ELSE Garbage
    [] t.stage = "complete" -> t.cells[k]

(***************************************************************************)
(* SuperSSTableReader.Get: the tables are asked from the newest generation *)
(* to the oldest and the first that knows the key answers.                 *)
(***************************************************************************)
TablesWith(f, k) == {g \in DOMAIN f : CellIn(f[g], k) # Absent}

Newest(f, k) ==
  IF TablesWith(f, k) = {} THEN Absent
  ELSE CellIn(f[Max(TablesWith(f, k))], k)

(***************************************************************************)
(* MergeCompact with ScanReduceLatestWinsSkipTombstones: per key the value *)
(* of the newest table, dropped when it is a tombstone.                    *)
(*                                                                         *)
(* A table whose values cannot be read makes its scan fail, and the merge  *)
(* context turns each failure into a record with a nil key and a nil value *)
(* that sorts before all others.  MergeCompactionIterator then counts the  *)
(* nil values among those of the first real key, which is dropped when the *)
(* unreadable table is newer than every table that holds it.               *)
(***************************************************************************)
Scannable(f) == {g \in DOMAIN f : f[g].stage = "complete"}
Unreadable(f) ==
  {g \in DOMAIN f : f[g].stage \in {"index", "data"} /\ KeysOf(f[g].cells) # {}}

ScannedWith(f, k) == {g \in Scannable(f) : f[g].cells[k] # Absent}

IsFirstKey(f, k) ==
  \A j \in Keys : ScannedWith(f, j) # {} => k <= j

\* Mutant of MergeCompact: the oldest value wins.
MergeCompactOldestWins(f) ==
  [k \in Keys |->
     IF ScannedWith(f, k) = {} THEN Absent
     ELSE ValueOf(f[Min(ScannedWith(f, k))].cells[k])]

MergeCompact(f) ==
  [k \in Keys |->
     IF \/ ScannedWith(f, k) = {}
        \/ IsFirstKey(f, k) /\ \E g \in Unreadable(f) : g > Max(ScannedWith(f, k))
     THEN Absent
     ELSE ValueOf(f[Max(ScannedWith(f, k))].cells[k])]

(***************************************************************************)
(* The metadata of a table, all zero before it is written.                 *)
(***************************************************************************)
NumRecords(t) ==
  IF t.stage = "complete" THEN Cardinality(KeysOf(t.cells)) ELSE 0
NullValues(t) ==
  IF t.stage = "complete"
  THEN Cardinality({k \in Keys : t.cells[k] = Tombstone}) ELSE 0
TotalBytes(t) == IF t.stage = "complete" THEN Bytes(t.cells) ELSE 0

(***************************************************************************)
(* A WAL file is a sequence of mutations.  Replaying the files in the      *)
(* order of their numbers upserts or tombstones one key per record, so the *)
(* last record of a key stands.                                            *)
(***************************************************************************)
Mutation == [key : Keys, cell : Values \cup {Tombstone}]

RecordsOf(file, k) == {i \in DOMAIN file : file[i].key = k}

FileCell(file, k) ==
  IF RecordsOf(file, k) = {} THEN Absent
  ELSE file[Max(RecordsOf(file, k))].cell

FilesWith(files, k) == {n \in DOMAIN files : FileCell(files[n], k) # Absent}

Replayed(files) ==
  [k \in Keys |->
     IF FilesWith(files, k) = {} THEN Absent
     ELSE FileCell(files[Max(FilesWith(files, k))], k)]
=============================================================================
