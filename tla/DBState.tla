------------------------------ MODULE DBState -------------------------------
(***************************************************************************)
(* The state of one simpledb directory and of the process that has it      *)
(* open.  Clients, Flush, Compaction and Lifecycle add the actions and     *)
(* SimpleDB composes them.                                                 *)
(***************************************************************************)
EXTENDS Tables, Functions

CONSTANTS
  Writers, Readers,         \* goroutines that call Put and Delete, and Get
  MemstoreMaxSize,          \* option MemstoreSizeBytes
  MaxWalFileRecords,        \* capacity of a WAL file, in records
  EnableCompactions,        \* option DisableCompactions, negated
  CompactionFileThreshold,  \* option CompactionFileThreshold
  CompactionMaxSizeBytes,   \* option CompactionMaxSizeBytes
  RatioNum, RatioDen,       \* option CompactionRatio, as a fraction
  CrashPoints,              \* where the process may be killed, see Crash
  MaxMutations,             \* bound: Put and Delete calls in a behaviour
  MaxOpens                  \* bound: Open calls in a behaviour

ASSUME OptionsAssumption ==
  /\ MemstoreMaxSize \in Nat /\ MaxWalFileRecords \in Nat \ {0}
  /\ EnableCompactions \in BOOLEAN
  /\ CompactionFileThreshold \in Nat /\ CompactionMaxSizeBytes \in Nat
  /\ RatioNum \in Nat /\ RatioDen \in Nat \ {0}

ASSUME BoundsAssumption == MaxMutations \in Nat /\ MaxOpens \in Nat

Clients == Writers \cup Readers

ASSUME ClientsAssumption ==
  {"free", "opener", "closer", "compactor"} \cap Clients = {}

VARIABLES
  \* the directory
  sst,        \* sstable_<generation> directories: generation -> Table
  cdir,       \* the compaction directory, NoCompaction when there is none
  wal,        \* wal/<number>.wal files: number -> sequence of mutations
  \* the DB object
  phase,      \* where Open and Close are
  toRemove,   \* generations repairCompactions has still to remove
  walNum,     \* Appender: number of the file written to
  writeStore, readStore,    \* RWMemstore
  generation, \* currentGeneration
  readers,    \* allSSTableReaders: generation -> Table
  \* locks: rwLock (its writer and its readers) and managerLock
  dbLock, readLocks, mgrLock,
  \* goroutines
  op,         \* client -> the call it is in
  fl,         \* the flush in progress
  cp,         \* the compaction in progress
  \* bounds
  mutations, opens

disk == <<sst, cdir, wal>>
stores == <<writeStore, readStore>>
locks == <<dbLock, readLocks, mgrLock>>
bounds == <<mutations, opens>>

vars == <<disk, phase, toRemove, walNum, stores, generation, readers, locks,
          op, fl, cp, bounds>>

NoKey == -1
NoWal == -1

NoCompaction ==
  [stage |-> "none", cells |-> EmptyStore, paths |-> {}, flag |-> FALSE]

(***************************************************************************)
(* A client between two calls keeps the reply of the last one.             *)
(***************************************************************************)
Idle(reply) == [pc |-> "idle", key |-> NoKey, cell |-> reply]

FlusherAt(pc) == [pc |-> pc, mem |-> EmptyStore, wal |-> NoWal, gen |-> 0]
CompactorAt(pc) == [pc |-> pc, paths |-> {}, left |-> {}]

(***************************************************************************)
(* NewSimpleDB.  Both memstores of a new DB are the same object; as the    *)
(* read store is only asked for keys the write store does not have, that   *)
(* is the same as a separate, empty read store.                            *)
(***************************************************************************)
NewSimpleDB ==
  /\ toRemove = {} /\ walNum = NoWal
  /\ writeStore = EmptyStore /\ readStore = EmptyStore
  /\ generation = 0 /\ readers = <<>>
  /\ dbLock = "free" /\ readLocks = {} /\ mgrLock = "free"
  /\ op = [c \in Clients |-> Idle(Absent)]
  /\ fl = FlusherAt("off") /\ cp = CompactorAt("off")

Init ==
  /\ sst = <<>> /\ cdir = NoCompaction /\ wal = <<>>
  /\ phase = "down"
  /\ NewSimpleDB
  /\ mutations = 0 /\ opens = 0

(***************************************************************************)
(* rwLock: one writer, or any number of readers.                           *)
(***************************************************************************)
CanLock == dbLock = "free" /\ readLocks = {}

\* Mutant of CanRLock: GetBytes does not take the lock.
CanRLockIgnored == TRUE

CanRLock == dbLock = "free"

(***************************************************************************)
(* Appender.Rotate closes the current file and opens the next one.         *)
(***************************************************************************)
With(f, n, x) == [m \in DOMAIN f \cup {n} |-> IF m = n THEN x ELSE f[m]]

Rotate ==
  /\ wal' = With(wal, walNum + 1, <<>>)
  /\ walNum' = walNum + 1

(***************************************************************************)
(* swapMemstore: the full write store becomes the read store.              *)
(***************************************************************************)
\* Mutant of SwapMemstore: the write store is not replaced.
SwapMemstoreKept == readStore' = writeStore /\ UNCHANGED writeStore

SwapMemstore ==
  /\ readStore' = writeStore
  /\ writeStore' = EmptyStore

(***************************************************************************)
(* The value of a key according to the directory alone, as the next        *)
(* recovery will find it: the WAL replayed over the sstables, with a       *)
(* compaction that carries its success flag in place of its inputs.  Some  *)
(* changes take several steps and count as one, as long as the process     *)
(* lives to see that: a flagged compaction counts when its writer is       *)
(* closed, the removal of its other inputs by Open and that of the WAL     *)
(* folder when they begin.                                                 *)
(***************************************************************************)
Replacement(paths) == Min(paths)

CompactionCounts == cdir.flag /\ cp.pc \notin {"headers", "index", "data"}

FinishedTables ==
  IF CompactionCounts
  THEN With(Restrict(sst, DOMAIN sst \ cdir.paths), Replacement(cdir.paths),
            [stage |-> cdir.stage, cells |-> cdir.cells])
  ELSE Restrict(sst, DOMAIN sst \ toRemove)

LogFiles == IF phase = "cleaning" THEN <<>> ELSE wal

DiskValue(k) == ValueOf(Over(Replayed(LogFiles)[k], Newest(FinishedTables, k)))

(***************************************************************************)
(* The value of a key according to the DB object, as GetBytes computes it  *)
(* from what the sstables answered and from RWMemstore.Get.  An sstable    *)
(* that fails makes the call fail, whatever the memstores hold.            *)
(***************************************************************************)
\* Mutant of MemValue: the read store is asked first.
MemValueReadFirst(k) == Over(readStore[k], writeStore[k])

MemValue(k) == Over(writeStore[k], readStore[k])

GetBytes(cell, k) ==
  IF cell = Garbage THEN Garbage ELSE ValueOf(Over(MemValue(k), cell))

DBValue(k) == GetBytes(Newest(readers, k), k)
=============================================================================
