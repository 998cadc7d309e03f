---------------------------- MODULE DBProperties -----------------------------
(***************************************************************************)
(* The properties that make simpledb a database, over the state its        *)
(* goroutines share.                                                       *)
(***************************************************************************)
EXTENDS DBState

(***************************************************************************)
(* A set of numbers is finite: every part of it that is not empty has a    *)
(* least and a greatest number.                                            *)
(***************************************************************************)
FiniteNumbers(S) ==
  \A T \in SUBSET S : T # {} => \E lo, hi \in T : \A n \in T : lo <= n /\ n <= hi

(***************************************************************************)
(* Type invariant: what the variables of DB, RWMemstore, SSTableManager    *)
(* and Appender hold, and the tables and log files on disk.                *)
(***************************************************************************)
NumberedBy(f, S) ==
  /\ f = [n \in DOMAIN f |-> f[n]]
  /\ DOMAIN f \subseteq Nat /\ FiniteNumbers(DOMAIN f)
  /\ \A n \in DOMAIN f : f[n] \in S

LogFile == {file \in Seq(Mutation) : FiniteNumbers(DOMAIN file)}

TablesOK ==
  /\ NumberedBy(sst, Table)
  /\ cdir = [stage |-> cdir.stage, cells |-> cdir.cells, paths |-> cdir.paths,
             flag |-> cdir.flag]
  /\ cdir.stage \in Stages \cup {"none"} /\ cdir.cells \in Memstore
  /\ cdir.paths \subseteq Nat /\ FiniteNumbers(cdir.paths) /\ cdir.flag \in BOOLEAN

WalOK == NumberedBy(wal, LogFile) /\ walNum \in Nat \cup {NoWal}

Phases == {"down", "repair", "replace", "finish", "removing", "load", "replay",
           "flush", "clean", "cleaning", "up", "closing", "draining", "stopping", "failed"}

MemoryOK ==
  /\ phase \in Phases
  /\ writeStore \in Memstore /\ readStore \in Memstore
  /\ generation \in Nat
  /\ NumberedBy(readers, Table)
  /\ mutations \in 0..MaxMutations /\ opens \in 0..MaxOpens

CallsOK ==
  /\ dbLock \in Clients \cup {"free", "opener", "closer", "compactor"}
  /\ readLocks \subseteq Clients
  /\ mgrLock \in {"free", "compactor"}
  /\ op \in [Clients -> [pc : {"idle", "put", "delete", "send", "get"},
                         key : Keys \cup {NoKey}, cell : Cell]]

FlusherOK ==
  fl \in [pc : Stages \cup {"off", "idle", "received", "removed"},
         mem : Memstore, wal : Nat \cup {NoWal}, gen : Nat]

CompactorOK ==
  /\ cp = [pc |-> cp.pc, paths |-> cp.paths, left |-> cp.left]
  /\ cp.paths \subseteq Nat /\ cp.left \subseteq Nat /\ toRemove \subseteq Nat
  /\ FiniteNumbers(cp.paths) /\ FiniteNumbers(cp.left) /\ FiniteNumbers(toRemove)
  /\ cp.pc \in Stages \cup {"off", "idle", "panicked", "merging", "locked",
                            "removing", "renamed"}

TypeOK == TablesOK /\ WalOK /\ MemoryOK /\ CallsOK /\ FlusherOK /\ CompactorOK
-----------------------------------------------------------------------------
(***************************************************************************)
(* What a caller sees is what a recovery would restore: whenever nobody    *)
(* holds the write lock of an open DB, GetBytes computes for every key the *)
(* value the directory holds.  Flushing, swapping, adding readers and      *)
(* reflecting a compaction never show through.                             *)
(***************************************************************************)
MemoryMatchesDisk ==
  phase = "up" /\ dbLock = "free" => \A k \in Keys : DBValue(k) = DiskValue(k)

(***************************************************************************)
(* GetBytes reads the sstables and the memstores in two steps.  Whatever   *)
(* happens between them, it returns the current value of the key, never a  *)
(* value that was flushed away or compacted in the meantime.               *)
(***************************************************************************)
GetSeesLatest ==
  \A c \in Clients :
    op[c].pc = "get" => GetBytes(op[c].cell, op[c].key) = DiskValue(op[c].key)

(***************************************************************************)
(* Durability.  The value the directory holds for a key changes only when  *)
(* a PutBytes or DeleteBytes call for this key writes its WAL record.  No  *)
(* flush, compaction, recovery, Close or crash, in whatever order, loses a *)
(* value, brings back an old one or resurrects a deleted key.              *)
(***************************************************************************)
Written(k) ==
  \E c \in Clients : /\ op[c].pc = "idle"
                     /\ op'[c].pc \in {"put", "delete"}
                     /\ op'[c].key = k
                     /\ DiskValue(k)' = ValueOf(op'[c].cell)

OnlyWritesChange == \A k \in Keys : UNCHANGED DiskValue(k) \/ Written(k)

Durable == [][OnlyWritesChange]_vars

(***************************************************************************)
(* Open succeeds on whatever an earlier process left behind.               *)
(***************************************************************************)
OpenSucceeds == phase # "failed"

(***************************************************************************)
(* "the SSTable backed by newReader contains the whole data of all the     *)
(* SSTables we're about to remove": from the success flag until the first  *)
(* input is removed, the result of a compaction has for every key the      *)
(* value its inputs have together.                                         *)
(***************************************************************************)
MergeKeepsAll ==
  cdir.flag /\ cp.pc \in Stages \cup {"locked"} =>
    \A k \in Keys : cdir.cells[k] = ValueOf(Newest(Restrict(sst, cdir.paths), k))

(***************************************************************************)
(* Data lineage: tables that are not part of a compaction are older or     *)
(* newer than all of its inputs, also when flushes add tables meanwhile,   *)
(* so the result may stand in the place of the oldest one.                 *)
(***************************************************************************)
LineagePreserved ==
  \A g \in DOMAIN sst : \A lo, hi \in cdir.paths \cup cp.paths :
    lo < g /\ g < hi => g \in cdir.paths \cup cp.paths \cup toRemove

(***************************************************************************)
(* A flush gets a generation of its own: its directory does not exist yet  *)
(* and is newer than every table, whatever compactions have renamed.       *)
(***************************************************************************)
FreshGeneration ==
  fl.pc = "received" =>
    \A g \in DOMAIN sst \cup DOMAIN readers : g <= generation

(***************************************************************************)
(* The WAL rotates in lockstep with the memstore: besides the file being   *)
(* written there is only the file of the memstore that waits for or is in  *)
(* its flush.                                                              *)
(***************************************************************************)
PendingFiles ==
  (IF \E c \in Clients : op[c].pc = "send" THEN {walNum - 1} ELSE {})
    \cup (IF fl.pc \in {"off", "idle", "removed"} THEN {} ELSE {fl.wal})

WalInLockstep ==
  phase = "up" => DOMAIN wal = {walNum} \cup PendingFiles
==============================================================================
