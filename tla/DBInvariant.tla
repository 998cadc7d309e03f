---------------------------- MODULE DBInvariant -----------------------------
(***************************************************************************)
(* The conditions under which SimpleDB keeps its promises, and the         *)
(* inductive invariant that shows it does.                                 *)
(***************************************************************************)
EXTENDS DBProperties

(***************************************************************************)
(* A WAL file is never full before its memstore is.                        *)
(***************************************************************************)
ASSUME NoSizeRotation == MaxWalFileRecords >= MaxMutations

(***************************************************************************)
(* No table outgrows the compaction limit, so that a compaction never      *)
(* leaves a table behind that is older than its inputs.                    *)
(***************************************************************************)
ASSUME TablesStaySmall == \A cells \in Memstore : Bytes(cells) < CompactionMaxSizeBytes

(***************************************************************************)
(* The process is not killed while a table directory has no files yet, or  *)
(* its index, data and metadata are partly flushed, nor while a table that *)
(* Open removes or the WAL folder is partly removed.                       *)
(***************************************************************************)
ASSUME SoundCrashPoints == CrashPoints \subseteq {"between", "headers"}
-----------------------------------------------------------------------------
Loaded == {"replay", "flush", "clean", "cleaning", "up", "closing", "draining",
           "stopping"}
Running == {"up", "closing", "draining", "stopping"}

(***************************************************************************)
(* States of a flush: before its table exists, while the table is written, *)
(* and until its WAL file is gone.                                         *)
(***************************************************************************)
Flushing == fl.pc \in Stages \cup {"removed"}
WalPending == fl.pc \in Stages \cup {"received"}
SendPending == phase = "closing" \/ \E c \in Clients : op[c].pc = "send"

Compacting == {"merging", "headers", "index", "data", "complete", "locked",
               "removing", "renamed"}
Closing == {"headers", "index", "data"}
Merged == {"headers", "index", "data", "complete", "locked", "removing"}

(***************************************************************************)
(* Who holds which lock.                                                   *)
(***************************************************************************)
LockInv ==
  /\ \A c \in Clients :
       /\ op[c].pc \in {"put", "delete", "send"} <=> dbLock = c
       /\ op[c].pc = "get" <=> c \in readLocks
       /\ op[c].pc # "idle" => phase = "up" /\ op[c].key \in Keys
       /\ op[c].pc \in {"put", "delete"} => op[c].cell \in Values \cup {Tombstone}
       /\ op[c].pc = "delete" => op[c].cell = Tombstone
  /\ readLocks # {} => dbLock = "free"
  /\ phase \in {"closing", "draining"} <=> dbLock = "closer"
  /\ dbLock = "opener" =>
       phase \in {"repair", "replace", "finish", "removing", "load", "replay",
                  "flush", "clean", "cleaning"}
  /\ cp.pc \in {"locked", "removing", "renamed"} <=> dbLock = "compactor"
  /\ cp.pc \in {"removing", "renamed"} <=> mgrLock = "compactor"

(***************************************************************************)
(* When the goroutines exist.                                              *)
(***************************************************************************)
PhaseInv ==
  /\ phase \in {"up", "closing", "draining"} => fl.pc # "off"
  /\ fl.pc # "off" => phase \in {"flush", "up", "closing", "draining"}
  /\ phase = "flush" => fl.pc # "idle" /\ fl.wal = NoWal
  /\ cp.pc # "off" => phase \in Running
  /\ phase \notin Loaded => readers = <<>> /\ generation = 0
  /\ phase \notin {"finish", "removing"} => toRemove = {}
  /\ cdir.flag => cp.pc \in Merged \/ phase \in {"down", "repair", "replace"}
  /\ phase = "replace" => cdir.flag

(***************************************************************************)
(* The inputs of a compaction Open has yet to remove, less the one that    *)
(* has lost some of its files.                                             *)
(***************************************************************************)
Whole == IF phase = "removing" THEN toRemove \ {Min(toRemove)} ELSE toRemove

(***************************************************************************)
(* Only a table being flushed, which is the newest, or removed is          *)
(* incomplete, but for the empty one a crash may leave.                    *)
(***************************************************************************)
TableInv ==
  /\ Flushing =>
       /\ fl.gen = generation /\ fl.gen \in DOMAIN sst /\ fl.gen \notin DOMAIN readers
       /\ sst[fl.gen].cells = fl.mem
       /\ sst[fl.gen].stage = IF fl.pc = "removed" THEN "complete" ELSE fl.pc
  /\ \A g \in DOMAIN sst :
       \/ Flushing /\ g = fl.gen
       \/ g \in toRemove \ Whole
       \/ sst[g].stage \in {"headers", "complete"}
  /\ phase \in Loaded => \A g \in DOMAIN sst \cup DOMAIN readers : g <= generation

(***************************************************************************)
(* The readers are the tables on disk, but for the table being flushed and *)
(* the inputs of a compaction that is being reflected.                     *)
(***************************************************************************)
Reflecting == IF cp.pc \in {"removing", "renamed"} THEN cp.paths ELSE {}

ReaderInv ==
  phase \in Loaded =>
    /\ \A g \in Reflecting : g \in DOMAIN readers
    /\ \A g \in DOMAIN readers \ Reflecting : g \in DOMAIN sst /\ readers[g] = sst[g]
    /\ \A g \in DOMAIN sst \ Reflecting :
         g \in DOMAIN readers \/ (Flushing /\ g = fl.gen)

(***************************************************************************)
(* A compaction takes all tables there are when it starts.  Its directory  *)
(* follows it, and the inputs on disk are the ones it has yet to remove.   *)
(* The readers of the inputs say what the result says.                     *)
(***************************************************************************)
ReadersValue(k) == ValueOf(Newest(Restrict(readers, cp.paths), k))

CompactorInv ==
  /\ cp.pc \in Compacting =>
       /\ cp.paths \subseteq DOMAIN readers /\ cp.paths # {}
       /\ \A g \in DOMAIN readers \ cp.paths : \A p \in cp.paths : p < g
  /\ cp.pc \in Merged => cdir.flag /\ cdir.paths = cp.paths
  /\ cp.pc \in Closing => cdir.stage = cp.pc
  /\ cp.pc = "removing" =>
       /\ cp.left \subseteq cp.paths /\ DOMAIN sst \cap cp.paths = cp.left
       /\ \A k \in Keys : cdir.cells[k] = ReadersValue(k)
  /\ cp.pc = "renamed" =>
       /\ DOMAIN sst \cap cp.paths = {Replacement(cp.paths)}
       /\ sst[Replacement(cp.paths)].stage = "complete"
       /\ \A k \in Keys : sst[Replacement(cp.paths)].cells[k] = ReadersValue(k)

(***************************************************************************)
(* g is the newest table of S that knows k.                                *)
(***************************************************************************)
IsNewest(S, g, k) ==
  /\ g \in S \cap DOMAIN sst
  /\ CellIn(sst[g], k) # Absent
  /\ \A h \in S \cap DOMAIN sst : g < h => CellIn(sst[h], k) = Absent

Hides(S, cells) ==
  \A k \in Keys : \A g \in S :
    IsNewest(S, g, k) => cells[k] = ValueOf(CellIn(sst[g], k))

(***************************************************************************)
(* A compaction with its flag is complete as soon as it counts, is older   *)
(* than all tables but its inputs, and has for every key the value of      *)
(* those inputs that are still there.                                      *)
(***************************************************************************)
MergeInv ==
  cdir.flag =>
    /\ cdir.paths # {} /\ cdir.stage \in Stages
    /\ CompactionCounts => cdir.stage = "complete"
    /\ \A g \in DOMAIN sst \ cdir.paths : \A p \in cdir.paths : p < g
    /\ Hides(cdir.paths, cdir.cells)

(***************************************************************************)
(* The same for a compaction that Open has renamed and whose other inputs  *)
(* it is removing.                                                         *)
(***************************************************************************)
FinishInv ==
  toRemove # {} =>
    \E r \in DOMAIN sst \ toRemove :
      /\ sst[r].stage = "complete"
      /\ \A p \in toRemove : r < p
      /\ \A g \in DOMAIN sst \ (toRemove \cup {r}) : r < g /\ \A p \in toRemove : p < g
      /\ Hides(Whole, sst[r].cells)

(***************************************************************************)
(* The WAL in lockstep with the memstores: every file holds exactly the    *)
(* memstore it belongs to.                                                 *)
(***************************************************************************)
Logged(c, k) == op[c].pc \in {"put", "delete"} /\ op[c].key = k

CurrentFile(k) ==
  /\ \A c \in Clients : Logged(c, k) => FileCell(wal[walNum], k) = op[c].cell
  /\ (\A c \in Clients : ~Logged(c, k)) => FileCell(wal[walNum], k) = writeStore[k]

HasLog == phase \in {"up", "closing", "draining"}

CurrentInv ==
  HasLog =>
    /\ walNum \in DOMAIN wal /\ Len(wal[walNum]) <= mutations
    /\ \A n \in DOMAIN wal : n <= walNum
    /\ \A k \in Keys : CurrentFile(k)

PendingInv ==
  HasLog /\ WalPending =>
    /\ fl.wal \in DOMAIN wal /\ fl.wal < walNum
    /\ \A k \in Keys : fl.mem[k] = FileCell(wal[fl.wal], k)
    /\ \A n \in DOMAIN wal : fl.wal <= n
    /\ phase # "draining" => fl.mem # EmptyStore

SendInv ==
  /\ SendPending =>
       /\ walNum - 1 \in DOMAIN wal
       /\ WalPending => fl.wal < walNum - 1
       /\ \A k \in Keys : readStore[k] = FileCell(wal[walNum - 1], k)
  /\ \A c \in Clients : op[c].pc = "send" => readStore # EmptyStore

LockstepInv ==
  phase \in {"up", "closing"} =>
    \A n \in DOMAIN wal :
      n = walNum \/ (SendPending /\ n = walNum - 1) \/ (WalPending /\ n = fl.wal)

ReplayInv ==
  /\ phase = "flush" => fl.mem = Replayed(wal)
  /\ phase = "clean" =>
       \A k \in Keys : Replayed(wal)[k] # Absent => Newest(sst, k) = Replayed(wal)[k]

(***************************************************************************)
(* The read store is the memstore in the flush or repeats what the readers *)
(* say; a Get that has asked the readers has their answer unless the       *)
(* memstores have a newer one.                                             *)
(***************************************************************************)
ReadStoreInv ==
  /\ phase # "up" => writeStore = EmptyStore
  /\ phase \in {"down", "repair", "replace", "finish", "removing", "load", "replay",
              "failed"} => readStore = EmptyStore
  /\ phase \in {"flush", "clean", "cleaning", "up"} /\ ~SendPending =>
       IF fl.pc \in {"off", "idle"}
       THEN \A k \in Keys : readStore[k] # Absent =>
              ValueOf(Newest(readers, k)) = ValueOf(readStore[k])
       ELSE readStore = fl.mem

GetInv ==
  \A c \in Clients :
    op[c].pc = "get" =>
      /\ op[c].cell # Garbage
      /\ \/ MemValue(op[c].key) # Absent
         \/ ValueOf(op[c].cell) = ValueOf(Newest(readers, op[c].key))

Inv ==
  /\ TypeOK /\ LockInv /\ PhaseInv /\ TableInv /\ ReaderInv /\ CompactorInv
  /\ MergeInv /\ MergeKeepsAll /\ FinishInv
  /\ CurrentInv /\ PendingInv /\ SendInv /\ LockstepInv /\ ReplayInv
  /\ ReadStoreInv /\ GetInv
=============================================================================
