---------------------------- MODULE DBLifecycle -----------------------------
(***************************************************************************)
(* Open with its recovery, Close, and the loss of the process.             *)
(*                                                                         *)
(* phase follows the one goroutine that opens and later closes the DB:     *)
(*   down -> repair -> [replace -> finish <-> removing] -> load -> replay  *)
(*        -> [flush] -> clean [-> cleaning] -> up -> closing -> draining   *)
(*        -> stopping -> down                                              *)
(* or failed, when Open returned an error.                                 *)
(***************************************************************************)
EXTENDS DBState

LifeFrame == UNCHANGED <<readLocks, mgrLock, op, mutations>>

StartOpen ==
  /\ phase = "down"
  /\ opens < MaxOpens
  /\ opens' = opens + 1
  /\ phase' = "repair"
  /\ dbLock' = "opener"
  /\ UNCHANGED <<disk, toRemove, walNum, stores, generation, readers, fl, cp>>
  /\ LifeFrame

RecoveryFrame == UNCHANGED <<dbLock, cp, opens>> /\ LifeFrame

(***************************************************************************)
(* repairCompactions: a compaction directory without the success flag is   *)
(* deleted.  One with the flag first replaces the oldest of its inputs,    *)
(* then the others are deleted, oldest first.  A kill while a directory of *)
(* the first two is being deleted changes nothing for the next Open, which *)
(* deletes the rest of it: they are one step.                              *)
(***************************************************************************)
RepairFrame ==
  /\ UNCHANGED <<wal, walNum, stores, generation, readers, fl>>
  /\ RecoveryFrame

RepairDelete ==
  /\ phase = "repair" /\ ~cdir.flag
  /\ cdir' = NoCompaction
  /\ phase' = "load"
  /\ UNCHANGED <<sst, toRemove>>
  /\ RepairFrame

RepairReplace ==
  /\ phase = "repair" /\ cdir.flag
  /\ sst' = Restrict(sst, DOMAIN sst \ {Replacement(cdir.paths)})
  /\ phase' = "replace"
  /\ UNCHANGED <<cdir, toRemove>>
  /\ RepairFrame

RepairRename ==
  LET new == Replacement(cdir.paths)
  IN  /\ phase = "replace"
      /\ sst' = With(sst, new, [stage |-> cdir.stage, cells |-> cdir.cells])
      /\ cdir' = NoCompaction
      /\ toRemove' = cdir.paths \ {new}
      /\ phase' = "finish"
      /\ RepairFrame

(***************************************************************************)
(* After the rename nothing names the other inputs any more.  Each of them *)
(* loses its files in the order the file system lists them: without its    *)
(* metadata it is a table of version 0, without its index or its data it   *)
(* cannot be opened.  The bloom filter may be missing.                     *)
(***************************************************************************)
Remains(stage) ==
  CASE stage = "complete" -> {"data", "bare"}
    [] stage = "bare" -> {}
    [] OTHER -> {"bare"}

RepairUnlink ==
  LET old == Min(toRemove)
  IN  /\ phase \in {"finish", "removing"} /\ toRemove # {} /\ old \in DOMAIN sst
      /\ \E s \in Remains(sst[old].stage) : sst' = [sst EXCEPT ![old].stage = s]
      /\ phase' = "removing"
      /\ UNCHANGED <<cdir, toRemove>>
      /\ RepairFrame

RepairRemove ==
  LET old == Min(toRemove)
  IN  /\ phase \in {"finish", "removing"} /\ toRemove # {}
      /\ old \in DOMAIN sst => sst[old].stage = "bare"
      /\ sst' = Restrict(sst, DOMAIN sst \ {old})
      /\ toRemove' = toRemove \ {old}
      /\ phase' = "finish"
      /\ UNCHANGED cdir
      /\ RepairFrame

RepairDone ==
  /\ phase = "finish" /\ toRemove = {}
  /\ phase' = "load"
  /\ UNCHANGED <<sst, cdir, toRemove>>
  /\ RepairFrame

(***************************************************************************)
(* reconstructSSTables: one reader per directory, in the order of the      *)
(* generations; the first that cannot be opened makes Open fail.           *)
(***************************************************************************)
Loadable == \A g \in DOMAIN sst : sst[g].stage # "bare"

ReconstructSSTables ==
  /\ phase = "load" /\ Loadable
  /\ readers' = sst
  /\ generation' = Max(DOMAIN sst \cup {0})
  /\ phase' = "replay"
  /\ UNCHANGED <<disk, toRemove, walNum, stores, fl>>
  /\ RecoveryFrame

ReconstructFails ==
  /\ phase = "load" /\ ~Loadable
  /\ phase' = "failed"
  /\ dbLock' = "free"
  /\ UNCHANGED <<disk, toRemove, walNum, stores, generation, readers, fl, cp, opens>>
  /\ LifeFrame

(***************************************************************************)
(* replayAndSetupWriteAheadLog: every WAL file goes into the memstore,     *)
(* which is flushed when there was a record, ...                           *)
(***************************************************************************)
HasMutations == \E n \in DOMAIN wal : wal[n] # <<>>

ReplayWal ==
  /\ phase = "replay"
  /\ IF HasMutations
     THEN /\ readStore' = Replayed(wal)
          /\ fl' = [pc |-> "received", mem |-> Replayed(wal), wal |-> NoWal, gen |-> 0]
          /\ phase' = "flush"
     ELSE /\ phase' = "clean"
          /\ UNCHANGED <<readStore, fl>>
  /\ UNCHANGED <<disk, toRemove, walNum, writeStore, generation, readers>>
  /\ RecoveryFrame

(***************************************************************************)
(* ... the WAL folder is removed, file by file in the order the file       *)
(* system lists them, and Open ends with a new log and the two goroutines. *)
(***************************************************************************)
CleanWal(n) ==
  /\ phase \in {"clean", "cleaning"} /\ n \in DOMAIN wal
  /\ wal' = Restrict(wal, DOMAIN wal \ {n})
  /\ phase' = "cleaning"
  /\ UNCHANGED <<sst, cdir, toRemove, walNum, stores, generation, readers, fl>>
  /\ RecoveryFrame

NewWriteAheadLog ==
  /\ phase \in {"clean", "cleaning"} /\ DOMAIN wal = {}
  /\ wal' = With(wal, 0, <<>>)
  /\ walNum' = 0
  /\ fl' = FlusherAt("idle")
  /\ cp' = IF EnableCompactions THEN CompactorAt("idle") ELSE cp
  /\ phase' = "up"
  /\ dbLock' = "free"
  /\ UNCHANGED <<sst, cdir, toRemove, stores, generation, readers, opens>>
  /\ LifeFrame

(***************************************************************************)
(* Close flushes what is in the memstore and waits for the flusher under   *)
(* the write lock, then waits for the compaction without it.               *)
(***************************************************************************)
CloseFrame == UNCHANGED <<sst, cdir, toRemove, generation, readers, cp, opens>> /\ LifeFrame

CloseRotate ==
  /\ phase = "up"
  /\ CanLock
  /\ dbLock' = "closer"
  /\ Rotate
  /\ SwapMemstore
  /\ phase' = "closing"
  /\ UNCHANGED fl
  /\ CloseFrame

CloseSend ==
  /\ phase = "closing"
  /\ fl.pc = "idle"
  /\ fl' = [pc |-> "received", mem |-> readStore, wal |-> walNum - 1, gen |-> 0]
  /\ phase' = "draining"
  /\ UNCHANGED <<wal, walNum, stores, dbLock>>
  /\ CloseFrame

CloseDrained ==
  /\ phase = "draining"
  /\ fl.pc = "idle"
  /\ fl' = FlusherAt("off")
  /\ dbLock' = "free"
  /\ phase' = "stopping"
  /\ UNCHANGED <<wal, walNum, stores>>
  /\ CloseFrame

(***************************************************************************)
(* The process keeps nothing, the next one starts with NewSimpleDB; the    *)
(* directory stays as it is.                                               *)
(***************************************************************************)
Gone ==
  /\ phase' = "down"
  /\ toRemove' = {} /\ walNum' = NoWal
  /\ writeStore' = EmptyStore /\ readStore' = EmptyStore
  /\ generation' = 0 /\ readers' = <<>>
  /\ dbLock' = "free" /\ readLocks' = {} /\ mgrLock' = "free"
  /\ op' = [c \in Clients |-> Idle(Absent)]
  /\ fl' = FlusherAt("off") /\ cp' = CompactorAt("off")
  /\ UNCHANGED <<disk, bounds>>

CloseDone ==
  /\ phase = "stopping"
  /\ cp.pc \in {"off", "idle", "panicked"}
  /\ Gone

GiveUp ==
  /\ phase = "failed"
  /\ Gone

(***************************************************************************)
(* Kill -9.  The page cache survives it, so the directory is what the      *)
(* write calls have made of it.  CrashPoints names the windows a behaviour *)
(* may be killed in: "between" is any point where no table is half written *)
(* or half removed; "bare", "headers", "index" and "data" are the stages   *)
(* of a memstore flush; "flagged" is a compaction that has its flag and    *)
(* not yet its data; "removing" is an input of a compaction repaired by    *)
(* Open, and "cleaning" a WAL folder, that is partly removed.              *)
(***************************************************************************)
InWindow(w) ==
  CASE w = "flagged" -> cdir.flag /\ cdir.stage # "complete"
    [] w = "removing" -> phase = "removing"
    [] w = "cleaning" -> phase = "cleaning" /\ DOMAIN wal # {}
    [] OTHER -> fl.pc = w

Windows == {"bare", "headers", "index", "data", "flagged", "removing", "cleaning"}

Crash ==
  /\ phase # "down"
  /\ "between" \in CrashPoints
  /\ \A w \in Windows : InWindow(w) => w \in CrashPoints
  /\ opens < MaxOpens
  /\ Gone

OpenStep ==
  \/ RepairDelete \/ RepairReplace \/ RepairRename
  \/ RepairUnlink \/ RepairRemove \/ RepairDone
  \/ ReconstructSSTables \/ ReconstructFails \/ ReplayWal
  \/ (\E n \in DOMAIN wal : CleanWal(n)) \/ NewWriteAheadLog

CloseStep == CloseSend \/ CloseDrained \/ CloseDone \/ GiveUp
=============================================================================
