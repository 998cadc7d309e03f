------------------------------ MODULE DBFlush -------------------------------
(***************************************************************************)
(* executeFlush, run by the flusher goroutine for every flush action it    *)
(* receives and by Open for the replayed memstore.  Each step changes the  *)
(* directory once.                                                         *)
(***************************************************************************)
EXTENDS DBState

FlushFrame ==
  UNCHANGED <<cdir, toRemove, walNum, stores, locks, op, cp, bounds>>

(***************************************************************************)
(* The end of executeFlush: the goroutine waits for the next action, Open  *)
(* goes on to clear the WAL folder.                                        *)
(***************************************************************************)
FlushReturn ==
  IF phase = "flush"
  THEN fl' = FlusherAt("off") /\ phase' = "clean"
  ELSE fl' = FlusherAt("idle") /\ UNCHANGED phase

FlushSkip ==
  /\ fl.pc = "received" /\ fl.mem = EmptyStore
  /\ FlushReturn
  /\ UNCHANGED <<sst, wal, generation, readers>>
  /\ FlushFrame

FlushMkdir ==
  /\ fl.pc = "received" /\ fl.mem # EmptyStore
  /\ generation' = generation + 1
  /\ sst' = With(sst, generation + 1, NewTable(fl.mem))
  /\ fl' = [fl EXCEPT !.pc = "bare", !.gen = generation + 1]
  /\ UNCHANGED <<phase, wal, readers>>
  /\ FlushFrame

(***************************************************************************)
(* FlushWithTombstones.  The writer's Open flushes the two headers; the    *)
(* records stay in its buffers until Close flushes index, data and         *)
(* metadata, in this order.                                                *)
(***************************************************************************)
WriteStage(from, to) ==
  /\ fl.pc = from
  /\ sst' = [sst EXCEPT ![fl.gen].stage = to]
  /\ fl' = [fl EXCEPT !.pc = to]
  /\ UNCHANGED <<phase, generation, wal, readers>>
  /\ FlushFrame

FlushWrite ==
  \/ WriteStage("bare", "headers")
  \/ WriteStage("headers", "index")
  \/ WriteStage("index", "data")
  \/ WriteStage("data", "complete")

\* Mutants of FlushRemoveWal: removes the file being written, removes nothing.
FlushRemoveWalCurrent ==
  /\ fl.pc = "complete"
  /\ wal' = Restrict(wal, DOMAIN wal \ {walNum})
  /\ fl' = [fl EXCEPT !.pc = "removed"]
  /\ UNCHANGED <<sst, phase, generation, readers>>
  /\ FlushFrame

FlushRemoveWalNever ==
  /\ fl.pc = "complete"
  /\ fl' = [fl EXCEPT !.pc = "removed"]
  /\ UNCHANGED <<sst, wal, phase, generation, readers>>
  /\ FlushFrame

FlushRemoveWal ==
  /\ fl.pc = "complete"
  /\ wal' = Restrict(wal, DOMAIN wal \ {fl.wal})
  /\ fl' = [fl EXCEPT !.pc = "removed"]
  /\ UNCHANGED <<sst, phase, generation, readers>>
  /\ FlushFrame

(***************************************************************************)
(* NewSSTableReader and SSTableManager.addReader, which waits for a        *)
(* compaction that is being reflected.                                     *)
(***************************************************************************)
FlushAddReader ==
  /\ fl.pc = "removed"
  /\ mgrLock = "free"
  /\ readers' = With(readers, fl.gen, sst[fl.gen])
  /\ FlushReturn
  /\ UNCHANGED <<sst, wal, generation>>
  /\ FlushFrame

FlushStep ==
  FlushSkip \/ FlushMkdir \/ FlushWrite \/ FlushRemoveWal \/ FlushAddReader
=============================================================================
