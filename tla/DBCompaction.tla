---------------------------- MODULE DBCompaction ----------------------------
(***************************************************************************)
(* The background compaction: executeCompaction picks tables and merges    *)
(* them into a directory of its own, reflectCompactionResult puts the      *)
(* result in the place of the oldest of them.                              *)
(***************************************************************************)
EXTENDS DBState

(***************************************************************************)
(* candidateTablesForCompaction: small tables and tables with many         *)
(* tombstones, and by floodFill every table between two selected ones.     *)
(***************************************************************************)
Selected(t) ==
  \/ TotalBytes(t) < CompactionMaxSizeBytes
  \/ NumRecords(t) > 0 /\ NullValues(t) * RatioDen >= RatioNum * NumRecords(t)

\* Mutant of Candidates: empty tables are left out, floodFill is forgotten.
CandidatesNonEmpty(f) == {g \in DOMAIN f : Selected(f[g]) /\ NumRecords(f[g]) > 0}

Candidates(f) ==
  {g \in DOMAIN f :
     \E lo, hi \in DOMAIN f :
       lo <= g /\ g <= hi /\ Selected(f[lo]) /\ Selected(f[hi])}

CompactFrame ==
  UNCHANGED <<wal, phase, toRemove, walNum, stores, generation, readLocks, op,
              fl, bounds>>

CompactAlone == UNCHANGED <<sst, readers, dbLock, mgrLock>> /\ CompactFrame

(***************************************************************************)
(* A tick with more candidates than the threshold creates the compaction   *)
(* directory and opens its writer.  NewSSTableStreamWriter refuses a bloom *)
(* filter for zero records: the goroutine then panics and is stuck in its  *)
(* deferred send to doneCompactionChannel.                                 *)
(***************************************************************************)
HasRecords(paths) == \E g \in paths : NumRecords(readers[g]) > 0

CompactTick ==
  LET paths == Candidates(readers)
  IN  /\ cp.pc = "idle"
      /\ mgrLock = "free"
      /\ Cardinality(paths) > CompactionFileThreshold
      /\ IF HasRecords(paths)
         THEN /\ cdir' = [NoCompaction EXCEPT !.stage = "headers"]
              /\ cp' = [pc |-> "merging", paths |-> paths, left |-> {}]
         ELSE /\ cdir' = [NoCompaction EXCEPT !.stage = "bare"]
              /\ cp' = CompactorAt("panicked")
      /\ CompactAlone

(***************************************************************************)
(* MergeCompact leaves its records in the writer's buffers, and the        *)
(* success flag is saved before the deferred Close of the writer flushes   *)
(* them.                                                                   *)
(***************************************************************************)
CompactMerge ==
  /\ cp.pc = "merging"
  /\ cdir' = [stage |-> "headers", cells |-> MergeCompact(Restrict(sst, cp.paths)),
              paths |-> cp.paths, flag |-> TRUE]
  /\ cp' = [cp EXCEPT !.pc = "headers"]
  /\ CompactAlone

CompactCloseStage(from, to) ==
  /\ cp.pc = from
  /\ cdir' = [cdir EXCEPT !.stage = to]
  /\ cp' = [cp EXCEPT !.pc = to]
  /\ CompactAlone

CompactClose ==
  \/ CompactCloseStage("headers", "index")
  \/ CompactCloseStage("index", "data")
  \/ CompactCloseStage("data", "complete")

(***************************************************************************)
(* reflectCompactionResult: the database lock first, the manager lock      *)
(* second ...                                                              *)
(***************************************************************************)
CompactLockDB ==
  /\ cp.pc = "complete"
  /\ CanLock
  /\ dbLock' = "compactor"
  /\ cp' = [cp EXCEPT !.pc = "locked"]
  /\ UNCHANGED <<sst, cdir, readers, mgrLock>>
  /\ CompactFrame

CompactLockManager ==
  /\ cp.pc = "locked"
  /\ mgrLock = "free"
  /\ mgrLock' = "compactor"
  /\ cp' = [cp EXCEPT !.pc = "removing", !.left = cp.paths]
  /\ UNCHANGED <<sst, cdir, readers, dbLock>>
  /\ CompactFrame

(***************************************************************************)
(* ... then the inputs are removed, oldest first ...                       *)
(***************************************************************************)
\* Mutant of CompactRemove: the loop does not advance.
CompactRemoveStuck ==
  /\ cp.pc = "removing"
  /\ cp.left # {}
  /\ sst' = Restrict(sst, DOMAIN sst \ {Min(cp.left)})
  /\ UNCHANGED <<cp, cdir, readers, dbLock, mgrLock>>
  /\ CompactFrame

CompactRemove ==
  /\ cp.pc = "removing"
  /\ cp.left # {}
  /\ sst' = Restrict(sst, DOMAIN sst \ {Min(cp.left)})
  /\ cp' = [cp EXCEPT !.left = cp.left \ {Min(cp.left)}]
  /\ UNCHANGED <<cdir, readers, dbLock, mgrLock>>
  /\ CompactFrame

(***************************************************************************)
(* ... the result is renamed to the oldest of them ...                     *)
(***************************************************************************)
CompactRename ==
  /\ cp.pc = "removing"
  /\ cp.left = {}
  /\ sst' = With(sst, Replacement(cp.paths),
                 [stage |-> cdir.stage, cells |-> cdir.cells])
  /\ cdir' = NoCompaction
  /\ cp' = [cp EXCEPT !.pc = "renamed"]
  /\ UNCHANGED <<readers, dbLock, mgrLock>>
  /\ CompactFrame

(***************************************************************************)
(* ... and its reader takes the place of theirs.                           *)
(***************************************************************************)
CompactReflect ==
  LET new == Replacement(cp.paths)
  IN  /\ cp.pc = "renamed"
      /\ readers' = With(Restrict(readers, DOMAIN readers \ cp.paths), new, sst[new])
      /\ dbLock' = "free" /\ mgrLock' = "free"
      /\ cp' = CompactorAt("idle")
      /\ UNCHANGED <<sst, cdir>>
      /\ CompactFrame

CompactStep ==
  \/ CompactMerge \/ CompactClose \/ CompactLockManager
  \/ CompactRemove \/ CompactRename \/ CompactReflect
=============================================================================
