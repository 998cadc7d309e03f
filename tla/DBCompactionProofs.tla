------------------------- MODULE DBCompactionProofs -------------------------
(***************************************************************************)
(* The background compaction keeps Inv and changes no value, nor does the  *)
(* repair of one that was interrupted.                                     *)
(***************************************************************************)
EXTENDS DBLemmas, DBCompaction, DBLifecycle

(***************************************************************************)
(* The empty set has no element, and the empty memstore no bytes.          *)
(***************************************************************************)
LEMMA NoElements == Cardinality({}) = 0
<1> DEFINE Counts(CS) ==
             CS = [T \in SUBSET {} |-> IF T = {} THEN 0 ELSE 1 + CS[T \ {CHOOSE x : x \in T}]]
           zero == [T \in SUBSET {} |-> 0]
           count == CHOOSE CS : Counts(CS)
<1>1. Counts(zero)
  OBVIOUS
<1>2. Counts(count)
  BY Zenon
<1> HIDE DEF count
<1>3. count[{}] = 0
  BY <1>2
<1> QED BY <1>3 DEF Cardinality, count

(***************************************************************************)
(* Bytes of the memstore that NewSimpleDB starts with.                     *)
(***************************************************************************)
LEMMA NoBytes == EmptyStore \in Memstore /\ Bytes(EmptyStore) = 0
<1>1. KeysOf(EmptyStore) = {} /\ LiveKeysOf(EmptyStore) = {}
  BY DEF KeysOf, LiveKeysOf, EmptyStore
<1> QED BY <1>1, NoElements DEF EmptyStore, Memstore, MemCell, Bytes

(***************************************************************************)
(* No table reaches the size limit, so all of them are candidates.         *)
(***************************************************************************)
LEMMA AllCandidates ==
  ASSUME NEW f, NumberedBy(f, Table)
  PROVE  Candidates(f) = DOMAIN f
<1>1. ASSUME NEW g \in DOMAIN f PROVE Selected(f[g])
  <2>1. f[g].cells \in Memstore
    BY DEF NumberedBy, Table
  <2>2. Bytes(f[g].cells) < CompactionMaxSizeBytes /\ 0 < CompactionMaxSizeBytes
    BY <2>1, NoBytes, TablesStaySmall
  <2> QED BY <2>2 DEF Selected, TotalBytes
<1>2. \A g \in DOMAIN f : g <= g
  BY DEF NumberedBy
<1> QED BY <1>1, <1>2 DEF Candidates

(***************************************************************************)
(* What no step of the compaction touches.                                 *)
(***************************************************************************)
LEMMA CompactCommon ==
  ASSUME Inv, cp.pc # "off", CompactFrame
  PROVE  /\ UNCHANGED <<wal, phase, toRemove, walNum, writeStore, readStore, generation,
                        readLocks, op, fl, mutations, opens>>
         /\ phase \in Running /\ phase \in Loaded /\ toRemove = {} /\ LogFiles' = LogFiles
         /\ (cdir.flag => cp.pc \in Merged) /\ (Flushing' <=> Flushing)
         /\ CurrentInv' /\ PendingInv' /\ SendInv' /\ LockstepInv' /\ ReplayInv' /\ FinishInv'
<1>f. UNCHANGED <<wal, phase, toRemove, walNum, writeStore, readStore, generation,
                  readLocks, op, fl, mutations, opens>>
  BY DEF CompactFrame, stores, bounds
<1>1. phase \in Running /\ phase \in Loaded
  BY DEF Inv, PhaseInv, Running, Loaded
<1>2. toRemove = {} /\ (cdir.flag => cp.pc \in Merged)
  BY DEF Inv, PhaseInv, Running
<1>3. LogFiles' = LogFiles /\ (Flushing' <=> Flushing)
  BY <1>f DEF LogFiles, Flushing
<1>4. CurrentInv' /\ PendingInv' /\ SendInv' /\ LockstepInv'
  BY <1>f, LogFrame DEF Inv
<1>5. ReplayInv' /\ FinishInv'
  BY <1>f, <1>1, <1>2 DEF ReplayInv, FinishInv, Running
<1> QED BY <1>f, <1>1, <1>2, <1>3, <1>4, <1>5

(***************************************************************************)
(* A step that leaves the readers, memstores, calls and the flush alone keeps *)
(* what is said about the read store and the Gets.                         *)
(***************************************************************************)
LEMMA StoresFrame ==
  ASSUME ReadStoreInv, GetInv,
         UNCHANGED <<readers, writeStore, readStore, op, fl, phase>>
  PROVE  ReadStoreInv' /\ GetInv'
<1>1. SendPending' <=> SendPending
  BY DEF SendPending
<1> QED BY <1>1 DEF ReadStoreInv, GetInv, MemValue

(***************************************************************************)
(* executeCompaction starts: the candidates are all the readers there are. *)
(***************************************************************************)
LEMMA CompactTickStep ==
  ASSUME Inv, CompactTick
  PROVE  Inv' /\ OnlyWritesChange
<1> DEFINE paths == Candidates(readers)
<1>1. /\ cp.pc = "idle" /\ mgrLock = "free" /\ CompactFrame
      /\ Cardinality(paths) > CompactionFileThreshold
      /\ UNCHANGED <<sst, readers, dbLock, mgrLock>>
  BY DEF CompactTick, CompactAlone
<1>2. \/ /\ cdir' = [NoCompaction EXCEPT !.stage = "headers"]
         /\ cp' = [pc |-> "merging", paths |-> paths, left |-> {}]
      \/ /\ cdir' = [NoCompaction EXCEPT !.stage = "bare"]
         /\ cp' = CompactorAt("panicked")
  BY DEF CompactTick
<1>3. paths = DOMAIN readers /\ paths # {}
  <2>1. paths = DOMAIN readers
    BY AllCandidates DEF Inv, TypeOK, MemoryOK
  <2> QED BY <1>1, <2>1, NoElements, OptionsAssumption
<1> HIDE DEF paths
<1>c. /\ UNCHANGED <<wal, phase, toRemove, walNum, writeStore, readStore, generation,
                     readLocks, op, fl, mutations, opens>>
      /\ phase \in Running /\ phase \in Loaded /\ toRemove = {} /\ LogFiles' = LogFiles
      /\ (cdir.flag => cp.pc \in Merged) /\ (Flushing' <=> Flushing)
      /\ CurrentInv' /\ PendingInv' /\ SendInv' /\ LockstepInv' /\ ReplayInv' /\ FinishInv'
  BY <1>1, CompactCommon
<1>4. /\ ~cdir.flag /\ ~cdir'.flag /\ cdir'.flag \in BOOLEAN /\ cdir'.paths = {}
      /\ cdir'.stage \in Stages
      /\ cdir'.cells \in Memstore
      /\ cdir' = [stage |-> cdir'.stage, cells |-> cdir'.cells, paths |-> cdir'.paths,
                  flag |-> cdir'.flag]
  <2>1. EmptyStore \in Memstore
    BY DEF EmptyStore, Memstore, MemCell
  <2>2. ~cdir.flag
    BY <1>1, <1>c DEF Merged
  <2> QED BY <1>2, <2>1, <2>2, Zenon DEF NoCompaction, Stages
<1>5. /\ cp' = [pc |-> cp'.pc, paths |-> cp'.paths, left |-> cp'.left]
      /\ cp'.pc \in {"merging", "panicked"} /\ cp'.left = {}
      /\ cp'.paths \in SUBSET DOMAIN readers
      /\ cp'.pc = "merging" => cp'.paths = DOMAIN readers
  BY <1>2, <1>3 DEF CompactorAt
<1>t. TypeOK'
  <2>1. DOMAIN readers \in SUBSET Nat /\ FiniteNumbers(DOMAIN readers)
    BY DEF Inv, TypeOK, MemoryOK, NumberedBy
  <2>2. /\ FiniteNumbers(cdir'.paths) /\ FiniteNumbers(cp'.paths) /\ FiniteNumbers(cp'.left)
        /\ cp'.left = {}
    BY <1>2, <1>5, <2>1, FewerNumbers DEF NoCompaction
  <2> QED BY <1>1, <1>c, <1>4, <1>5, <2>1, <2>2, TypeFrame, Zenon
             DEF Inv, TypeOK, TablesOK, CompactorOK
<1>l. LockInv'
  BY <1>1, <1>c, <1>5 DEF Inv, LockInv
<1>p. PhaseInv'
  BY <1>c, <1>4 DEF Inv, PhaseInv
<1>s. TableInv' /\ ReaderInv' /\ CompactorInv'
  <2>1. TableInv'
    BY <1>1, <1>c DEF Inv, TableInv
  <2>2. ReaderInv'
    <3>1. Reflecting = {} /\ Reflecting' = {}
      BY <1>1, <1>5 DEF Reflecting
    <3> QED BY <1>1, <1>c, <3>1 DEF Inv, ReaderInv
  <2>3. CompactorInv'
    BY <1>1, <1>3, <1>5 DEF CompactorInv, Merged, Closing, Compacting
  <2> QED BY <2>1, <2>2, <2>3
<1>m. MergeInv' /\ MergeKeepsAll'
  BY <1>4 DEF MergeInv, MergeKeepsAll
<1>g. ReadStoreInv' /\ GetInv'
  BY <1>1, <1>c, StoresFrame DEF Inv
<1>d. OnlyWritesChange
  BY <1>1, <1>4, <1>c DEF OnlyWritesChange, DiskValue, FinishedTables, CompactionCounts
<1> QED BY <1>c, <1>t, <1>l, <1>p, <1>s, <1>m, <1>g, <1>d DEF Inv

(***************************************************************************)
(* MergeCompact and the success flag.                                      *)
(***************************************************************************)
LEMMA CompactMergeStep ==
  ASSUME Inv, CompactMerge
  PROVE  Inv' /\ OnlyWritesChange
<1> DEFINE F == Restrict(sst, cp.paths)
           cells == MergeCompact(F)
<1>1. /\ cp.pc = "merging" /\ CompactFrame /\ cp' = [cp EXCEPT !.pc = "headers"]
      /\ cdir' = [stage |-> "headers", cells |-> cells, paths |-> cp.paths, flag |-> TRUE]
      /\ UNCHANGED <<sst, readers, dbLock, mgrLock>>
  BY DEF CompactMerge, CompactAlone
<1>c. /\ UNCHANGED <<wal, phase, toRemove, walNum, writeStore, readStore, generation,
                     readLocks, op, fl, mutations, opens>>
      /\ phase \in Running /\ phase \in Loaded /\ toRemove = {} /\ LogFiles' = LogFiles
      /\ (cdir.flag => cp.pc \in Merged) /\ (Flushing' <=> Flushing)
      /\ CurrentInv' /\ PendingInv' /\ SendInv' /\ LockstepInv' /\ ReplayInv' /\ FinishInv'
  BY <1>1, CompactCommon
<1>2. /\ cp.paths # {} /\ cp.paths \in SUBSET DOMAIN sst /\ cp.paths \in SUBSET Nat
      /\ \A p \in cp.paths : sst[p].stage \in {"headers", "complete"} /\ readers[p] = sst[p]
      /\ \A g \in DOMAIN sst \ cp.paths : \A p \in cp.paths : p < g
      /\ Replacement(cp.paths) \in cp.paths
  BY <1>1, Inputs DEF Compacting
<1>3. /\ NumberedBy(F, Table) /\ DOMAIN F = cp.paths /\ \A p \in cp.paths : F[p] = sst[p]
  <2>1. NumberedBy(F, Table)
    BY <1>2, RestrictNumbered DEF Inv, TypeOK, TablesOK
  <2> QED BY <2>1, RestrictedTo
<1>4. /\ DOMAIN F \in SUBSET Nat /\ FiniteNumbers(DOMAIN F)
      /\ \A g \in DOMAIN F : F[g] \in Table
  BY <1>3 DEF NumberedBy
<1>5. Readable(F)
  BY <1>2, <1>3 DEF Readable
<1> HIDE DEF F
<1>6. cells \in Memstore /\ \A k \in Keys : cells[k] = ValueOf(Newest(F, k))
  BY <1>4, <1>5, MergeType, MergeKeepsNewest
<1> HIDE DEF cells
<1>7. /\ cp'.pc = "headers" /\ cp'.paths = cp.paths /\ cp'.left = cp.left
      /\ cp' = [pc |-> cp'.pc, paths |-> cp'.paths, left |-> cp'.left]
  BY <1>1 DEF Inv, TypeOK, CompactorOK
<1>8. cdir'.stage = "headers" /\ cdir'.cells = cells /\ cdir'.paths = cp.paths /\ cdir'.flag = TRUE
  BY <1>1
<1>9. ~cdir.flag
  BY <1>1, <1>c DEF Merged
<1>t. TypeOK'
  BY <1>1, <1>c, <1>6, TypeFrame, Zenon
     DEF Inv, TypeOK, TablesOK, WalOK, MemoryOK, CallsOK, CompactorOK, Stages
<1>l. LockInv'
  BY <1>1, <1>c DEF Inv, LockInv
<1>p. PhaseInv'
  BY <1>1, <1>c DEF Inv, PhaseInv, Merged
<1>s. TableInv' /\ ReaderInv' /\ CompactorInv'
  <2>1. TableInv'
    BY <1>1, <1>c DEF Inv, TableInv
  <2>2. ReaderInv'
    <3>1. Reflecting = {} /\ Reflecting' = {}
      BY <1>1 DEF Reflecting
    <3> QED BY <1>1, <1>c, <3>1 DEF Inv, ReaderInv
  <2>3. CompactorInv'
    BY <1>1 DEF Inv, CompactorInv, Compacting
  <2> QED BY <2>1, <2>2, <2>3
<1>m. MergeInv' /\ MergeKeepsAll'
  <2>1. Hides(cdir.paths, cdir.cells)'
    <3> SUFFICES ASSUME NEW k \in Keys, NEW g \in cp.paths, CellIn(sst[g], k) # Absent,
                        \A h \in cp.paths \cap DOMAIN sst : g < h => CellIn(sst[h], k) = Absent
                 PROVE  cells[k] = ValueOf(CellIn(sst[g], k))
      BY <1>1 DEF Hides, IsNewest
    <3>1. \A h \in DOMAIN F : h > g => CellIn(F[h], k) = Absent
      BY <1>2, <1>3
    <3>2. Newest(F, k) = CellIn(F[g], k)
      BY <1>3, <1>4, <3>1, NewestAt
    <3> QED BY <1>3, <1>6, <3>2
  <2>2. MergeInv'
    BY <1>1, <1>2, <2>1 DEF MergeInv, CompactionCounts, Stages
  <2>3. MergeKeepsAll'
    BY <1>1, <1>6 DEF MergeKeepsAll, F
  <2> QED BY <2>2, <2>3
<1>g. ReadStoreInv' /\ GetInv'
  BY <1>1, <1>c, StoresFrame DEF Inv
<1>d. OnlyWritesChange
  BY <1>1, <1>9, <1>c DEF OnlyWritesChange, DiskValue, FinishedTables, CompactionCounts
<1> QED BY <1>c, <1>t, <1>l, <1>p, <1>s, <1>m, <1>g, <1>d DEF Inv

(***************************************************************************)
(* The deferred Close of the writer.  With its last step the result counts *)
(* in place of the inputs.                                                 *)
(***************************************************************************)
LEMMA CompactCloseStep ==
  ASSUME Inv, NEW from \in Closing, NEW to \in {"index", "data", "complete"},
         CompactCloseStage(from, to)
  PROVE  Inv' /\ OnlyWritesChange
<1>1. /\ cp.pc = from /\ cp.pc # "off" /\ CompactFrame /\ cp' = [cp EXCEPT !.pc = to]
      /\ cdir' = [cdir EXCEPT !.stage = to] /\ UNCHANGED <<sst, readers, dbLock, mgrLock>>
  BY DEF CompactCloseStage, CompactAlone, Closing
<1>c. /\ UNCHANGED <<wal, phase, toRemove, walNum, writeStore, readStore, generation,
                     readLocks, op, fl, mutations, opens>>
      /\ phase \in Running /\ phase \in Loaded /\ toRemove = {} /\ LogFiles' = LogFiles
      /\ (cdir.flag => cp.pc \in Merged) /\ (Flushing' <=> Flushing)
      /\ CurrentInv' /\ PendingInv' /\ SendInv' /\ LockstepInv' /\ ReplayInv' /\ FinishInv'
  BY <1>1, CompactCommon
<1>2. /\ cp.paths # {} /\ cp.paths \in SUBSET DOMAIN sst /\ cp.paths \in SUBSET Nat
      /\ \A p \in cp.paths : sst[p].stage \in {"headers", "complete"} /\ readers[p] = sst[p]
      /\ \A g \in DOMAIN sst \ cp.paths : \A p \in cp.paths : p < g
      /\ Replacement(cp.paths) \in cp.paths
  BY <1>1, Inputs DEF Compacting, Closing
<1>3. /\ cp'.pc = to /\ cp'.paths = cp.paths /\ cp'.left = cp.left
      /\ cp' = [pc |-> cp'.pc, paths |-> cp'.paths, left |-> cp'.left]
  BY <1>1 DEF Inv, TypeOK, CompactorOK
<1>4. /\ cdir'.stage = to /\ cdir'.cells = cdir.cells /\ cdir'.paths = cdir.paths
      /\ cdir'.flag = cdir.flag
      /\ cdir' = [stage |-> cdir'.stage, cells |-> cdir'.cells, paths |-> cdir'.paths,
                  flag |-> cdir'.flag]
  BY <1>1 DEF Inv, TypeOK, TablesOK
<1>5. cdir.flag /\ cdir.paths = cp.paths /\ ~CompactionCounts
  BY <1>1 DEF Inv, CompactorInv, Closing, Merged, CompactionCounts
<1>6. MergeKeepsAll /\ \A k \in Keys : cdir.cells[k] = ValueOf(Newest(Restrict(sst, cdir.paths), k))
  BY <1>1, <1>5 DEF Inv, MergeKeepsAll, Closing, Stages
<1>t. TypeOK'
  BY <1>1, <1>c, TypeFrame, Zenon DEF Inv, TypeOK, TablesOK, CompactorOK, Stages
<1>l. LockInv'
  BY <1>1, <1>c DEF Inv, LockInv, Closing
<1>p. PhaseInv'
  BY <1>c, <1>3, <1>4 DEF Inv, PhaseInv, Merged
<1>s. TableInv' /\ ReaderInv' /\ CompactorInv'
  <2>1. TableInv'
    BY <1>1, <1>c DEF Inv, TableInv
  <2>2. ReaderInv'
    <3>1. Reflecting = {} /\ Reflecting' = {}
      BY <1>1 DEF Reflecting, Closing
    <3> QED BY <1>1, <1>c, <3>1 DEF Inv, ReaderInv
  <2>3. CompactorInv'
    BY <1>1, <1>5 DEF Inv, CompactorInv, Closing, Compacting
  <2> QED BY <2>1, <2>2, <2>3
<1>m. MergeInv' /\ MergeKeepsAll'
  <2>1. Hides(cdir.paths, cdir.cells) => Hides(cdir.paths, cdir.cells)'
    BY <1>1 DEF Hides, IsNewest
  <2>2. CompactionCounts' => to = "complete"
    BY <1>3 DEF CompactionCounts
  <2>3. MergeInv'
    BY <1>1, <2>1, <2>2 DEF Inv, MergeInv, Stages
  <2>4. MergeKeepsAll'
    BY <1>1, <1>6 DEF MergeKeepsAll
  <2> QED BY <2>3, <2>4
<1>g. ReadStoreInv' /\ GetInv'
  BY <1>1, <1>c, StoresFrame DEF Inv
<1>d. OnlyWritesChange
  <2> SUFFICES ASSUME NEW k \in Keys PROVE UNCHANGED DiskValue(k)
    BY DEF OnlyWritesChange
  <2>1. FinishedTables = sst
    BY <1>5, <1>c, FinishedPlain DEF Inv, TypeOK, TablesOK
  <2>2. CASE to # "complete"
    <3>1. ~CompactionCounts'
      BY <1>1, <2>2 DEF CompactionCounts
    <3>2. FinishedTables' = FinishedTables
      BY <1>1, <1>5, <1>c, <3>1 DEF FinishedTables
    <3> QED BY <1>c, <3>2 DEF DiskValue
  <2>3. CASE to = "complete"
    <3> DEFINE r == Replacement(cp.paths)
               h == FinishedTables'
    <3>1. h = With(Restrict(sst, DOMAIN sst \ cp.paths), r,
                   [stage |-> "complete", cells |-> cdir.cells])
      BY <1>1, <1>3, <1>4, <1>5, <2>3, Zenon DEF FinishedTables, CompactionCounts
    <3>2. NumberedBy(h, Table)
      <4>1. TypeOK' /\ MergeInv'
        BY <1>t, <1>m
      <4>2. r \in Nat /\ [stage |-> "complete", cells |-> cdir.cells] \in Table
        BY <1>2 DEF Inv, TypeOK, TablesOK, Table, Stages
      <4>3. NumberedBy(Restrict(sst, DOMAIN sst \ cp.paths), Table)
        BY RestrictNumbered DEF Inv, TypeOK, TablesOK
      <4> QED BY <3>1, <4>2, <4>3, WithNumbered
    <3>3. /\ DOMAIN h = (DOMAIN sst \ cp.paths) \cup {r}
          /\ h[r].stage = "complete" /\ h[r].cells = cdir.cells
          /\ \A n \in DOMAIN sst \ cp.paths : h[n] = sst[n]
      BY <1>2, <3>1 DEF With, Restrict
    <3>4. r \in Nat /\ \A n \in DOMAIN sst \ cp.paths : r < n /\ \A p \in cp.paths : p < n
      BY <1>2
    <3>5. ValueOf(cdir.cells[k]) = cdir.cells[k]
      BY <1>6 DEF ValueOf
    <3> HIDE DEF h, r
    <3>6. ASSUME NEW g \in cp.paths \cap DOMAIN sst, CellIn(sst[g], k) # Absent,
                 \A m \in cp.paths \cap DOMAIN sst : g < m => CellIn(sst[m], k) = Absent
          PROVE  ValueOf(h[r].cells[k]) = ValueOf(CellIn(sst[g], k))
      <4>1. IsNewest(cp.paths, g, k)
        BY <3>6 DEF IsNewest
      <4>2. Hides(cp.paths, cdir.cells)
        BY <1>5 DEF Inv, MergeInv
      <4> QED BY <3>3, <3>5, <4>1, <4>2 DEF Hides
    <3>7. ASSUME \A g \in cp.paths \cap DOMAIN sst : CellIn(sst[g], k) = Absent
          PROVE  ValueOf(h[r].cells[k]) = Absent
      <4>1. Newest(Restrict(sst, cp.paths), k) = Absent
        <5>1. \A g \in DOMAIN Restrict(sst, cp.paths) :
                CellIn(Restrict(sst, cp.paths)[g], k) = Absent
          BY <1>2, <3>7, RestrictedTo
        <5> QED BY <5>1, NewestNone
      <4> QED BY <1>5, <1>6, <3>3, <3>5, <4>1, CellAssumption DEF ValueOf
    <3>8. ValueOf(Newest(h, k)) = ValueOf(Newest(sst, k))
      <4>1. NumberedBy(sst, Table) /\ cp.paths \in SUBSET Nat
        BY DEF Inv, TypeOK, TablesOK, CompactorOK
      <4>2. \A g \in cp.paths \cap DOMAIN sst :
              /\ CellIn(sst[g], k) # Absent
              /\ \A m \in cp.paths \cap DOMAIN sst : g < m => CellIn(sst[m], k) = Absent
              => ValueOf(h[r].cells[k]) = ValueOf(CellIn(sst[g], k))
        BY <3>6
      <4>3. (\A g \in cp.paths \cap DOMAIN sst : CellIn(sst[g], k) = Absent) =>
              ValueOf(h[r].cells[k]) = Absent
        BY <3>7
      <4> QED BY <3>2, <3>3, <3>4, <4>1, <4>2, <4>3, NewestKept, ZenonT(40)
    <3> QED BY <1>c, <2>1, <3>8 DEF DiskValue, Over, h
  <2> QED BY <2>2, <2>3
<1> QED BY <1>c, <1>t, <1>l, <1>p, <1>s, <1>m, <1>g, <1>d DEF Inv

(***************************************************************************)
(* reflectCompactionResult takes the two locks.                            *)
(***************************************************************************)
LEMMA CompactLockDBStep ==
  ASSUME Inv, CompactLockDB
  PROVE  Inv' /\ OnlyWritesChange
<1>1. /\ cp.pc = "complete" /\ CompactFrame /\ cp' = [cp EXCEPT !.pc = "locked"]
      /\ dbLock = "free" /\ readLocks = {} /\ dbLock' = "compactor"
      /\ UNCHANGED <<sst, cdir, readers, mgrLock>>
  BY DEF CompactLockDB, CanLock
<1>c. /\ UNCHANGED <<wal, phase, toRemove, walNum, writeStore, readStore, generation,
                     readLocks, op, fl, mutations, opens>>
      /\ phase \in Running /\ phase \in Loaded /\ toRemove = {} /\ LogFiles' = LogFiles
      /\ (cdir.flag => cp.pc \in Merged) /\ (Flushing' <=> Flushing)
      /\ CurrentInv' /\ PendingInv' /\ SendInv' /\ LockstepInv' /\ ReplayInv' /\ FinishInv'
  BY <1>1, CompactCommon
<1>2. /\ cp'.pc = "locked" /\ cp'.paths = cp.paths /\ cp'.left = cp.left
      /\ cp' = [pc |-> cp'.pc, paths |-> cp'.paths, left |-> cp'.left]
  BY <1>1 DEF Inv, TypeOK, CompactorOK
<1>t. TypeOK'
  BY <1>1, <1>c, TypeFrame, Zenon DEF Inv, TypeOK, CallsOK, CompactorOK
<1>l. LockInv'
  <2>1. \A c \in Clients : c # "free" /\ c # "compactor"
    BY ClientsAssumption
  <2> QED BY <1>1, <1>c, <2>1 DEF Inv, LockInv
<1>p. PhaseInv'
  BY <1>1, <1>c DEF Inv, PhaseInv, Merged
<1>s. TableInv' /\ ReaderInv' /\ CompactorInv'
  <2>1. TableInv'
    BY <1>1, <1>c DEF Inv, TableInv
  <2>2. ReaderInv'
    <3>1. Reflecting = {} /\ Reflecting' = {}
      BY <1>1 DEF Reflecting
    <3> QED BY <1>1, <1>c, <3>1 DEF Inv, ReaderInv
  <2>3. CompactorInv'
    BY <1>1 DEF Inv, CompactorInv, Merged, Closing, Compacting
  <2> QED BY <2>1, <2>2, <2>3
<1>m. MergeInv' /\ MergeKeepsAll'
  <2>1. Hides(cdir.paths, cdir.cells) => Hides(cdir.paths, cdir.cells)'
    BY <1>1 DEF Hides, IsNewest
  <2>2. CompactionCounts' <=> CompactionCounts
    BY <1>1 DEF CompactionCounts
  <2>3. MergeInv'
    BY <1>1, <2>1, <2>2 DEF Inv, MergeInv
  <2>4. MergeKeepsAll'
    BY <1>1 DEF Inv, MergeKeepsAll, Stages
  <2> QED BY <2>3, <2>4
<1>g. ReadStoreInv' /\ GetInv'
  BY <1>1, <1>c, StoresFrame DEF Inv
<1>d. OnlyWritesChange
  BY <1>1, <1>c DEF OnlyWritesChange, DiskValue, FinishedTables, CompactionCounts
<1> QED BY <1>c, <1>t, <1>l, <1>p, <1>s, <1>m, <1>g, <1>d DEF Inv

(***************************************************************************)
(* reflectCompactionResult takes the manager lock after the database lock. *)
(***************************************************************************)
LEMMA CompactLockManagerStep ==
  ASSUME Inv, CompactLockManager
  PROVE  Inv' /\ OnlyWritesChange
<1>1. /\ cp.pc = "locked" /\ CompactFrame
      /\ cp' = [cp EXCEPT !.pc = "removing", !.left = cp.paths]
      /\ mgrLock = "free" /\ mgrLock' = "compactor"
      /\ UNCHANGED <<sst, cdir, readers, dbLock>>
  BY DEF CompactLockManager
<1>c. /\ UNCHANGED <<wal, phase, toRemove, walNum, writeStore, readStore, generation,
                     readLocks, op, fl, mutations, opens>>
      /\ phase \in Running /\ phase \in Loaded /\ toRemove = {} /\ LogFiles' = LogFiles
      /\ (cdir.flag => cp.pc \in Merged) /\ (Flushing' <=> Flushing)
      /\ CurrentInv' /\ PendingInv' /\ SendInv' /\ LockstepInv' /\ ReplayInv' /\ FinishInv'
  BY <1>1, CompactCommon
<1>2. /\ cp'.pc = "removing" /\ cp'.paths = cp.paths /\ cp'.left = cp.paths
      /\ cp' = [pc |-> cp'.pc, paths |-> cp'.paths, left |-> cp'.left]
  BY <1>1, Zenon DEF Inv, TypeOK, CompactorOK
<1>3. /\ cp.paths # {} /\ cp.paths \in SUBSET DOMAIN sst /\ cp.paths \in SUBSET Nat
      /\ \A p \in cp.paths : sst[p].stage \in {"headers", "complete"} /\ readers[p] = sst[p]
      /\ \A g \in DOMAIN sst \ cp.paths : \A p \in cp.paths : p < g
      /\ Replacement(cp.paths) \in cp.paths
  BY <1>1, Inputs DEF Compacting
<1>t. TypeOK'
  BY <1>1, <1>c, TypeFrame, Zenon DEF Inv, TypeOK, WalOK, CallsOK, CompactorOK
<1>l. LockInv'
  BY <1>1, <1>c DEF Inv, LockInv
<1>p. PhaseInv'
  BY <1>1, <1>c DEF Inv, PhaseInv, Merged
<1>s. TableInv' /\ ReaderInv' /\ CompactorInv'
  <2>1. TableInv'
    BY <1>1, <1>c DEF Inv, TableInv
  <2>2. ReaderInv'
    <3>1. Reflecting = {} /\ Reflecting' = cp.paths
      BY <1>1 DEF Reflecting
    <3>2. cp.paths \subseteq DOMAIN readers
      BY <1>1 DEF Inv, CompactorInv, Compacting
    <3> QED BY <1>1, <1>c, <3>1, <3>2 DEF Inv, ReaderInv
  <2>3. CompactorInv'
    <3>1. cdir.flag /\ cdir.paths = cp.paths
      BY <1>1 DEF Inv, CompactorInv, Merged
    <3>2. Restrict(readers, cp.paths) = Restrict(sst, cp.paths)
      BY <1>3 DEF Restrict
    <3>3. \A k \in Keys : cdir.cells[k] = ValueOf(Newest(Restrict(readers, cp.paths), k))
      BY <1>1, <3>1, <3>2 DEF Inv, MergeKeepsAll
    <3>4. DOMAIN sst \cap cp.paths = cp.paths
      BY <1>3
    <3> QED BY <1>1, <1>2, <3>1, <3>3, <3>4
            DEF Inv, CompactorInv, Merged, Closing, Compacting, ReadersValue
  <2> QED BY <2>1, <2>2, <2>3
<1>m. MergeInv' /\ MergeKeepsAll'
  <2>1. Hides(cdir.paths, cdir.cells) => Hides(cdir.paths, cdir.cells)'
    BY <1>1 DEF Hides, IsNewest
  <2>2. CompactionCounts' <=> CompactionCounts
    BY <1>1 DEF CompactionCounts
  <2>3. MergeInv'
    BY <1>1, <2>1, <2>2 DEF Inv, MergeInv
  <2>4. MergeKeepsAll'
    BY <1>2 DEF MergeKeepsAll, Stages
  <2> QED BY <2>3, <2>4
<1>g. ReadStoreInv' /\ GetInv'
  BY <1>1, <1>c, StoresFrame DEF Inv
<1>d. OnlyWritesChange
  BY <1>1, <1>c DEF OnlyWritesChange, DiskValue, FinishedTables, CompactionCounts
<1> QED BY <1>c, <1>t, <1>l, <1>p, <1>s, <1>m, <1>g, <1>d DEF Inv

(***************************************************************************)
(* It removes the inputs, oldest first.                                    *)
(***************************************************************************)
LEMMA CompactRemoveStep ==
  ASSUME Inv, CompactRemove
  PROVE  Inv' /\ OnlyWritesChange
<1> DEFINE m == Min(cp.left)
<1>1. /\ cp.pc = "removing" /\ CompactFrame /\ cp.left # {}
      /\ sst' = Restrict(sst, DOMAIN sst \ {m})
      /\ cp' = [cp EXCEPT !.left = cp.left \ {m}]
      /\ UNCHANGED <<cdir, readers, dbLock, mgrLock>>
  BY DEF CompactRemove
<1>c. /\ UNCHANGED <<wal, phase, toRemove, walNum, writeStore, readStore, generation,
                     readLocks, op, fl, mutations, opens>>
      /\ phase \in Running /\ phase \in Loaded /\ toRemove = {} /\ LogFiles' = LogFiles
      /\ (cdir.flag => cp.pc \in Merged) /\ (Flushing' <=> Flushing)
      /\ CurrentInv' /\ PendingInv' /\ SendInv' /\ LockstepInv' /\ ReplayInv' /\ FinishInv'
  BY <1>1, CompactCommon
<1>2. /\ cp'.pc = "removing" /\ cp'.paths = cp.paths /\ cp'.left = cp.left \ {m}
      /\ cp' = [pc |-> cp'.pc, paths |-> cp'.paths, left |-> cp'.left]
  BY <1>1, Zenon DEF Inv, TypeOK, CompactorOK
<1>3. /\ cdir.flag /\ cdir.paths = cp.paths /\ CompactionCounts /\ CompactionCounts'
      /\ cp.left \in SUBSET cp.paths /\ DOMAIN sst \cap cp.paths = cp.left
      /\ cp.paths \in SUBSET Nat /\ cp.paths \in SUBSET DOMAIN readers
      /\ FiniteNumbers(cp.left)
  BY <1>1
     DEF Inv, CompactorInv, Merged, Compacting, CompactionCounts, TypeOK, TablesOK,
         MemoryOK, FlusherOK, CompactorOK
<1>4. m \in cp.left /\ \A g \in cp.left : m <= g
  BY <1>1, <1>3, MinOfNumbers
<1> HIDE DEF m
<1>5. /\ DOMAIN sst' = DOMAIN sst \ {m} /\ DOMAIN sst' \in SUBSET DOMAIN sst
      /\ \A g \in DOMAIN sst' : sst'[g] = sst[g]
  BY <1>1 DEF Restrict
<1>6. NumberedBy(sst, Table)' /\ MergeInv' /\ FinishedTables' = FinishedTables
  BY <1>1, <1>3, <1>4, InputRemoved, Zenon
     DEF Inv, TypeOK, TablesOK, MemoryOK, CallsOK, FlusherOK, CompactorOK
<1>t. TypeOK'
  <2>1. FiniteNumbers(cp'.left)
    BY <1>2, <1>3, FewerNumbers
  <2> QED BY <1>1, <1>c, <1>6, <2>1, TypeFrame, Zenon
             DEF Inv, TypeOK, TablesOK, CompactorOK
<1>l. LockInv'
  BY <1>1, <1>c DEF Inv, LockInv
<1>p. PhaseInv'
  BY <1>1, <1>c DEF Inv, PhaseInv, Merged
<1>s. TableInv' /\ ReaderInv' /\ CompactorInv'
  <2>1. Flushing => fl.gen # m
    BY <1>3, <1>4 DEF Inv, TableInv
  <2>2. TableInv'
    BY <1>1, <1>c, <1>5, <2>1, Zenon DEF Inv, TableInv
  <2>3. Reflecting = cp.paths /\ Reflecting' = cp.paths
    BY <1>1 DEF Reflecting
  <2>4. ReaderInv'
    BY <1>1, <1>c, <1>3, <1>4, <1>5, <2>3, Zenon DEF Inv, ReaderInv
  <2>5. CompactorInv'
    <3>1. DOMAIN sst' \cap cp.paths = cp.left \ {m} /\ cp.left \ {m} \subseteq cp.paths
      BY <1>3, <1>5
    <3> QED BY <1>1, <1>2, <1>3, <3>1, Zenon
            DEF Inv, CompactorInv, Merged, Closing, Compacting, ReadersValue
  <2> QED BY <2>2, <2>4, <2>5
<1>m. MergeKeepsAll'
  BY <1>2 DEF MergeKeepsAll, Stages
<1>g. ReadStoreInv' /\ GetInv'
  BY <1>1, <1>c, StoresFrame DEF Inv
<1>d. OnlyWritesChange
  BY <1>c, <1>6 DEF OnlyWritesChange, DiskValue
<1> QED BY <1>c, <1>6, <1>t, <1>l, <1>p, <1>s, <1>m, <1>g, <1>d DEF Inv

(***************************************************************************)
(* It renames the result: the directory now is what it counted as.         *)
(***************************************************************************)
LEMMA CompactRenameStep ==
  ASSUME Inv, CompactRename
  PROVE  Inv' /\ OnlyWritesChange
<1> DEFINE r == Replacement(cp.paths)
<1>1. /\ cp.pc = "removing" /\ CompactFrame /\ cp.left = {}
      /\ sst' = With(sst, r, [stage |-> cdir.stage, cells |-> cdir.cells])
      /\ cdir' = NoCompaction /\ cp' = [cp EXCEPT !.pc = "renamed"]
      /\ UNCHANGED <<readers, dbLock, mgrLock>>
  BY DEF CompactRename
<1>c. /\ UNCHANGED <<wal, phase, toRemove, walNum, writeStore, readStore, generation,
                     readLocks, op, fl, mutations, opens>>
      /\ phase \in Running /\ phase \in Loaded /\ toRemove = {} /\ LogFiles' = LogFiles
      /\ (cdir.flag => cp.pc \in Merged) /\ (Flushing' <=> Flushing)
      /\ CurrentInv' /\ PendingInv' /\ SendInv' /\ LockstepInv' /\ ReplayInv' /\ FinishInv'
  BY <1>1, CompactCommon
<1>2. /\ cp'.pc = "renamed" /\ cp'.paths = cp.paths /\ cp'.left = cp.left
      /\ cp' = [pc |-> cp'.pc, paths |-> cp'.paths, left |-> cp'.left]
  BY <1>1 DEF Inv, TypeOK, CompactorOK
<1>3. /\ cdir.flag /\ cdir.paths = cp.paths /\ CompactionCounts
      /\ DOMAIN sst \cap cp.paths = {}
      /\ cp.paths \in SUBSET Nat /\ cp.paths \in SUBSET DOMAIN readers /\ cp.paths # {}
      /\ FiniteNumbers(cp.paths) /\ cdir.stage = "complete" /\ cdir.cells \in Memstore
  BY <1>1, Zenon
     DEF Inv, CompactorInv, Merged, Compacting, CompactionCounts, TypeOK, TablesOK,
         MergeInv
<1>4. r \in cp.paths
  BY <1>3, MinOfNumbers DEF Replacement
<1>5. FinishedTables = sst'
  <2>1. DOMAIN sst \ cdir.paths = DOMAIN sst
    BY <1>3
  <2>2. Restrict(sst, DOMAIN sst) = sst
    BY DEF Restrict, Inv, TypeOK, TablesOK, NumberedBy
  <2> QED BY <1>1, <1>3, <2>1, <2>2 DEF FinishedTables
<1>6. NumberedBy(sst', Table)
  BY <1>5, FinishedNumbered DEF Inv
<1>7. ~cdir'.flag /\ ~CompactionCounts' /\ FinishedTables' = sst'
  <2>1. ~cdir'.flag /\ ~CompactionCounts'
    BY <1>1 DEF NoCompaction, CompactionCounts
  <2>2. Restrict(sst', DOMAIN sst') = sst'
    BY <1>6 DEF Restrict, NumberedBy
  <2>3. toRemove' = {}
    BY <1>c
  <2> QED BY <2>1, <2>2, <2>3 DEF FinishedTables
<1> HIDE DEF r
<1>8. /\ DOMAIN sst' = DOMAIN sst \cup {r} /\ r \notin DOMAIN sst
      /\ sst'[r].stage = "complete" /\ sst'[r].cells = cdir.cells
      /\ \A g \in DOMAIN sst : sst'[g] = sst[g]
  BY <1>1, <1>3, <1>4 DEF With
<1>t. TypeOK'
  <2>1. /\ cdir' = [stage |-> cdir'.stage, cells |-> cdir'.cells, paths |-> cdir'.paths,
                    flag |-> cdir'.flag]
        /\ cdir'.stage \in Stages \cup {"none"} /\ cdir'.cells \in Memstore
        /\ cdir'.paths \subseteq Nat /\ FiniteNumbers(cdir'.paths) /\ cdir'.flag \in BOOLEAN
    BY <1>1, NoNumbers DEF NoCompaction, EmptyStore, Memstore, MemCell
  <2>2. NumberedBy(sst, Table)'
    BY <1>6
  <2> QED BY <1>1, <1>c, <2>1, <2>2, TypeFrame, Zenon
             DEF Inv, TypeOK, TablesOK, CompactorOK
<1>l. LockInv'
  BY <1>1, <1>c DEF Inv, LockInv
<1>p. PhaseInv'
  BY <1>c, <1>7 DEF Inv, PhaseInv, Running
<1>s. TableInv' /\ ReaderInv' /\ CompactorInv'
  <2>1. Flushing => fl.gen # r
    BY <1>3, <1>4 DEF Inv, TableInv
  <2>2. TableInv'
    <3>1. phase \in Loaded => r <= generation
      BY <1>3, <1>4 DEF Inv, TableInv
    <3> QED BY <1>1, <1>c, <1>8, <3>1 DEF Inv, TableInv
  <2>3. Reflecting = cp.paths /\ Reflecting' = cp.paths
    BY <1>1 DEF Reflecting
  <2>4. ReaderInv'
    BY <1>1, <1>c, <1>4, <1>8, <2>3 DEF Inv, ReaderInv
  <2>5. CompactorInv'
    <3>1. DOMAIN sst' \cap cp.paths = {r}
      BY <1>3, <1>4, <1>8
    <3>2. \A k \in Keys : sst'[r].cells[k] = ReadersValue(k)'
      BY <1>1, <1>8 DEF Inv, CompactorInv, ReadersValue
    <3> QED BY <1>1, <1>2, <1>3, <1>8, <3>1, <3>2
            DEF Inv, CompactorInv, Merged, Closing, Compacting, r
  <2> QED BY <2>2, <2>4, <2>5
<1>m. MergeInv' /\ MergeKeepsAll'
  BY <1>7 DEF MergeInv, MergeKeepsAll
<1>g. ReadStoreInv' /\ GetInv'
  BY <1>1, <1>c, StoresFrame DEF Inv
<1>d. OnlyWritesChange
  BY <1>c, <1>5, <1>7 DEF OnlyWritesChange, DiskValue
<1> QED BY <1>c, <1>t, <1>l, <1>p, <1>s, <1>m, <1>g, <1>d DEF Inv

(***************************************************************************)
(* The reader of the result says what the readers of the inputs said.      *)
(***************************************************************************)
LEMMA CompactReflectStep ==
  ASSUME Inv, CompactReflect
  PROVE  Inv' /\ OnlyWritesChange
<1> DEFINE r == Replacement(cp.paths)
<1>1. /\ cp.pc = "renamed" /\ CompactFrame
      /\ readers' = With(Restrict(readers, DOMAIN readers \ cp.paths), r, sst[r])
      /\ dbLock' = "free" /\ mgrLock' = "free"
      /\ cp' = CompactorAt("idle") /\ UNCHANGED <<sst, cdir>>
  BY DEF CompactReflect
<1>c. /\ UNCHANGED <<wal, phase, toRemove, walNum, writeStore, readStore, generation,
                     readLocks, op, fl, mutations, opens>>
      /\ phase \in Running /\ phase \in Loaded /\ toRemove = {} /\ LogFiles' = LogFiles
      /\ (cdir.flag => cp.pc \in Merged) /\ (Flushing' <=> Flushing)
      /\ CurrentInv' /\ PendingInv' /\ SendInv' /\ LockstepInv' /\ ReplayInv' /\ FinishInv'
  BY <1>1, CompactCommon
<1>2. /\ cp'.pc = "idle" /\ cp'.paths = {} /\ cp'.left = {}
      /\ cp' = [pc |-> cp'.pc, paths |-> cp'.paths, left |-> cp'.left]
  BY <1>1 DEF CompactorAt
<1>3. /\ cp.paths \in SUBSET Nat /\ cp.paths \in SUBSET DOMAIN readers /\ cp.paths # {}
      /\ \A g \in DOMAIN readers \ cp.paths : \A p \in cp.paths : p < g
      /\ DOMAIN sst \cap cp.paths = {r} /\ sst[r].stage = "complete"
      /\ \A k \in Keys : sst[r].cells[k] = ReadersValue(k)
  BY <1>1 DEF Inv, CompactorInv, Compacting, TypeOK, CompactorOK
<1>4. r \in cp.paths /\ r \in DOMAIN sst /\ r \in Nat
  BY <1>3
<1>5. ~cdir.flag /\ readLocks = {} /\ dbLock = "compactor" /\ mgrLock = "compactor"
  BY <1>1, <1>c DEF Inv, LockInv, Merged
<1> HIDE DEF r
<1>6. /\ DOMAIN readers' = (DOMAIN readers \ cp.paths) \cup {r} /\ readers'[r] = sst[r]
      /\ \A g \in DOMAIN readers \ cp.paths : readers'[g] = readers[g]
  BY <1>1, <1>4 DEF With, Restrict
<1>7. NumberedBy(readers', Table)
  <2>1. NumberedBy(Restrict(readers, DOMAIN readers \ cp.paths), Table)
    BY RestrictNumbered DEF Inv, TypeOK, MemoryOK
  <2>2. sst[r] \in Table
    BY <1>4 DEF Inv, TypeOK, TablesOK, NumberedBy
  <2> QED BY <1>1, <1>4, <2>1, <2>2, WithNumbered
<1>t. TypeOK'
  <2>1. NumberedBy(readers, Table)'
    BY <1>7
  <2> QED BY <1>1, <1>c, <1>2, <2>1, TypeFrame, Zenon
             DEF Inv, TypeOK, MemoryOK, CallsOK, CompactorOK
<1>l. LockInv'
  <2>1. \A c \in Clients : c # "free" /\ c # "compactor"
    BY ClientsAssumption
  <2> QED BY <1>1, <1>c, <1>2, <2>1 DEF Inv, LockInv
<1>p. PhaseInv'
  BY <1>1, <1>c, <1>5 DEF Inv, PhaseInv
<1>s. TableInv' /\ ReaderInv' /\ CompactorInv'
  <2>1. DOMAIN readers' \in SUBSET DOMAIN readers
    BY <1>3, <1>6
  <2>2. TableInv'
    BY <1>1, <1>c, <2>1, Zenon DEF Inv, TableInv
  <2>3. Reflecting = cp.paths /\ Reflecting' = {}
    BY <1>1, <1>2 DEF Reflecting
  <2>4. ReaderInv'
    BY <1>1, <1>c, <1>3, <1>6, <2>3, ZenonT(40), Zenon DEF Inv, ReaderInv
  <2>5. CompactorInv'
    BY <1>2 DEF CompactorInv, Compacting, Merged, Closing
  <2> QED BY <2>2, <2>4, <2>5
<1>m. MergeInv' /\ MergeKeepsAll'
  BY <1>1, <1>5 DEF MergeInv, MergeKeepsAll
<1>v. ASSUME NEW k \in Keys PROVE ValueOf(Newest(readers', k)) = ValueOf(Newest(readers, k))
  <2> DEFINE f == readers
             h == readers'
             P == cp.paths
  <2>1. NumberedBy(f, Table) /\ DOMAIN f \in SUBSET Nat /\ NumberedBy(h, Table)
    BY <1>7 DEF Inv, TypeOK, MemoryOK, NumberedBy
  <2>2. /\ P \in SUBSET Nat /\ P \in SUBSET DOMAIN f
        /\ \A n \in DOMAIN f \ P : r < n /\ \A p \in P : p < n
    BY <1>3
  <2>3. /\ DOMAIN h = (DOMAIN f \ P) \cup {r} /\ h[r].stage = "complete"
        /\ \A n \in DOMAIN f \ P : h[n] = f[n]
    BY <1>3, <1>6
  <2>4. h[r].cells[k] = ValueOf(Newest(Restrict(f, P), k))
    BY <1>3, <1>6 DEF ReadersValue
  <2> HIDE DEF f, h, P
  <2>5. ValueOf(h[r].cells[k]) = h[r].cells[k]
    BY <2>4 DEF ValueOf
  <2>6. DOMAIN Restrict(f, P) = P /\ \A g \in P : Restrict(f, P)[g] = f[g]
    BY RestrictedTo
  <2>7. ASSUME NEW g \in P \cap DOMAIN f, CellIn(f[g], k) # Absent,
               \A m \in P \cap DOMAIN f : g < m => CellIn(f[m], k) = Absent
        PROVE  ValueOf(h[r].cells[k]) = ValueOf(CellIn(f[g], k))
    <3>1. Newest(Restrict(f, P), k) = CellIn(Restrict(f, P)[g], k)
      <4>1. \A m \in DOMAIN Restrict(f, P) : m > g => CellIn(Restrict(f, P)[m], k) = Absent
        BY <2>2, <2>6, <2>7, Zenon
      <4>2. DOMAIN Restrict(f, P) \in SUBSET Nat /\ g \in DOMAIN Restrict(f, P)
        BY <2>2, <2>6
      <4>3. CellIn(Restrict(f, P)[g], k) # Absent
        BY <2>6, <2>7
      <4> QED BY <4>1, <4>2, <4>3, NewestAt
    <3> QED BY <2>4, <2>5, <2>6, <3>1
  <2>8. ASSUME \A g \in P \cap DOMAIN f : CellIn(f[g], k) = Absent
        PROVE  ValueOf(h[r].cells[k]) = Absent
    <3>1. \A g \in DOMAIN Restrict(f, P) : CellIn(Restrict(f, P)[g], k) = Absent
      BY <2>2, <2>6, <2>8, Zenon
    <3>2. Newest(Restrict(f, P), k) = Absent
      BY <3>1, NewestNone
    <3> QED BY <2>4, <3>2 DEF ValueOf
  <2>9. ValueOf(Newest(h, k)) = ValueOf(Newest(f, k))
    <3>1. \A g \in P \cap DOMAIN f :
            /\ CellIn(f[g], k) # Absent
            /\ \A m \in P \cap DOMAIN f : g < m => CellIn(f[m], k) = Absent
            => ValueOf(h[r].cells[k]) = ValueOf(CellIn(f[g], k))
      BY <2>7
    <3>2. (\A g \in P \cap DOMAIN f : CellIn(f[g], k) = Absent) =>
            ValueOf(h[r].cells[k]) = Absent
      BY <2>8
    <3> QED BY <1>4, <2>1, <2>2, <2>3, <3>1, <3>2, NewestKept
  <2> QED BY <2>9 DEF f, h
<1>g. ReadStoreInv' /\ GetInv'
  <2>1. SendPending' <=> SendPending
    BY <1>c DEF SendPending
  <2>2. ReadStoreInv'
    BY <1>c, <1>v, <2>1 DEF Inv, ReadStoreInv
  <2>3. GetInv'
    BY <1>c, <1>5 DEF Inv, GetInv, LockInv
  <2> QED BY <2>2, <2>3
<1>d. OnlyWritesChange
  <2>1. FinishedTables' = FinishedTables
    BY <1>1, <1>5, <1>c DEF FinishedTables, CompactionCounts
  <2> QED BY <1>c, <2>1 DEF OnlyWritesChange, DiskValue
<1> QED BY <1>c, <1>t, <1>l, <1>p, <1>s, <1>m, <1>g, <1>d DEF Inv

(***************************************************************************)
(* Every step of the compaction.                                           *)
(***************************************************************************)
LEMMA CompactSteps ==
  ASSUME Inv, CompactTick \/ CompactLockDB \/ CompactStep
  PROVE  Inv' /\ OnlyWritesChange
<1>1. CASE CompactClose
  <2>1. CASE CompactCloseStage("headers", "index")
    BY <2>1, CompactCloseStep DEF Closing
  <2>2. CASE CompactCloseStage("index", "data")
    BY <2>2, CompactCloseStep DEF Closing
  <2>3. CASE CompactCloseStage("data", "complete")
    BY <2>3, CompactCloseStep DEF Closing
  <2> QED BY <1>1, <2>1, <2>2, <2>3 DEF CompactClose
<1> QED BY <1>1, CompactTickStep, CompactMergeStep, CompactLockDBStep,
           CompactLockManagerStep, CompactRemoveStep, CompactRenameStep,
           CompactReflectStep DEF CompactStep
-----------------------------------------------------------------------------
(***************************************************************************)
(* Tables that an older table r agrees with may be left out.               *)
(***************************************************************************)
LEMMA Collapsed ==
  ASSUME NEW f, NumberedBy(f, Table), NEW T \in SUBSET Nat, NEW r \in DOMAIN f \ T,
         f[r].stage = "complete", NEW k \in Keys,
         \A g \in DOMAIN f \ (T \cup {r}) : r < g /\ \A p \in T : p < g,
         \A g \in T \cap DOMAIN f :
           /\ CellIn(f[g], k) # Absent
           /\ \A m \in T \cap DOMAIN f : g < m => CellIn(f[m], k) = Absent
           => f[r].cells[k] = ValueOf(CellIn(f[g], k))
  PROVE  ValueOf(Newest(Restrict(f, DOMAIN f \ T), k)) = ValueOf(Newest(f, k))
<1> DEFINE h == Restrict(f, DOMAIN f \ T)
           P == T \cup {r}
<1>1. NumberedBy(h, Table) /\ r \in Nat /\ P \in SUBSET Nat
  <2>1. NumberedBy(h, Table)
    BY RestrictNumbered
  <2>2. DOMAIN f \in SUBSET Nat
    BY DEF NumberedBy
  <2> QED BY <2>1, <2>2, Zenon
<1>2. /\ DOMAIN h = (DOMAIN f \ P) \cup {r} /\ h[r] = f[r]
      /\ \A n \in DOMAIN f \ P : h[n] = f[n] /\ r < n /\ \A p \in P : p < n
  BY DEF Restrict
<1>3. CellIn(f[r], k) = f[r].cells[k]
  BY DEF CellIn
<1> HIDE DEF h
<1>4. ASSUME NEW g \in P \cap DOMAIN f, CellIn(f[g], k) # Absent,
             \A m \in P \cap DOMAIN f : g < m => CellIn(f[m], k) = Absent
      PROVE  ValueOf(h[r].cells[k]) = ValueOf(CellIn(f[g], k))
  <2>1. CASE g = r
    BY <1>2, <1>3, <2>1
  <2>2. CASE g # r
    <3>1. f[r].cells[k] = ValueOf(CellIn(f[g], k))
      BY <1>4, <2>2
    <3> QED BY <1>2, <3>1 DEF ValueOf
  <2> QED BY <2>1, <2>2
<1>5. ASSUME \A g \in P \cap DOMAIN f : CellIn(f[g], k) = Absent
      PROVE  ValueOf(h[r].cells[k]) = Absent
  BY <1>2, <1>3, <1>5, Zenon DEF ValueOf
<1> HIDE DEF P
<1>6. ValueOf(Newest(h, k)) = ValueOf(Newest(f, k))
  <2>1. h[r].stage = "complete"
    BY <1>2
  <2> QED BY <1>1, <1>2, <1>4, <1>5, NewestKept
<1> QED BY <1>6 DEF h

(***************************************************************************)
(* The next process may find the inputs a recovery did not come to remove: *)
(* the result hides them.                                                  *)
(***************************************************************************)
LEMMA RemovedAreHidden ==
  ASSUME Inv, phase # "removing", ~CompactionCounts, NEW k \in Keys
  PROVE  ValueOf(Newest(FinishedTables, k)) = ValueOf(Newest(sst, k))
<1>1. NumberedBy(sst, Table) /\ toRemove \in SUBSET Nat
  BY Zenon DEF Inv, TypeOK, TablesOK, CompactorOK
<1>2. CASE toRemove = {}
  BY <1>1, <1>2, FinishedPlain
<1>3. CASE toRemove # {}
  <2>1. PICK r \in DOMAIN sst \ toRemove :
          /\ sst[r].stage = "complete"
          /\ \A g \in DOMAIN sst \ (toRemove \cup {r}) : r < g /\ \A p \in toRemove : p < g
          /\ Hides(toRemove, sst[r].cells)
    BY <1>3 DEF Inv, FinishInv, Whole
  <2>2. \A g \in toRemove \cap DOMAIN sst :
          /\ CellIn(sst[g], k) # Absent
          /\ \A m \in toRemove \cap DOMAIN sst : g < m => CellIn(sst[m], k) = Absent
          => sst[r].cells[k] = ValueOf(CellIn(sst[g], k))
    BY <2>1 DEF Hides, IsNewest
  <2>3. FinishedTables = Restrict(sst, DOMAIN sst \ toRemove)
    BY DEF FinishedTables
  <2> QED BY <1>1, <2>1, <2>2, <2>3, Collapsed, Zenon
<1> QED BY <1>2, <1>3

(***************************************************************************)
(* What the steps of repairCompactions have in common.                     *)
(***************************************************************************)
LEMMA RepairCommon ==
  ASSUME Inv, phase \in {"repair", "replace", "finish", "removing"}, RepairFrame,
         phase' \in {"replace", "finish", "removing", "load"}
  PROVE  /\ UNCHANGED <<wal, walNum, writeStore, readStore, generation, readers, fl,
                        dbLock, cp, opens, readLocks, mgrLock, op, mutations>>
         /\ fl.pc = "off" /\ cp.pc = "off" /\ ~Flushing /\ ~Flushing'
         /\ readers = <<>> /\ generation = 0 /\ LogFiles' = LogFiles
         /\ (CompactionCounts <=> cdir.flag) /\ (CompactionCounts' <=> cdir'.flag)
         /\ LockInv' /\ ReaderInv' /\ CompactorInv' /\ MergeKeepsAll'
         /\ CurrentInv' /\ PendingInv' /\ SendInv' /\ LockstepInv' /\ ReplayInv' /\ GetInv'
         /\ ReadStoreInv'
<1>1. UNCHANGED <<wal, walNum, writeStore, readStore, generation, readers, fl,
                  dbLock, cp, opens, readLocks, mgrLock, op, mutations>>
  BY DEF RepairFrame, RecoveryFrame, LifeFrame, stores
<1>2. /\ \A c \in Clients : op[c].pc = "idle"
      /\ readLocks = {} /\ mgrLock = "free" /\ fl.pc = "off" /\ cp.pc = "off"
      /\ ~Flushing /\ ~WalPending /\ ~SendPending
  BY NobodyElse DEF Running
<1>3. ~Flushing' /\ readers = <<>> /\ generation = 0 /\ LogFiles' = LogFiles
  BY <1>1, <1>2 DEF Flushing, Inv, PhaseInv, Loaded, LogFiles
<1>4. (CompactionCounts <=> cdir.flag) /\ (CompactionCounts' <=> cdir'.flag)
  BY <1>1, <1>2 DEF CompactionCounts
<1>5. LockInv'
  BY <1>1 DEF Inv, LockInv
<1>6. ReaderInv'
  BY DEF ReaderInv, Loaded
<1>7. CompactorInv' /\ MergeKeepsAll'
  BY <1>1, <1>2, NoCompactor
<1>8. CurrentInv' /\ PendingInv' /\ SendInv' /\ LockstepInv' /\ ReplayInv' /\ GetInv'
  BY <1>1, <1>2, QuietLog
<1>9. ReadStoreInv'
  BY <1>1 DEF Inv, ReadStoreInv
<1> QED BY <1>1, <1>2, <1>3, <1>4, <1>5, <1>6, <1>7, <1>8, <1>9

(***************************************************************************)
(* A compaction directory without the flag counts for nothing.             *)
(***************************************************************************)
LEMMA RepairDeleteStep ==
  ASSUME Inv, RepairDelete
  PROVE  Inv' /\ OnlyWritesChange
<1>1. /\ phase = "repair" /\ ~cdir.flag /\ cdir' = NoCompaction /\ phase' = "load"
      /\ UNCHANGED <<sst, toRemove>> /\ RepairFrame
  BY DEF RepairDelete
<1>c. /\ UNCHANGED <<wal, walNum, writeStore, readStore, generation, readers, fl,
                     dbLock, cp, opens, readLocks, mgrLock, op, mutations>>
      /\ fl.pc = "off" /\ cp.pc = "off" /\ ~Flushing /\ ~Flushing'
      /\ readers = <<>> /\ generation = 0 /\ LogFiles' = LogFiles
      /\ (CompactionCounts <=> cdir.flag) /\ (CompactionCounts' <=> cdir'.flag)
      /\ LockInv' /\ ReaderInv' /\ CompactorInv' /\ MergeKeepsAll'
      /\ CurrentInv' /\ PendingInv' /\ SendInv' /\ LockstepInv' /\ ReplayInv' /\ GetInv'
      /\ ReadStoreInv'
  BY <1>1, RepairCommon
<1>2. toRemove = {} /\ ~cdir'.flag
  BY <1>1 DEF Inv, PhaseInv, NoCompaction
<1>t. TypeOK'
  <2>1. /\ cdir' = [stage |-> cdir'.stage, cells |-> cdir'.cells, paths |-> cdir'.paths,
                    flag |-> cdir'.flag]
        /\ cdir'.stage \in Stages \cup {"none"} /\ cdir'.cells \in Memstore
        /\ cdir'.paths \subseteq Nat /\ FiniteNumbers(cdir'.paths) /\ cdir'.flag \in BOOLEAN
    BY <1>1, NoNumbers DEF NoCompaction, EmptyStore, Memstore, MemCell
  <2> QED BY <1>1, <1>c, <2>1, TypeFrame, Zenon
             DEF Inv, TypeOK, TablesOK, MemoryOK, FlusherOK, Phases
<1>p. PhaseInv'
  BY <1>1, <1>c, <1>2 DEF PhaseInv
<1>s. TableInv'
  BY <1>1, <1>c, <1>2 DEF Inv, TableInv, Loaded
<1>m. MergeInv' /\ FinishInv'
  BY <1>1, <1>2 DEF MergeInv, FinishInv
<1>d. OnlyWritesChange
  BY <1>1, <1>2, <1>c DEF OnlyWritesChange, DiskValue, FinishedTables
<1> QED BY <1>c, <1>t, <1>p, <1>s, <1>m, <1>d DEF Inv

(***************************************************************************)
(* The oldest input makes room for the result.                             *)
(***************************************************************************)
LEMMA RepairReplaceStep ==
  ASSUME Inv, RepairReplace
  PROVE  Inv' /\ OnlyWritesChange
<1> DEFINE r == Replacement(cdir.paths)
<1>1. /\ phase = "repair" /\ cdir.flag /\ sst' = Restrict(sst, DOMAIN sst \ {r})
      /\ phase' = "replace" /\ UNCHANGED <<cdir, toRemove>> /\ RepairFrame
  BY DEF RepairReplace
<1>c. /\ UNCHANGED <<wal, walNum, writeStore, readStore, generation, readers, fl,
                     dbLock, cp, opens, readLocks, mgrLock, op, mutations>>
      /\ fl.pc = "off" /\ cp.pc = "off" /\ ~Flushing /\ ~Flushing'
      /\ readers = <<>> /\ generation = 0 /\ LogFiles' = LogFiles
      /\ (CompactionCounts <=> cdir.flag) /\ (CompactionCounts' <=> cdir'.flag)
      /\ LockInv' /\ ReaderInv' /\ CompactorInv' /\ MergeKeepsAll'
      /\ CurrentInv' /\ PendingInv' /\ SendInv' /\ LockstepInv' /\ ReplayInv' /\ GetInv'
      /\ ReadStoreInv'
  BY <1>1, RepairCommon
<1>2. toRemove = {} /\ cdir.paths # {} /\ cdir.paths \in SUBSET Nat /\ FiniteNumbers(cdir.paths)
  BY <1>1 DEF Inv, PhaseInv, MergeInv, TypeOK, TablesOK, WalOK
<1>3. r \in cdir.paths /\ \A g \in cdir.paths : r <= g
  BY <1>2, MinOfNumbers DEF Replacement
<1>4. DOMAIN sst' \in SUBSET DOMAIN sst /\ \A g \in DOMAIN sst' : sst'[g] = sst[g]
  BY <1>1 DEF Restrict
<1> HIDE DEF r
<1>5. NumberedBy(sst, Table)' /\ MergeInv' /\ FinishedTables' = FinishedTables
  BY <1>1, <1>c, <1>3, InputRemoved, Zenon DEF Inv, TypeOK, TablesOK
<1>t. TypeOK'
  BY <1>1, <1>c, <1>5, Zenon, TypeFrame DEF Inv, TypeOK, TablesOK, MemoryOK, Phases
<1>p. PhaseInv'
  BY <1>1, <1>c, <1>2 DEF PhaseInv
<1>s. TableInv'
  <2>1. toRemove \ Whole = {}
    BY <1>2
  <2> QED BY <1>1, <1>c, <1>4, <2>1, Zenon DEF Inv, TableInv, Loaded
<1>m. FinishInv'
  BY <1>1, <1>2 DEF FinishInv
<1>d. OnlyWritesChange
  BY <1>c, <1>5 DEF OnlyWritesChange, DiskValue
<1> QED BY <1>c, <1>5, <1>t, <1>p, <1>s, <1>m, <1>d DEF Inv

(***************************************************************************)
(* The result takes its place, and hides the inputs that are still there.  *)
(***************************************************************************)
LEMMA RepairRenameStep ==
  ASSUME Inv, RepairRename
  PROVE  Inv' /\ OnlyWritesChange
<1>0. PICK r : r = Replacement(cdir.paths)
  OBVIOUS
<1> DEFINE T == cdir.paths \ {r}
<1>1. /\ phase = "replace" /\ phase' = "finish" /\ RepairFrame
      /\ sst' = With(sst, r, [stage |-> cdir.stage, cells |-> cdir.cells])
      /\ cdir' = NoCompaction /\ toRemove' = T
  BY <1>0 DEF RepairRename
<1>c. /\ UNCHANGED <<wal, walNum, writeStore, readStore, generation, readers, fl,
                     dbLock, cp, opens, readLocks, mgrLock, op, mutations>>
      /\ fl.pc = "off" /\ cp.pc = "off" /\ ~Flushing /\ ~Flushing'
      /\ readers = <<>> /\ generation = 0 /\ LogFiles' = LogFiles
      /\ (CompactionCounts <=> cdir.flag) /\ (CompactionCounts' <=> cdir'.flag)
      /\ LockInv' /\ ReaderInv' /\ CompactorInv' /\ MergeKeepsAll'
      /\ CurrentInv' /\ PendingInv' /\ SendInv' /\ LockstepInv' /\ ReplayInv' /\ GetInv'
      /\ ReadStoreInv'
  BY <1>1, RepairCommon
<1>2. cdir.flag /\ CompactionCounts /\ ~cdir'.flag
  BY <1>1, <1>c DEF Inv, PhaseInv, NoCompaction
<1>3. /\ cdir.paths # {} /\ cdir.paths \in SUBSET Nat /\ FiniteNumbers(cdir.paths)
      /\ cdir.cells \in Memstore
      /\ cdir.stage = "complete" /\ Hides(cdir.paths, cdir.cells)
      /\ \A g \in DOMAIN sst \ cdir.paths : \A p \in cdir.paths : p < g
  BY <1>2 DEF Inv, MergeInv, TypeOK, TablesOK
<1>4. r \in cdir.paths /\ \A g \in cdir.paths : r <= g
  BY <1>0, <1>3, MinOfNumbers DEF Replacement
<1>5. /\ DOMAIN sst' = DOMAIN sst \cup {r} /\ sst'[r].stage = "complete"
      /\ sst'[r].cells = cdir.cells /\ \A g \in DOMAIN sst : g # r => sst'[g] = sst[g]
  BY <1>1, <1>3 DEF With
<1>6. NumberedBy(sst', Table)
  <2>1. [stage |-> cdir.stage, cells |-> cdir.cells] \in Table /\ r \in Nat
    BY <1>3, <1>4 DEF Table, Stages
  <2> QED BY <1>1, <2>1, WithNumbered DEF Inv, TypeOK, TablesOK
<1>7. /\ \A p \in T : r < p
      /\ \A g \in DOMAIN sst' \ (T \cup {r}) : r < g /\ \A p \in T : p < g
  <2>1. DOMAIN sst' \ (T \cup {r}) \in SUBSET (DOMAIN sst \ cdir.paths)
    BY <1>5
  <2>2. T \in SUBSET cdir.paths /\ r \notin T
    OBVIOUS
  <2> QED BY <1>3, <1>4, <2>1
<1>8. ASSUME NEW k \in Keys, NEW g \in T \cap DOMAIN sst', CellIn(sst'[g], k) # Absent,
             \A m \in T \cap DOMAIN sst' : g < m => CellIn(sst'[m], k) = Absent
      PROVE  cdir.cells[k] = ValueOf(CellIn(sst'[g], k))
  <2>1. g \in cdir.paths \cap DOMAIN sst /\ sst'[g] = sst[g] /\ r < g /\ r \in Nat /\ g \in Nat
    BY <1>3, <1>4, <1>5
  <2>2. ASSUME NEW m \in cdir.paths \cap DOMAIN sst, g < m PROVE CellIn(sst[m], k) = Absent
    <3>1. m \in Nat
      BY <1>3
    <3>2. m # r
      BY <2>1, <2>2
    <3> QED BY <1>5, <1>8, <2>2, <3>2
  <2>3. IsNewest(cdir.paths, g, k)
    BY <1>8, <2>1, <2>2 DEF IsNewest
  <2> QED BY <1>3, <2>1, <2>3 DEF Hides
<1>t. TypeOK'
  <2>1. /\ cdir' = [stage |-> cdir'.stage, cells |-> cdir'.cells, paths |-> cdir'.paths,
                    flag |-> cdir'.flag]
        /\ cdir'.stage \in Stages \cup {"none"} /\ cdir'.cells \in Memstore
        /\ cdir'.paths \subseteq Nat /\ FiniteNumbers(cdir'.paths) /\ cdir'.flag \in BOOLEAN
    BY <1>1, NoNumbers DEF NoCompaction, EmptyStore, Memstore, MemCell
  <2>2. NumberedBy(sst, Table)'
    BY <1>6
  <2>3. toRemove' \subseteq Nat /\ FiniteNumbers(toRemove')
    BY <1>1, <1>3, FewerNumbers
  <2> QED BY <1>1, <1>c, <2>1, <2>2, <2>3, TypeFrame, Zenon
             DEF Inv, TypeOK, TablesOK, MemoryOK, CompactorOK, Phases
<1>p. PhaseInv'
  BY <1>1, <1>c, <1>2 DEF PhaseInv
<1>s. TableInv'
  <2>1. toRemove \ Whole = {}
    BY <1>1 DEF Whole
  <2> QED BY <1>1, <1>c, <1>5, <2>1 DEF Inv, TableInv, Loaded
<1>m. MergeInv' /\ FinishInv'
  <2>1. MergeInv'
    BY <1>2 DEF MergeInv
  <2>2. Hides(toRemove, sst[r].cells)'
    <3> SUFFICES ASSUME NEW k \in Keys, NEW g \in T, IsNewest(toRemove, g, k)'
                 PROVE  sst'[r].cells[k] = ValueOf(CellIn(sst'[g], k))
      BY <1>1 DEF Hides
    <3>1. /\ g \in T \cap DOMAIN sst' /\ CellIn(sst'[g], k) # Absent
          /\ \A n \in T \cap DOMAIN sst' : g < n => CellIn(sst'[n], k) = Absent
      BY <1>1 DEF IsNewest
    <3> QED BY <1>5, <1>8, <3>1
  <2>3. r \in DOMAIN sst' \ toRemove' /\ Whole' = toRemove'
    BY <1>1, <1>5 DEF Whole
  <2>4. FinishInv'
    BY <1>1, <1>5, <1>7, <2>2, <2>3, Zenon DEF FinishInv
  <2> QED BY <2>1, <2>4
<1>d. OnlyWritesChange
  <2> SUFFICES ASSUME NEW k \in Keys PROVE UNCHANGED DiskValue(k)
    BY DEF OnlyWritesChange
  <2>1. FinishedTables' = Restrict(sst', DOMAIN sst' \ T)
    BY <1>1, <1>c, <1>2 DEF FinishedTables
  <2>2. FinishedTables = Restrict(sst', DOMAIN sst' \ T)
    <3>1. FinishedTables = With(Restrict(sst, DOMAIN sst \ cdir.paths), r, sst'[r])
      BY <1>0, <1>1, <1>2 DEF FinishedTables, With
    <3>2. DOMAIN sst' \ T = (DOMAIN sst \ cdir.paths) \cup {r}
      BY <1>5
    <3>3. DOMAIN FinishedTables = (DOMAIN sst \ cdir.paths) \cup {r}
      BY <3>1 DEF With, Restrict
    <3>4. \A g \in (DOMAIN sst \ cdir.paths) \cup {r} : FinishedTables[g] = sst'[g]
      BY <1>5, <3>1 DEF With, Restrict
    <3>5. FinishedTables = [g \in DOMAIN FinishedTables |-> FinishedTables[g]]
      BY <3>1 DEF With
    <3> HIDE DEF T
    <3>6. FinishedTables = [g \in DOMAIN sst' \ T |-> sst'[g]]
      BY <3>2, <3>3, <3>4, <3>5, Zenon
    <3> QED BY <3>6 DEF Restrict
  <2> QED BY <1>c, <2>1, <2>2 DEF DiskValue, Over
<1> QED BY <1>c, <1>t, <1>p, <1>s, <1>m, <1>d DEF Inv

(***************************************************************************)
(* The result hides the inputs that are left, also without the oldest.     *)
(***************************************************************************)
LEMMA OthersHidden ==
  ASSUME Inv, toRemove # {}
  PROVE  LET T == toRemove \ {Min(toRemove)}
         IN  /\ Min(toRemove) \in toRemove /\ T \in SUBSET Nat
             /\ \E r \in DOMAIN sst \ toRemove :
                  /\ sst[r].stage = "complete" /\ \A p \in toRemove : r < p
                  /\ \A g \in DOMAIN sst \ (toRemove \cup {r}) :
                       r < g /\ \A p \in toRemove : p < g
                  /\ Hides(T, sst[r].cells)
<1> DEFINE m == Min(toRemove)
           T == toRemove \ {m}
<1>1. toRemove \in SUBSET Nat /\ FiniteNumbers(toRemove)
  BY DEF Inv, TypeOK, CompactorOK
<1>2. m \in toRemove /\ \A g \in toRemove : m <= g
  BY <1>1, MinOfNumbers
<1>3. PICK r \in DOMAIN sst \ toRemove :
        /\ sst[r].stage = "complete" /\ \A p \in toRemove : r < p
        /\ \A g \in DOMAIN sst \ (toRemove \cup {r}) : r < g /\ \A p \in toRemove : p < g
        /\ Hides(Whole, sst[r].cells)
  BY DEF Inv, FinishInv
<1>4. Hides(T, sst[r].cells)
  <2>1. CASE phase = "removing"
    BY <1>3, <2>1 DEF Whole
  <2>2. CASE phase # "removing"
    <3>1. Whole = toRemove
      BY <2>2 DEF Whole
    <3> HIDE DEF m
    <3>2. ASSUME NEW k \in Keys, NEW g \in T, IsNewest(T, g, k)
          PROVE  IsNewest(toRemove, g, k)
      <4>1. /\ g \in T \cap DOMAIN sst /\ CellIn(sst[g], k) # Absent
            /\ \A n \in T \cap DOMAIN sst : g < n => CellIn(sst[n], k) = Absent
        BY <3>2 DEF IsNewest
      <4>2. \A n \in toRemove \cap DOMAIN sst : g < n => n \in T
        BY <1>1, <1>2
      <4> QED BY <4>1, <4>2 DEF IsNewest
    <3> QED BY <1>3, <3>1, <3>2, Zenon DEF Hides
  <2> QED BY <2>1, <2>2
<1> QED BY <1>1, <1>2, <1>3, <1>4

(***************************************************************************)
(* What hides tables hides them as long as they do not change.             *)
(***************************************************************************)
LEMMA HidesStill ==
  ASSUME NEW r, NEW S, Hides(S, sst[r].cells), Whole' = S, sst'[r] = sst[r],
         S \cap DOMAIN sst' = S \cap DOMAIN sst,
         \A g \in S \cap DOMAIN sst : sst'[g] = sst[g]
  PROVE  Hides(Whole, sst[r].cells)'
<1> SUFFICES ASSUME NEW k \in Keys, NEW g \in S, IsNewest(Whole, g, k)'
             PROVE  sst'[r].cells[k] = ValueOf(CellIn(sst'[g], k))
  BY Zenon DEF Hides
<1>1. IsNewest(S, g, k) /\ sst'[g] = sst[g]
  BY DEF IsNewest
<1> QED BY <1>1 DEF Hides

(***************************************************************************)
(* The oldest of the other inputs loses some of its files.                 *)
(***************************************************************************)
LEMMA RepairUnlinkStep ==
  ASSUME Inv, RepairUnlink
  PROVE  Inv' /\ OnlyWritesChange
<1> DEFINE m == Min(toRemove)
           T == toRemove \ {m}
<1>1. /\ phase \in {"finish", "removing"} /\ phase' = "removing" /\ toRemove # {}
      /\ m \in DOMAIN sst /\ UNCHANGED <<cdir, toRemove>> /\ RepairFrame
  BY DEF RepairUnlink
<1>c. /\ UNCHANGED <<wal, walNum, writeStore, readStore, generation, readers, fl,
                     dbLock, cp, opens, readLocks, mgrLock, op, mutations>>
      /\ fl.pc = "off" /\ cp.pc = "off" /\ ~Flushing /\ ~Flushing'
      /\ readers = <<>> /\ generation = 0 /\ LogFiles' = LogFiles
      /\ (CompactionCounts <=> cdir.flag) /\ (CompactionCounts' <=> cdir'.flag)
      /\ LockInv' /\ ReaderInv' /\ CompactorInv' /\ MergeKeepsAll'
      /\ CurrentInv' /\ PendingInv' /\ SendInv' /\ LockstepInv' /\ ReplayInv' /\ GetInv'
      /\ ReadStoreInv'
  BY <1>1, RepairCommon
<1>2. ~cdir.flag /\ ~cdir'.flag
  BY <1>1, <1>c, Zenon DEF Inv, PhaseInv, Merged
<1>3. PICK s \in Remains(sst[m].stage) : sst' = [sst EXCEPT ![m].stage = s]
  BY DEF RepairUnlink
<1>4. s \in Stages
  BY <1>3 DEF Remains, Stages
<1>5. m \in toRemove /\ T \in SUBSET Nat
  BY <1>1, OthersHidden
<1>6. PICK r \in DOMAIN sst \ toRemove :
        /\ sst[r].stage = "complete" /\ \A p \in toRemove : r < p
        /\ \A g \in DOMAIN sst \ (toRemove \cup {r}) : r < g /\ \A p \in toRemove : p < g
        /\ Hides(T, sst[r].cells)
  BY <1>1, OthersHidden
<1>7. NumberedBy(sst, Table)
  BY DEF Inv, TypeOK, TablesOK
<1>w. Whole' = T
  BY <1>1 DEF Whole
<1> HIDE DEF m
<1>8. /\ DOMAIN sst' = DOMAIN sst /\ sst' = [g \in DOMAIN sst' |-> sst'[g]]
      /\ \A g \in DOMAIN sst : g # m => sst'[g] = sst[g]
  BY <1>3, <1>7 DEF NumberedBy
<1>9. sst'[m] \in Table
  <2>1. sst[m] \in [stage : Stages, cells : Memstore]
    BY <1>1, <1>7 DEF NumberedBy, Table
  <2>2. sst'[m] = [sst[m] EXCEPT !.stage = s]
    BY <1>1, <1>3
  <2> QED BY <1>4, <2>1, <2>2 DEF Table
<1>t. TypeOK'
  <2>1. NumberedBy(sst, Table)'
    BY <1>7, <1>8, <1>9 DEF NumberedBy
  <2> QED BY <1>1, <1>c, <2>1, TypeFrame, Zenon
             DEF Inv, TypeOK, TablesOK, MemoryOK, Phases
<1>p. PhaseInv'
  BY <1>1, <1>c, <1>2 DEF Inv, PhaseInv
<1>s. TableInv'
  <2> SUFFICES ASSUME NEW g \in DOMAIN sst', g \notin toRemove' \ Whole'
               PROVE  sst'[g].stage \in {"headers", "complete"}
    BY <1>1, <1>c DEF TableInv, Loaded
  <2>1. g # m /\ g \in DOMAIN sst
    BY <1>1, <1>5, <1>8, <1>w
  <2>2. g \notin toRemove \ Whole
    BY <2>1 DEF Whole, m
  <2> QED BY <1>c, <1>8, <2>1, <2>2 DEF Inv, TableInv
<1>m. MergeInv' /\ FinishInv'
  <2>1. MergeInv'
    BY <1>2 DEF MergeInv
  <2>2. r \in DOMAIN sst' \ toRemove' /\ sst'[r] = sst[r]
    BY <1>1, <1>5, <1>6, <1>8
  <2>3. Hides(Whole, sst[r].cells)'
    <3>1. PICK S : S = T
      OBVIOUS
    <3>2. \A g \in S \cap DOMAIN sst : sst'[g] = sst[g]
      BY <1>8, <3>1
    <3> HIDE DEF T
    <3>3. Hides(S, sst[r].cells) /\ Whole' = S
      BY <1>6, <1>w, <3>1
    <3> QED BY <1>8, <2>2, <3>2, <3>3, HidesStill, Zenon
  <2>4. FinishInv'
    BY <1>1, <1>6, <1>8, <1>w, <2>2, <2>3, Zenon DEF FinishInv
  <2> QED BY <2>1, <2>4
<1>d. OnlyWritesChange
  <2>1. Restrict(sst', DOMAIN sst' \ toRemove') = Restrict(sst, DOMAIN sst \ toRemove)
    BY <1>1, <1>5, <1>8 DEF Restrict
  <2> QED BY <1>c, <1>2, <2>1 DEF OnlyWritesChange, DiskValue, FinishedTables
<1> QED BY <1>c, <1>t, <1>p, <1>s, <1>m, <1>d, Zenon DEF Inv

(***************************************************************************)
(* The other inputs go, oldest first.                                      *)
(***************************************************************************)
LEMMA RepairRemoveStep ==
  ASSUME Inv, RepairRemove
  PROVE  Inv' /\ OnlyWritesChange
<1> DEFINE m == Min(toRemove)
           T == toRemove \ {m}
<1>1. /\ phase \in {"finish", "removing"} /\ phase' = "finish" /\ toRemove # {}
      /\ sst' = Restrict(sst, DOMAIN sst \ {m}) /\ toRemove' = T /\ cdir' = cdir
      /\ RepairFrame
  BY DEF RepairRemove
<1>c. /\ UNCHANGED <<wal, walNum, writeStore, readStore, generation, readers, fl,
                     dbLock, cp, opens, readLocks, mgrLock, op, mutations>>
      /\ fl.pc = "off" /\ cp.pc = "off" /\ ~Flushing /\ ~Flushing'
      /\ readers = <<>> /\ generation = 0 /\ LogFiles' = LogFiles
      /\ (CompactionCounts <=> cdir.flag) /\ (CompactionCounts' <=> cdir'.flag)
      /\ LockInv' /\ ReaderInv' /\ CompactorInv' /\ MergeKeepsAll'
      /\ CurrentInv' /\ PendingInv' /\ SendInv' /\ LockstepInv' /\ ReplayInv' /\ GetInv'
      /\ ReadStoreInv'
  BY <1>1, RepairCommon
<1>2. ~cdir.flag /\ ~cdir'.flag /\ FiniteNumbers(toRemove)
  BY <1>1, <1>c, Zenon DEF Inv, PhaseInv, Merged, TypeOK, CompactorOK
<1>3. m \in toRemove /\ T \in SUBSET Nat
  BY <1>1, OthersHidden
<1>4. PICK r \in DOMAIN sst \ toRemove :
        /\ sst[r].stage = "complete" /\ \A p \in toRemove : r < p
        /\ \A g \in DOMAIN sst \ (toRemove \cup {r}) : r < g /\ \A p \in toRemove : p < g
        /\ Hides(T, sst[r].cells)
  BY <1>1, OthersHidden
<1>w. Whole' = T /\ toRemove \ Whole \in SUBSET {m}
  BY <1>1 DEF Whole
<1> HIDE DEF m
<1>5. /\ DOMAIN sst' = DOMAIN sst \ {m} /\ DOMAIN sst' \in SUBSET DOMAIN sst
      /\ \A g \in DOMAIN sst' : sst'[g] = sst[g]
  BY <1>1 DEF Restrict
<1>6. NumberedBy(sst', Table)
  BY <1>1, RestrictNumbered, Zenon DEF Inv, TypeOK, TablesOK
<1>7. /\ r \in DOMAIN sst' \ T /\ sst'[r] = sst[r] /\ \A p \in T : r < p
      /\ \A g \in DOMAIN sst' \ (T \cup {r}) : r < g /\ \A p \in T : p < g
  BY <1>3, <1>4, <1>5
<1>t. TypeOK'
  <2>1. NumberedBy(sst, Table)'
    BY <1>6
  <2>2. toRemove' \subseteq Nat /\ FiniteNumbers(toRemove')
    BY <1>1, <1>2, <1>3, FewerNumbers, Zenon
  <2> QED BY <1>1, <1>c, <2>1, <2>2, TypeFrame, Zenon
             DEF Inv, TypeOK, TablesOK, MemoryOK, CompactorOK, Phases
<1>p. PhaseInv'
  BY <1>1, <1>c, <1>2 DEF Inv, PhaseInv
<1>s. TableInv'
  <2> SUFFICES ASSUME NEW g \in DOMAIN sst'
               PROVE  sst'[g].stage \in {"headers", "complete"}
    BY <1>1, <1>c DEF TableInv, Loaded
  <2>1. g # m /\ g \in DOMAIN sst
    BY <1>5
  <2> QED BY <1>c, <1>5, <1>w, <2>1 DEF Inv, TableInv
<1>m. MergeInv' /\ FinishInv'
  <2>1. MergeInv'
    BY <1>2 DEF MergeInv
  <2>2. Hides(Whole, sst[r].cells)'
    <3>1. PICK S : S = T
      OBVIOUS
    <3>2. S \cap DOMAIN sst' = S \cap DOMAIN sst /\ \A g \in S \cap DOMAIN sst : sst'[g] = sst[g]
      BY <1>5, <3>1
    <3> HIDE DEF T
    <3>3. Hides(S, sst[r].cells) /\ Whole' = S
      BY <1>4, <1>w, <3>1
    <3> QED BY <1>7, <3>2, <3>3, HidesStill, Zenon
  <2>3. FinishInv'
    BY <1>1, <1>4, <1>7, <1>w, <2>2, Zenon DEF FinishInv
  <2> QED BY <2>1, <2>3
<1>d. OnlyWritesChange
  <2>1. Restrict(sst', DOMAIN sst' \ toRemove') = Restrict(sst, DOMAIN sst \ toRemove)
    <3>1. DOMAIN sst' \ toRemove' = DOMAIN sst \ toRemove
      BY <1>1, <1>3, <1>5
    <3> QED BY <1>5, <3>1 DEF Restrict
  <2> QED BY <1>c, <1>2, <2>1 DEF OnlyWritesChange, DiskValue, FinishedTables
<1> QED BY <1>c, <1>t, <1>p, <1>s, <1>m, <1>d, Zenon DEF Inv

(***************************************************************************)
(* repairCompactions ends with every other input removed.                  *)
(***************************************************************************)
LEMMA RepairDoneStep ==
  ASSUME Inv, RepairDone
  PROVE  Inv' /\ OnlyWritesChange
<1>1. /\ phase = "finish" /\ phase' = "load" /\ toRemove = {}
      /\ UNCHANGED <<sst, cdir, toRemove>> /\ RepairFrame
  BY DEF RepairDone
<1>c. /\ UNCHANGED <<wal, walNum, writeStore, readStore, generation, readers, fl,
                     dbLock, cp, opens, readLocks, mgrLock, op, mutations>>
      /\ fl.pc = "off" /\ cp.pc = "off" /\ ~Flushing /\ ~Flushing'
      /\ readers = <<>> /\ generation = 0 /\ LogFiles' = LogFiles
      /\ (CompactionCounts <=> cdir.flag) /\ (CompactionCounts' <=> cdir'.flag)
      /\ LockInv' /\ ReaderInv' /\ CompactorInv' /\ MergeKeepsAll'
      /\ CurrentInv' /\ PendingInv' /\ SendInv' /\ LockstepInv' /\ ReplayInv' /\ GetInv'
      /\ ReadStoreInv'
  BY <1>1, RepairCommon
<1>t. TypeOK'
  BY <1>1, <1>c, TypeFrame, Zenon DEF Inv, TypeOK, MemoryOK, Phases
<1>p. PhaseInv'
  BY <1>1, <1>c DEF Inv, PhaseInv
<1>s. TableInv'
  BY <1>1, <1>c, Zenon DEF Inv, TableInv, Loaded
<1>m. MergeInv' /\ FinishInv'
  BY <1>1, <1>c, MergeFrame, Zenon DEF Inv
<1>d. OnlyWritesChange
  BY <1>1, <1>c, ValueFrame
<1> QED BY <1>c, <1>t, <1>p, <1>s, <1>m, <1>d DEF Inv

=============================================================================
