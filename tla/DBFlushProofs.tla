--------------------------- MODULE DBFlushProofs ----------------------------
(***************************************************************************)
(* What turns WAL files into tables keeps Inv and changes no value: the    *)
(* flusher while the database runs, and Open, which replays the files that *)
(* a crash left behind.                                                    *)
(***************************************************************************)
EXTENDS DBLemmas, DBFlush, DBLifecycle

(***************************************************************************)
(* While a table is written, every key of the memstore is still in the     *)
(* log.                                                                    *)
(***************************************************************************)
LEMMA FlushedIsLogged ==
  ASSUME Inv, WalPending, NEW k \in Keys, fl.mem[k] # Absent
  PROVE  LogFiles = wal /\ Replayed(wal)[k] # Absent
<1>1. phase \in {"flush", "up", "closing", "draining"}
  BY DEF Inv, PhaseInv, WalPending, Stages
<1>2. LogFiles = wal
  BY <1>1 DEF LogFiles
<1>3. CASE phase = "flush"
  BY <1>2, <1>3 DEF Inv, ReplayInv
<1>4. CASE phase # "flush"
  <2>1. fl.wal \in DOMAIN wal /\ FileCell(wal[fl.wal], k) # Absent
    BY <1>1, <1>4 DEF Inv, PendingInv, HasLog
  <2>2. DOMAIN wal \in SUBSET Nat /\ FiniteNumbers(DOMAIN wal)
    BY DEF Inv, TypeOK, WalOK, NumberedBy
  <2> QED BY <1>2, <2>1, <2>2, ReplayedCases
<1> QED BY <1>3, <1>4

(***************************************************************************)
(* executeFlush changes tables, log, readers and its own state: the types  *)
(* of these are all there is to see.                                       *)
(***************************************************************************)
LEMMA FlushTypes ==
  ASSUME TypeOK, FlushFrame, phase' \in Phases, generation' \in Nat,
         NumberedBy(sst', Table), NumberedBy(readers', Table), NumberedBy(wal', LogFile),
         fl' \in [pc : Stages \cup {"off", "idle", "received", "removed"},
                 mem : Memstore, wal : Nat \cup {NoWal}, gen : Nat]
  PROVE  TypeOK'
BY DEF TypeOK, TablesOK, WalOK, MemoryOK, CallsOK, FlusherOK, CompactorOK, FlushFrame,
       stores, locks, bounds

(***************************************************************************)
(* FlushMkdir and FlushWrite: the table G on top of the others changes its *)
(* stage.                                                                  *)
(***************************************************************************)
LEMMA FlushTableStep ==
  ASSUME Inv, NEW G \in Nat, NEW to \in Stages, WalPending,
         FlushFrame, UNCHANGED <<phase, wal, readers>>,
         generation' = G, fl' = [fl EXCEPT !.pc = to, !.gen = G],
         \A g \in DOMAIN sst \cup DOMAIN readers : g <= G,
         G \notin DOMAIN readers, Flushing => G = fl.gen,
         G \in DOMAIN sst => Flushing,
         NumberedBy(sst', Table), DOMAIN sst' = DOMAIN sst \cup {G},
         sst'[G] = [stage |-> to, cells |-> fl.mem],
         \A g \in DOMAIN sst : g # G => sst'[g] = sst[g]
  PROVE  Inv' /\ OnlyWritesChange
<1>f. UNCHANGED <<cdir, toRemove, walNum, writeStore, readStore, dbLock, readLocks,
                  mgrLock, op, cp, mutations, opens, phase, wal, readers>>
  BY DEF FlushFrame, stores, locks, bounds
<1>1. /\ fl'.pc = to /\ fl'.gen = G /\ fl'.mem = fl.mem /\ fl'.wal = fl.wal
      /\ fl' \in [pc : Stages \cup {"off", "idle", "received", "removed"},
                   mem : Memstore, wal : Nat \cup {NoWal}, gen : Nat]
  BY Zenon DEF Inv, TypeOK, FlusherOK
<1>2. /\ Flushing' /\ WalPending' /\ fl.pc # "off" /\ fl.pc # "idle" /\ fl.pc # "removed"
      /\ to # "off" /\ to # "idle" /\ to # "removed"
  BY DEF Flushing, WalPending, Stages
<1>3. phase \in {"flush", "up", "closing", "draining"} /\ phase \in Loaded /\ toRemove = {}
  BY <1>2 DEF Inv, PhaseInv, Loaded
<1>4. SendPending' <=> SendPending
  BY <1>f DEF SendPending
<1>5. /\ cdir.flag =>
           cp.pc \in Merged /\ cdir.paths = cp.paths /\ cdir.paths \subseteq DOMAIN readers
      /\ cdir.flag => G \notin cdir.paths /\ G # Replacement(cdir.paths)
      /\ cp.pc \in Compacting => G \notin cp.paths
  BY <1>3, FlaggedInputs, Zenon DEF Inv, CompactorInv
<1>6. DOMAIN readers \in SUBSET Nat /\ DOMAIN sst \in SUBSET Nat /\ FiniteNumbers(DOMAIN sst)
  BY DEF Inv, TypeOK, TablesOK, MemoryOK, NumberedBy
<1>t. TypeOK'
  BY <1>1, FlushTypes, Zenon DEF Inv, TypeOK, WalOK, MemoryOK
<1>l. LockInv'
  BY <1>f DEF Inv, LockInv
<1>p. PhaseInv'
  BY <1>2, <1>3, <1>f DEF Inv, PhaseInv
<1>s. TableInv'
  <2>1. \A g \in DOMAIN sst : g # G => sst'[g].stage \in {"headers", "complete"}
    BY <1>3 DEF Inv, TableInv
  <2> QED BY <1>2, <2>1 DEF TableInv
<1>r. ReaderInv'
  <2>1. Reflecting' = Reflecting
    BY <1>f DEF Reflecting
  <2> QED BY <1>2, <2>1 DEF Inv, ReaderInv
<1>c. CompactorInv'
  <2>1. cp.pc \in {"removing", "renamed"} => DOMAIN sst' \cap cp.paths = DOMAIN sst \cap cp.paths
    BY <1>5 DEF Compacting
  <2>2. cp.pc = "renamed" =>
          /\ Replacement(cp.paths) \in DOMAIN sst
          /\ sst'[Replacement(cp.paths)] = sst[Replacement(cp.paths)]
    BY DEF Compacting, Inv, CompactorInv
  <2> QED BY <1>f, <2>1, <2>2 DEF Inv, CompactorInv, ReadersValue
<1>m. MergeInv' /\ MergeKeepsAll' /\ FinishInv'
  <2>1. ASSUME cdir.flag PROVE Hides(cdir.paths, cdir.cells) => Hides(cdir.paths, cdir.cells)'
    BY <1>5, <1>f, <2>1 DEF Hides, IsNewest
  <2>2. MergeInv'
    <3>1. CompactionCounts' <=> CompactionCounts
      BY <1>f DEF CompactionCounts
    <3>2. ASSUME cdir.flag PROVE \A p \in cdir.paths : p < G
      BY <1>5, <1>6, <3>2
    <3> QED BY <1>f, <2>1, <3>1, <3>2 DEF Inv, MergeInv
  <2>3. MergeKeepsAll'
    <3> SUFFICES ASSUME cdir.flag, cp.pc \in Stages \cup {"locked"}
                 PROVE  Restrict(sst', cdir.paths) = Restrict(sst, cdir.paths)
      BY <1>f DEF Inv, MergeKeepsAll
    <3>1. \A g \in cdir.paths : g \in DOMAIN sst /\ g # G
      BY <1>3, <1>5 DEF Inv, ReaderInv, Reflecting, Stages
    <3> QED BY <3>1 DEF Restrict
  <2>4. FinishInv'
    BY <1>3, <1>f DEF FinishInv
  <2> QED BY <2>2, <2>3, <2>4
<1>w. CurrentInv' /\ PendingInv' /\ SendInv' /\ LockstepInv' /\ ReplayInv'
  <2>0. HasLog' <=> HasLog
    BY DEF HasLog
  <2>1. CurrentInv'
    <3>1. \A k \in Keys : CurrentFile(k) => CurrentFile(k)'
      BY <1>f DEF CurrentFile, Logged
    <3> QED BY <1>f, <2>0, <3>1 DEF Inv, CurrentInv
  <2>2. PendingInv' /\ SendInv' /\ LockstepInv'
    BY <1>2, <1>4, <1>f, <2>0 DEF Inv, PendingInv, SendInv, LockstepInv
  <2>3. ReplayInv'
    BY <1>3 DEF Inv, ReplayInv
  <2> QED BY <2>1, <2>2, <2>3
<1>g. ReadStoreInv' /\ GetInv'
  BY <1>2, <1>4, <1>f DEF Inv, ReadStoreInv, GetInv, MemValue
<1>d. OnlyWritesChange
  <2> SUFFICES ASSUME NEW k \in Keys PROVE UNCHANGED DiskValue(k)
    BY DEF OnlyWritesChange
  <2>1. LogFiles' = LogFiles
    BY DEF LogFiles
  <2>2. CASE fl.mem[k] # Absent
    BY <2>1, <2>2, FlushedIsLogged DEF DiskValue, Over
  <2>3. CASE fl.mem[k] = Absent
    <3>1. /\ DOMAIN FinishedTables' = DOMAIN FinishedTables \cup {G}
          /\ FinishedTables'[G] = sst'[G]
          /\ \A g \in DOMAIN FinishedTables : g # G => FinishedTables'[g] = FinishedTables[g]
      BY <1>3, <1>5, <1>f, FinishedTop, Zenon DEF CompactionCounts
    <3>2. CellIn(sst'[G], k) = Absent
      BY <2>3 DEF CellIn, Stages
    <3>3. G \in DOMAIN FinishedTables => CellIn(FinishedTables[G], k) = Absent
      <4>1. ASSUME G \in DOMAIN FinishedTables PROVE G \in DOMAIN sst /\ FinishedTables[G] = sst[G]
        BY <1>5, <4>1 DEF FinishedTables, With, Restrict, CompactionCounts
      <4>2. ASSUME G \in DOMAIN sst PROVE sst[G].cells = fl.mem /\ sst[G].stage \in Stages
        BY <4>2 DEF Inv, TableInv, TypeOK, TablesOK, NumberedBy, Table
      <4> QED BY <2>3, <4>1, <4>2 DEF CellIn, Stages
    <3>4. DOMAIN FinishedTables \in SUBSET Nat /\ FiniteNumbers(DOMAIN FinishedTables)
      BY FinishedNumbered DEF Inv, NumberedBy
    <3>5. Newest(FinishedTables, k) = Newest(FinishedTables', k)
      BY <3>1, <3>2, <3>3, <3>4, NewestSame
    <3> QED BY <2>1, <3>5 DEF DiskValue
  <2> QED BY <2>2, <2>3
<1> QED BY <1>t, <1>l, <1>p, <1>s, <1>r, <1>c, <1>m, <1>w, <1>g, <1>d DEF Inv

(***************************************************************************)
(* executeFlush creates a directory newer than every table and still empty. *)
(***************************************************************************)
LEMMA FlushMkdirStep ==
  ASSUME Inv, FlushMkdir
  PROVE  Inv' /\ OnlyWritesChange
<1> DEFINE G == generation + 1
<1>1. fl.pc = "received" /\ WalPending /\ ~Flushing
  BY DEF FlushMkdir, WalPending, Flushing, Stages
<1>2. phase \in Loaded
  BY <1>1 DEF Inv, PhaseInv, Loaded
<1>3. DOMAIN sst \cup DOMAIN readers \in SUBSET Nat /\ generation \in Nat /\ fl.mem \in Memstore
  BY DEF Inv, TypeOK, TablesOK, MemoryOK, FlusherOK, NumberedBy
<1>4. /\ \A g \in DOMAIN sst \cup DOMAIN readers : g <= G /\ g # G
      /\ G \in Nat
  BY <1>2, <1>3 DEF Inv, TableInv
<1>5. sst' = With(sst, G, NewTable(fl.mem)) /\ NewTable(fl.mem) \in Table
  BY <1>3 DEF FlushMkdir, NewTable, Table, Stages
<1>6. /\ NumberedBy(sst', Table) /\ DOMAIN sst' = DOMAIN sst \cup {G}
      /\ sst'[G] = [stage |-> "bare", cells |-> fl.mem]
      /\ \A g \in DOMAIN sst : g # G => sst'[g] = sst[g]
  <2>1. NumberedBy(sst', Table)
    BY <1>4, <1>5, WithNumbered DEF Inv, TypeOK, TablesOK
  <2> QED BY <1>5, <2>1 DEF With, NewTable
<1>7. /\ FlushFrame /\ UNCHANGED <<phase, wal, readers>> /\ generation' = G
      /\ fl' = [fl EXCEPT !.pc = "bare", !.gen = G]
  BY DEF FlushMkdir
<1>8. "bare" \in Stages
  BY DEF Stages
<1> HIDE DEF G
<1> QED BY <1>1, <1>4, <1>6, <1>7, <1>8, FlushTableStep, Zenon

(***************************************************************************)
(* A stage of FlushWithTombstones: the WAL still has what the table gets.  *)
(***************************************************************************)
LEMMA WriteStageStep ==
  ASSUME Inv, NEW from \in Stages, NEW to \in Stages, WriteStage(from, to)
  PROVE  Inv' /\ OnlyWritesChange
<1> DEFINE G == fl.gen
<1>1. fl.pc = from /\ WalPending /\ Flushing
  BY DEF WriteStage, WalPending, Flushing
<1>2. phase \in Loaded
  BY <1>1 DEF Inv, PhaseInv, Loaded, Stages
<1>3. /\ G = generation /\ G \in DOMAIN sst /\ G \notin DOMAIN readers /\ G \in Nat
      /\ sst[G].cells = fl.mem
      /\ \A g \in DOMAIN sst \cup DOMAIN readers : g <= G
  BY <1>1, <1>2 DEF Inv, TableInv, TypeOK, FlusherOK
<1>4. sst' = [sst EXCEPT ![G].stage = to] /\ NumberedBy(sst, Table)
  BY DEF WriteStage, Inv, TypeOK, TablesOK
<1>5. /\ NumberedBy(sst', Table) /\ DOMAIN sst' = DOMAIN sst \cup {G}
      /\ sst'[G] = [stage |-> to, cells |-> fl.mem]
      /\ \A g \in DOMAIN sst : g # G => sst'[g] = sst[g]
  <2>1. DOMAIN sst' = DOMAIN sst /\ \A g \in DOMAIN sst : g # G => sst'[g] = sst[g]
    BY <1>4
  <2>2. sst[G] \in Table /\ sst[G] = [stage |-> sst[G].stage, cells |-> fl.mem]
    BY <1>3, <1>4 DEF NumberedBy, Table
  <2>3. sst'[G] = [sst[G] EXCEPT !.stage = to]
    BY <1>3, <1>4
  <2>4. sst'[G] = [stage |-> to, cells |-> fl.mem] /\ sst'[G] \in Table
    BY <2>2, <2>3 DEF Table
  <2>5. sst' = [g \in DOMAIN sst |-> sst'[g]]
    BY <1>4, Zenon
  <2>6. NumberedBy(sst', Table)
    BY <1>4, <2>4, <2>5 DEF NumberedBy
  <2> QED BY <1>3, <2>1, <2>4, <2>6, Zenon
<1>6. /\ FlushFrame /\ UNCHANGED <<phase, wal, readers>> /\ generation' = G
      /\ fl' = [fl EXCEPT !.pc = to, !.gen = G]
  <2>1. fl' = [fl EXCEPT !.pc = to]
    BY DEF WriteStage
  <2>2. fl' = [fl EXCEPT !.pc = to, !.gen = G]
    BY <2>1, Zenon
  <2> QED BY <1>3, Zenon DEF WriteStage
<1> QED BY <1>1, <1>3, <1>5, <1>6, FlushTableStep, Zenon

(***************************************************************************)
(* The WAL file goes when the table that replaces it is complete.          *)
(***************************************************************************)
LEMMA FlushRemoveWalStep ==
  ASSUME Inv, FlushRemoveWal
  PROVE  Inv' /\ OnlyWritesChange
<1> DEFINE G == fl.gen
<1>f. UNCHANGED <<sst, cdir, toRemove, walNum, writeStore, readStore, dbLock, readLocks,
                  mgrLock, op, cp, mutations, opens, phase, generation, readers>>
  BY DEF FlushRemoveWal, FlushFrame, stores, locks, bounds
<1>1. /\ fl.pc = "complete" /\ fl'.pc = "removed"
      /\ fl'.mem = fl.mem /\ fl'.wal = fl.wal /\ fl'.gen = fl.gen
      /\ fl' \in [pc : Stages \cup {"off", "idle", "received", "removed"},
                   mem : Memstore, wal : Nat \cup {NoWal}, gen : Nat]
  BY DEF FlushRemoveWal, Inv, TypeOK, FlusherOK
<1>2. Flushing /\ Flushing' /\ WalPending /\ ~WalPending'
  BY <1>1 DEF Flushing, WalPending, Stages
<1>3. phase \in {"flush", "up", "closing", "draining"} /\ phase \in Loaded
  BY <1>1 DEF Inv, PhaseInv, Loaded
<1>4. SendPending' <=> SendPending
  BY <1>f DEF SendPending
<1>5. /\ wal' = Restrict(wal, DOMAIN wal \ {fl.wal}) /\ NumberedBy(wal', LogFile)
      /\ DOMAIN wal' = DOMAIN wal \ {fl.wal}
      /\ \A n \in DOMAIN wal' : wal'[n] = wal[n]
  <2>1. wal' = Restrict(wal, DOMAIN wal \ {fl.wal})
    BY DEF FlushRemoveWal
  <2>2. NumberedBy(wal', LogFile)
    BY <2>1, RestrictNumbered DEF Inv, TypeOK, WalOK
  <2> QED BY <2>1, <2>2 DEF Restrict
<1>6. DOMAIN wal \in SUBSET Nat /\ FiniteNumbers(DOMAIN wal)
  BY DEF Inv, TypeOK, WalOK, NumberedBy
<1>7. phase = "flush" => wal' = wal
  <2>1. ASSUME phase = "flush" PROVE DOMAIN wal \ {fl.wal} = DOMAIN wal
    <3>1. fl.wal = -1 /\ \A n \in DOMAIN wal : n >= 0
      BY <2>1 DEF Inv, PhaseInv, NoWal
    <3>2. fl.wal \notin DOMAIN wal
      BY <3>1
    <3> QED BY <3>2
  <2> QED BY <1>5, <2>1 DEF Inv, TypeOK, WalOK, NumberedBy, Restrict
<1>8. phase # "flush" =>
        /\ HasLog /\ fl.wal \in DOMAIN wal /\ fl.wal \in Nat
        /\ walNum \in Nat /\ fl.wal < walNum /\ walNum \in DOMAIN wal
        /\ \A k \in Keys : fl.mem[k] = FileCell(wal[fl.wal], k)
        /\ \A n \in DOMAIN wal : fl.wal <= n
  BY <1>2, <1>3 DEF Inv, PendingInv, CurrentInv, HasLog
<1>t. TypeOK'
  <2>1. FlushFrame
    BY DEF FlushRemoveWal
  <2>2. /\ TypeOK /\ phase' \in Phases /\ generation' \in Nat
        /\ NumberedBy(sst', Table) /\ NumberedBy(readers', Table)
    BY <1>f DEF Inv, TypeOK, TablesOK, MemoryOK
  <2> QED BY <1>1, <1>5, <2>1, <2>2, FlushTypes
<1>l. LockInv'
  BY <1>f, Zenon DEF Inv, LockInv
<1>p. PhaseInv'
  BY <1>1, <1>f DEF Inv, PhaseInv
<1>s. TableInv' /\ ReaderInv' /\ CompactorInv'
  <2>1. TableInv'
    BY <1>1, <1>2, <1>f DEF Inv, TableInv, Whole
  <2>2. ReaderInv'
    BY <1>1, <1>2, <1>f DEF Inv, ReaderInv, Reflecting
  <2>3. CompactorInv'
    BY <1>f, Zenon DEF Inv, CompactorInv, ReadersValue
  <2> QED BY <2>1, <2>2, <2>3
<1>m. MergeInv' /\ MergeKeepsAll' /\ FinishInv'
  BY <1>f, MergeFrame DEF Inv
<1>c. CurrentInv'
  <2>0. HasLog' <=> HasLog
    BY <1>f DEF HasLog
  <2> SUFFICES ASSUME HasLog PROVE CurrentInv'
    BY <2>0 DEF CurrentInv
  <2>1. walNum \in DOMAIN wal' /\ wal'[walNum] = wal[walNum]
    <3>1. walNum # fl.wal /\ walNum \in DOMAIN wal
      BY <1>8 DEF HasLog
    <3> QED BY <1>5, <3>1
  <2>2. \A k \in Keys : CurrentFile(k) => CurrentFile(k)'
    BY <1>f, <2>1 DEF CurrentFile, Logged
  <2> QED BY <1>5, <1>f, <2>1, <2>2, Zenon DEF Inv, CurrentInv
<1>w. PendingInv' /\ ReplayInv'
  BY <1>1, <1>2, <1>3, <1>7, <1>f DEF Inv, PendingInv, ReplayInv
<1>n. SendInv' /\ LockstepInv'
  <2>1. SendPending => phase # "flush"
    BY DEF SendPending, Inv, LockInv
  <2>2. SendPending => walNum - 1 \in DOMAIN wal' /\ wal'[walNum - 1] = wal[walNum - 1]
    <3>1. SendPending => walNum - 1 \in DOMAIN wal /\ fl.wal < walNum - 1
      BY <1>2 DEF Inv, SendInv
    <3>2. SendPending => walNum - 1 # fl.wal
      BY <1>8, <2>1, <3>1
    <3> QED BY <1>5, <3>1, <3>2
  <2>3. SendInv'
    BY <1>2, <1>4, <1>f, <2>2, Zenon DEF Inv, SendInv
  <2>4. LockstepInv'
    BY <1>4, <1>5, <1>f, Zenon DEF Inv, LockstepInv
  <2> QED BY <2>3, <2>4
<1>g. ReadStoreInv' /\ GetInv'
  BY <1>1, <1>4, <1>f, Zenon DEF Inv, ReadStoreInv, GetInv, MemValue
<1>d. OnlyWritesChange
  <2> SUFFICES ASSUME NEW k \in Keys PROVE UNCHANGED DiskValue(k)
    BY DEF OnlyWritesChange
  <2>1. LogFiles = wal /\ LogFiles' = wal' /\ FinishedTables' = FinishedTables
    BY <1>3, <1>f, Zenon DEF LogFiles, FinishedTables, CompactionCounts
  <2>2. CASE phase = "flush"
    BY <1>7, <2>1, <2>2 DEF DiskValue
  <2>3. CASE phase # "flush" /\ \E n \in DOMAIN wal' : FileCell(wal'[n], k) # Absent
    <3>1. PICK n \in DOMAIN wal' :
            /\ FileCell(wal'[n], k) # Absent
            /\ \A m \in DOMAIN wal' : m > n => FileCell(wal'[m], k) = Absent
            /\ Replayed(wal')[k] = FileCell(wal'[n], k)
      <4>1. DOMAIN wal' \in SUBSET Nat /\ FiniteNumbers(DOMAIN wal')
        BY <1>5, Zenon DEF NumberedBy
      <4> QED BY <2>3, <4>1, ReplayedCases
    <3>2. \A m \in DOMAIN wal : m > n => FileCell(wal[m], k) = Absent
      <4>1. n \in DOMAIN wal /\ n \in Nat /\ fl.wal \in Nat /\ fl.wal <= n
        BY <1>5, <1>6, <1>8, <2>3
      <4>2. \A m \in DOMAIN wal : m > n => m # fl.wal
        BY <4>1
      <4> QED BY <1>5, <3>1, <4>2, Zenon
    <3>3. n \in DOMAIN wal /\ wal[n] = wal'[n]
      BY <1>5, Zenon
    <3>4. Replayed(wal)[k] = FileCell(wal[n], k)
      BY <1>6, <3>1, <3>2, <3>3, ReplayedAt
    <3> QED BY <2>1, <3>1, <3>3, <3>4 DEF DiskValue
  <2>4. CASE phase # "flush" /\ \A n \in DOMAIN wal' : FileCell(wal'[n], k) = Absent
    <3>1. Replayed(wal')[k] = Absent
      BY <2>4, ReplayedNone
    <3>2. CASE fl.mem[k] = Absent
      <4>1. \A n \in DOMAIN wal : FileCell(wal[n], k) = Absent
        BY <1>5, <1>8, <2>4, <3>2, Zenon
      <4>2. Replayed(wal)[k] = Absent
        BY <4>1, ReplayedNone
      <4> QED BY <2>1, <3>1, <4>2 DEF DiskValue
    <3>3. CASE fl.mem[k] # Absent
      <4>1. Replayed(wal)[k] = fl.mem[k]
        <5>1. \A m \in DOMAIN wal : m > fl.wal => FileCell(wal[m], k) = Absent
          <6>1. \A m \in DOMAIN wal : m > fl.wal => m # fl.wal
            BY <1>8, <2>4
          <6> QED BY <1>5, <2>4, <6>1, Zenon
        <5>2. Replayed(wal)[k] = FileCell(wal[fl.wal], k)
          BY <1>6, <1>8, <2>4, <3>3, <5>1, ReplayedAt
        <5> QED BY <1>8, <2>4, <5>2
      <4>2. Newest(FinishedTables, k) = fl.mem[k]
        <5>0. /\ G = generation /\ G \in DOMAIN sst /\ G \notin DOMAIN readers
              /\ sst[G].cells = fl.mem /\ sst[G].stage = "complete"
          BY <1>1, <1>2 DEF Inv, TableInv
        <5>1. cdir.flag =>
                /\ G \notin cdir.paths /\ G # Replacement(cdir.paths)
                /\ Replacement(cdir.paths) \in DOMAIN readers
          BY <1>3, <5>0, FlaggedInputs
        <5>2. G \in DOMAIN FinishedTables /\ FinishedTables[G] = sst[G]
          BY <1>3, <5>0, <5>1, FinishedAt, NothingToRemove DEF CompactionCounts
        <5>3. \A g \in DOMAIN FinishedTables : g <= G
          <6>1. \A g \in DOMAIN sst \cup DOMAIN readers : g <= G
            BY <1>3, <5>0 DEF Inv, TableInv
          <6> QED BY <5>1, <6>1 DEF FinishedTables, With, Restrict, CompactionCounts
        <5>4. DOMAIN FinishedTables \in SUBSET Nat /\ G \in Nat
          BY <5>2, FinishedNumbered DEF Inv, NumberedBy
        <5>5. CellIn(FinishedTables[G], k) = fl.mem[k]
          BY <5>0, <5>2 DEF CellIn
        <5>6. \A h \in DOMAIN FinishedTables : ~(h > G)
          BY <5>3, <5>4
        <5> QED BY <3>3, <5>2, <5>4, <5>5, <5>6, NewestAt
      <4> QED BY <2>1, <3>1, <4>1, <4>2 DEF DiskValue, Over
    <3> QED BY <3>2, <3>3
  <2> QED BY <2>2, <2>3, <2>4
<1> QED BY <1>t, <1>l, <1>p, <1>s, <1>m, <1>c, <1>w, <1>n, <1>g, <1>d DEF Inv

(***************************************************************************)
(* The end of a flush.  Its phase is "flush" or one with a log.            *)
(***************************************************************************)
LEMMA FlushReturns ==
  ASSUME Inv, fl.pc \in {"received", "removed"}, FlushReturn, FlushFrame, UNCHANGED wal,
         fl.pc = "received" => fl.mem = EmptyStore
  PROVE  /\ UNCHANGED <<cdir, toRemove, walNum, writeStore, readStore, dbLock, readLocks,
                         mgrLock, op, cp, mutations, opens, wal>>
         /\ \/ phase = "flush" /\ phase' = "clean" /\ fl' = FlusherAt("off")
            \/ HasLog /\ UNCHANGED phase /\ fl' = FlusherAt("idle")
         /\ fl' \in [pc : {"off", "idle"}, mem : Memstore, wal : Nat \cup {NoWal}, gen : Nat]
         /\ LockInv' /\ PhaseInv' /\ CurrentInv' /\ PendingInv' /\ SendInv' /\ LockstepInv'
         /\ SendPending' <=> SendPending
<1>f. UNCHANGED <<cdir, toRemove, walNum, writeStore, readStore, dbLock, readLocks,
                  mgrLock, op, cp, mutations, opens, wal>>
  BY DEF FlushFrame, stores, locks, bounds
<1>1. \/ phase = "flush" /\ phase' = "clean" /\ fl' = FlusherAt("off")
      \/ HasLog /\ UNCHANGED phase /\ fl' = FlusherAt("idle")
  BY DEF FlushReturn, Inv, PhaseInv, HasLog
<1>2. fl' \in [pc : {"off", "idle"}, mem : Memstore, wal : Nat \cup {NoWal}, gen : Nat]
  <2>1. EmptyStore \in Memstore
    BY DEF EmptyStore, Memstore, MemCell
  <2> QED BY <1>1, <2>1 DEF FlusherAt
<1>3. (SendPending' <=> SendPending) /\ (HasLog' <=> HasLog) /\ ~WalPending'
  BY <1>1, <1>2, <1>f DEF SendPending, HasLog, WalPending, Stages
<1>4. LockInv'
  BY <1>1, <1>f DEF Inv, LockInv
<1>5. PhaseInv'
  <2>1. phase \in {"flush", "up", "closing", "draining"} /\ fl'.pc \in {"off", "idle"}
    BY <1>1, <1>2 DEF HasLog
  <2>2. phase = "flush" => phase' = "clean" /\ fl'.pc = "off"
    BY <1>1 DEF FlusherAt, HasLog
  <2>3. phase # "flush" => phase' = phase /\ fl'.pc = "idle"
    BY <1>1 DEF FlusherAt
  <2>4. /\ toRemove = {} /\ (cdir.flag => cp.pc \in Merged)
        /\ cp.pc # "off" => phase \in Running
    BY DEF Inv, PhaseInv
  <2>5. phase' \in Loaded /\ (cp.pc # "off" => phase' \in Running)
    BY <2>1, <2>2, <2>3, <2>4 DEF Loaded, Running
  <2>6. PhaseInv'
    <3> SUFFICES /\ phase' \in {"up", "closing", "draining"} => fl'.pc # "off"
                 /\ fl'.pc # "off" => phase' \in {"flush", "up", "closing", "draining"}
                 /\ phase' # "flush" /\ phase' # "finish" /\ phase' # "replace"
      BY <1>f, <2>4, <2>5 DEF PhaseInv
    <3> QED BY <2>1, <2>2, <2>3
  <2> QED BY <2>6
<1>6. CurrentInv'
  <2>1. \A k \in Keys : CurrentFile(k) => CurrentFile(k)'
    BY <1>f DEF CurrentFile, Logged
  <2> QED BY <1>3, <1>f, <2>1 DEF Inv, CurrentInv
<1>7. PendingInv'
  BY <1>3 DEF PendingInv
<1>8. SendInv'
  BY <1>3, <1>f DEF Inv, SendInv
<1>9. LockstepInv'
  <2>1. WalPending => phase \notin {"up", "closing"}
    BY DEF WalPending, Inv, PendingInv, HasLog, Stages
  <2>2. phase' \in {"up", "closing"} => phase' = phase
    BY <1>1
  <2> QED BY <1>3, <1>f, <2>1, <2>2 DEF Inv, LockstepInv
<1> QED BY <1>f, <1>1, <1>2, <1>3, <1>4, <1>5, <1>6, <1>7, <1>8, <1>9

(***************************************************************************)
(* executeFlush of an empty memstore does nothing.                         *)
(***************************************************************************)
LEMMA FlushSkipStep ==
  ASSUME Inv, FlushSkip
  PROVE  Inv' /\ OnlyWritesChange
<1>1. /\ fl.pc = "received" /\ fl.mem = EmptyStore /\ FlushReturn /\ FlushFrame
      /\ UNCHANGED <<sst, wal, generation, readers>>
  BY DEF FlushSkip
<1>2. /\ UNCHANGED <<cdir, toRemove, walNum, writeStore, readStore, dbLock, readLocks,
                      mgrLock, op, cp, mutations, opens, wal>>
      /\ \/ phase = "flush" /\ phase' = "clean" /\ fl' = FlusherAt("off")
         \/ HasLog /\ UNCHANGED phase /\ fl' = FlusherAt("idle")
      /\ fl' \in [pc : {"off", "idle"}, mem : Memstore, wal : Nat \cup {NoWal}, gen : Nat]
      /\ LockInv' /\ PhaseInv' /\ CurrentInv' /\ PendingInv' /\ SendInv' /\ LockstepInv'
      /\ SendPending' <=> SendPending
  BY <1>1, FlushReturns
<1>3. /\ fl'.pc \in {"off", "idle"} /\ fl.pc # "removed" /\ fl.pc \notin Stages
      /\ ~Flushing /\ ~Flushing' /\ phase \in Loaded
  BY <1>1, <1>2 DEF Flushing, Stages, HasLog, Loaded
<1>t. TypeOK'
  <2>1. phase' \in Phases
    BY <1>2, Zenon DEF Inv, TypeOK, MemoryOK, Phases
  <2>2. /\ TypeOK /\ generation' \in Nat
        /\ NumberedBy(sst', Table) /\ NumberedBy(readers', Table) /\ NumberedBy(wal', LogFile)
    BY <1>1 DEF Inv, TypeOK, TablesOK, WalOK, MemoryOK
  <2>3. fl' \in [pc : Stages \cup {"off", "idle", "received", "removed"},
                 mem : Memstore, wal : Nat \cup {NoWal}, gen : Nat]
    BY <1>2
  <2> QED BY <1>1, <2>1, <2>2, <2>3, FlushTypes
<1>s. TableInv' /\ ReaderInv' /\ CompactorInv'
  BY <1>1, <1>2, <1>3, TableFrame DEF Inv
<1>m. MergeInv' /\ MergeKeepsAll' /\ FinishInv'
  BY <1>1, <1>2, MergeFrame DEF Inv
<1>r. ReplayInv'
  <2>1. ASSUME phase = "flush", NEW k \in Keys PROVE Replayed(wal)[k] = Absent
    BY <1>1, <2>1 DEF Inv, ReplayInv, EmptyStore
  <2> QED BY <1>2, <2>1 DEF ReplayInv, HasLog
<1>g. ReadStoreInv' /\ GetInv'
  <2>1. phase # "up"
    BY <1>1 DEF Inv, PendingInv, WalPending, HasLog
  <2>2. phase = "flush" /\ ~SendPending => \A k \in Keys : readStore[k] = Absent
    BY <1>1 DEF Inv, ReadStoreInv, EmptyStore
  <2>3. ReadStoreInv'
    BY <1>2, <2>1, <2>2 DEF Inv, ReadStoreInv, HasLog
  <2>4. \A c \in Clients : op[c].pc # "get"
    BY <2>1 DEF Inv, LockInv
  <2> QED BY <1>2, <2>3, <2>4 DEF GetInv
<1>d. OnlyWritesChange
  BY <1>1, <1>2, ValueFrame
<1> QED BY <1>2, <1>t, <1>s, <1>m, <1>r, <1>g, <1>d DEF Inv

(***************************************************************************)
(* The new reader says for every key of the read store what that says.     *)
(***************************************************************************)
LEMMA FlushAddReaderStep ==
  ASSUME Inv, FlushAddReader
  PROVE  Inv' /\ OnlyWritesChange
<1> DEFINE G == fl.gen
<1>1. /\ fl.pc = "removed" /\ mgrLock = "free" /\ FlushReturn /\ FlushFrame
      /\ readers' = With(readers, G, sst[G]) /\ UNCHANGED <<sst, wal, generation>>
  BY Zenon DEF FlushAddReader
<1>2. /\ UNCHANGED <<cdir, toRemove, walNum, writeStore, readStore, dbLock, readLocks,
                      mgrLock, op, cp, mutations, opens, wal>>
      /\ \/ phase = "flush" /\ phase' = "clean" /\ fl' = FlusherAt("off")
         \/ HasLog /\ UNCHANGED phase /\ fl' = FlusherAt("idle")
      /\ fl' \in [pc : {"off", "idle"}, mem : Memstore, wal : Nat \cup {NoWal}, gen : Nat]
      /\ LockInv' /\ PhaseInv' /\ CurrentInv' /\ PendingInv' /\ SendInv' /\ LockstepInv'
      /\ SendPending' <=> SendPending
  BY <1>1, FlushReturns
<1>3. Flushing /\ ~Flushing' /\ phase \in Loaded /\ fl'.pc \in {"off", "idle"}
  BY <1>1, <1>2 DEF Flushing, Stages, HasLog, Loaded
<1>4. /\ G = generation /\ G \in DOMAIN sst /\ G \notin DOMAIN readers /\ G \in Nat
      /\ sst[G].cells = fl.mem /\ sst[G].stage = "complete"
      /\ \A g \in DOMAIN sst \cup DOMAIN readers : g <= G
  BY <1>1, <1>3 DEF Inv, TableInv, TypeOK, FlusherOK
<1>5. /\ NumberedBy(readers', Table) /\ DOMAIN readers' = DOMAIN readers \cup {G}
      /\ readers'[G] = sst[G] /\ \A g \in DOMAIN readers : readers'[g] = readers[g]
  <2>1. sst[G] \in Table
    BY <1>4 DEF Inv, TypeOK, TablesOK, NumberedBy
  <2>2. NumberedBy(readers', Table)
    BY <1>1, <1>4, <2>1, WithNumbered DEF Inv, TypeOK, MemoryOK
  <2> QED BY <1>1, <1>4, <2>2 DEF With
<1>6. DOMAIN readers \in SUBSET Nat /\ DOMAIN sst \in SUBSET Nat /\ FiniteNumbers(DOMAIN readers)
  BY DEF Inv, TypeOK, TablesOK, MemoryOK, NumberedBy
<1>7. \A k \in Keys : CellIn(readers'[G], k) = fl.mem[k]
  BY <1>4, <1>5 DEF CellIn
<1>8. \A k \in Keys : fl.mem[k] # Absent => Newest(readers', k) = fl.mem[k]
  <2>1. ASSUME NEW g \in DOMAIN readers' PROVE ~(g > G)
    <3>1. g \in Nat /\ G \in Nat /\ g <= G
      BY <1>4, <1>5, <1>6
    <3> QED BY <3>1
  <2>2. DOMAIN readers' \in SUBSET Nat /\ G \in DOMAIN readers'
    BY <1>5, <1>4, <1>6
  <2> QED BY <1>7, <2>1, <2>2, NewestAt
<1>9. \A k \in Keys : fl.mem[k] = Absent => Newest(readers', k) = Newest(readers, k)
  <2> SUFFICES ASSUME NEW k \in Keys, fl.mem[k] = Absent
               PROVE  Newest(readers', k) = Newest(readers, k)
    OBVIOUS
  <2>1. \A g \in DOMAIN readers : CellIn(readers[g], k) # Absent =>
          g \in DOMAIN readers' /\ CellIn(readers'[g], k) = CellIn(readers[g], k)
    BY <1>5
  <2>2. \A g \in DOMAIN readers' : CellIn(readers'[g], k) # Absent =>
          g \in DOMAIN readers /\ CellIn(readers'[g], k) = CellIn(readers[g], k)
    BY <1>5, <1>7
  <2> QED BY <1>6, <2>1, <2>2, NewestSame
<1> HIDE DEF G
<1>t. TypeOK'
  <2>1. phase' \in Phases
    BY <1>2 DEF Inv, TypeOK, MemoryOK, Phases
  <2>2. /\ TypeOK /\ generation' \in Nat
        /\ NumberedBy(sst', Table) /\ NumberedBy(wal', LogFile)
    BY <1>1, <1>2, Zenon DEF Inv, TypeOK, TablesOK, WalOK, MemoryOK
  <2>3. fl' \in [pc : Stages \cup {"off", "idle", "received", "removed"},
                 mem : Memstore, wal : Nat \cup {NoWal}, gen : Nat]
    BY <1>2
  <2> QED BY <1>1, <1>5, <2>1, <2>2, <2>3, FlushTypes
<1>s. TableInv'
  <2>1. \A g \in DOMAIN sst : sst[g].stage \in {"headers", "complete"}
    BY <1>3, <1>4, NothingToRemove DEF Inv, TableInv
  <2> QED BY <1>1, <1>3, <1>4, <1>5, <2>1, Zenon DEF TableInv
<1>e. ReaderInv'
  <2>1. Reflecting = {} /\ Reflecting' = {}
    BY <1>1, <1>2, Zenon DEF LockInv, Reflecting
  <2>2. \A g \in DOMAIN readers : g \in DOMAIN sst /\ readers[g] = sst[g]
    BY <1>3, <2>1 DEF Inv, ReaderInv
  <2>3. \A g \in DOMAIN sst : g \in DOMAIN readers \/ g = G
    BY <1>3 DEF Inv, ReaderInv, G
  <2> QED BY <1>1, <1>4, <1>5, <2>1, <2>2, <2>3, Zenon DEF ReaderInv
<1>c. CompactorInv'
  <2>1. \A g \in DOMAIN readers : g < G
    BY <1>4, <1>6
  <2>2. cp.pc \notin {"removing", "renamed"}
    BY <1>1, Zenon DEF Inv, LockInv
  <2> QED BY <1>1, <1>2, <1>5, <2>1, <2>2, Zenon DEF Inv, CompactorInv
<1>m. MergeInv' /\ MergeKeepsAll' /\ FinishInv'
  BY <1>1, <1>2, MergeFrame DEF Inv
<1>r. ReplayInv'
  <2>1. ASSUME phase = "flush", NEW k \in Keys, Replayed(wal)[k] # Absent
        PROVE  Newest(sst, k) = Replayed(wal)[k]
    <3>1. fl.mem[k] = Replayed(wal)[k]
      BY <2>1 DEF Inv, ReplayInv
    <3>2. CellIn(sst[G], k) = fl.mem[k]
      BY <1>5, <1>7
    <3>3. \A g \in DOMAIN sst : ~(g > G)
      BY <1>4, <1>6
    <3> QED BY <1>4, <1>6, <2>1, <3>1, <3>2, <3>3, NewestAt, Zenon
  <2> QED BY <1>1, <1>2, <2>1 DEF ReplayInv, HasLog
<1>g. ReadStoreInv' /\ GetInv'
  <2>1. phase \in {"flush", "up"} /\ ~SendPending => readStore = fl.mem
    BY <1>1 DEF Inv, ReadStoreInv
  <2>2. ReadStoreInv'
    BY <1>2, <1>8, <2>1 DEF Inv, ReadStoreInv, HasLog
  <2>3. GetInv'
    <3> SUFFICES ASSUME NEW c \in Clients, op[c].pc = "get"
                 PROVE  \/ MemValue(op[c].key) # Absent
                        \/ ValueOf(op[c].cell) = ValueOf(Newest(readers', op[c].key))
      BY <1>2, Zenon DEF Inv, GetInv, MemValue
    <3>1. phase = "up" /\ ~SendPending /\ op[c].key \in Keys
      <4>1. phase = "up" /\ op[c].key \in Keys /\ dbLock = "free"
        BY DEF Inv, LockInv
      <4> QED BY ClientsAssumption, Zenon DEF Inv, LockInv, SendPending
    <3>2. MemValue(op[c].key) = Absent => fl.mem[op[c].key] = Absent
      BY <2>1, <3>1 DEF MemValue, Over
    <3> QED BY <1>9, <3>1, <3>2, Zenon DEF Inv, GetInv
  <2> QED BY <2>2, <2>3
<1>d. OnlyWritesChange
  BY <1>1, <1>2, ValueFrame
<1> QED BY <1>2, <1>t, <1>s, <1>e, <1>c, <1>m, <1>r, <1>g, <1>d DEF Inv

(***************************************************************************)
(* All the steps of executeFlush.                                          *)
(***************************************************************************)
LEMMA FlushSteps ==
  ASSUME Inv, FlushStep
  PROVE  Inv' /\ OnlyWritesChange
<1>1. {"bare", "headers", "index", "data", "complete"} \subseteq Stages
  BY DEF Stages
<1> QED BY <1>1, FlushSkipStep, FlushMkdirStep, WriteStageStep, FlushRemoveWalStep,
           FlushAddReaderStep DEF FlushStep, FlushWrite

-----------------------------------------------------------------------------
(***************************************************************************)
(* Open starts with a new DB object.                                       *)
(***************************************************************************)
LEMMA StartOpenStep ==
  ASSUME Inv, StartOpen
  PROVE  Inv' /\ OnlyWritesChange
<1>1. /\ phase = "down" /\ phase' = "repair" /\ opens < MaxOpens /\ opens' = opens + 1
      /\ dbLock' = "opener"
      /\ UNCHANGED <<sst, cdir, wal, toRemove, walNum, writeStore, readStore, generation,
                     readers, fl, cp, readLocks, mgrLock, op, mutations>>
  BY DEF StartOpen, LifeFrame, disk, stores
<1>2. /\ \A c \in Clients : op[c].pc = "idle"
      /\ readLocks = {} /\ mgrLock = "free" /\ fl.pc = "off" /\ cp.pc = "off"
      /\ ~Flushing /\ ~WalPending /\ ~SendPending
  BY <1>1, NobodyElse DEF Running
<1>t. TypeOK'
  <2>1. opens' \in 0..MaxOpens
    BY <1>1, BoundsAssumption DEF Inv, TypeOK, MemoryOK, FlusherOK
  <2> QED BY <1>1, <2>1, TypeFrame, Zenon DEF Inv, TypeOK, MemoryOK, CallsOK, Phases
<1>l. LockInv'
  <2>1. \A c \in Clients : c # "opener"
    BY ClientsAssumption
  <2> QED BY <1>1, <1>2, <2>1 DEF LockInv
<1>p. PhaseInv'
  BY <1>1, <1>2 DEF Inv, PhaseInv, Loaded
<1>s. TableInv' /\ ReaderInv' /\ CompactorInv'
  BY <1>1, TableFrame DEF Inv, Flushing, Loaded
<1>m. MergeInv' /\ MergeKeepsAll' /\ FinishInv'
  BY <1>1, MergeFrame DEF Inv
<1>w. CurrentInv' /\ PendingInv' /\ SendInv' /\ LockstepInv' /\ ReplayInv' /\ GetInv'
  BY <1>1, <1>2, QuietLog
<1>r. ReadStoreInv'
  BY <1>1 DEF Inv, ReadStoreInv
<1>d. OnlyWritesChange
  BY <1>1, ValueFrame
<1> QED BY <1>t, <1>l, <1>p, <1>s, <1>m, <1>w, <1>r, <1>d DEF Inv
-----------------------------------------------------------------------------
(***************************************************************************)
(* Every table can be opened, and the next generation is a new one.        *)
(***************************************************************************)
LEMMA ReconstructStep ==
  ASSUME Inv, ReconstructSSTables
  PROVE  Inv' /\ OnlyWritesChange
<1>1. /\ phase = "load" /\ phase' = "replay" /\ readers' = sst
      /\ generation' = Max(DOMAIN sst \cup {0})
      /\ UNCHANGED <<sst, cdir, wal, toRemove, walNum, writeStore, readStore, fl, dbLock,
                     cp, opens, readLocks, mgrLock, op, mutations>>
  BY DEF ReconstructSSTables, RecoveryFrame, LifeFrame, disk, stores
<1>2. /\ \A c \in Clients : op[c].pc = "idle"
      /\ readLocks = {} /\ mgrLock = "free" /\ fl.pc = "off" /\ cp.pc = "off"
      /\ ~Flushing /\ ~WalPending /\ ~SendPending
  BY <1>1, NobodyElse DEF Running
<1>3. ~cdir.flag /\ toRemove = {} /\ ~Flushing'
  BY <1>1, <1>2 DEF Inv, PhaseInv, Merged, Flushing
<1>4. generation' \in Nat /\ \A g \in DOMAIN sst : g <= generation'
  <2> DEFINE D == DOMAIN sst \cup {0}
  <2>1. D \in SUBSET Nat /\ FiniteNumbers(D) /\ D # {}
    <3>1. DOMAIN sst \in SUBSET Nat /\ FiniteNumbers(DOMAIN sst)
      BY DEF Inv, TypeOK, TablesOK, NumberedBy
    <3>2. FiniteNumbers(D)
      BY <3>1, AnotherNumber
    <3> QED BY <3>1, <3>2
  <2>2. Max(D) \in D /\ \A y \in D : y <= Max(D)
    BY <2>1, MaxOfNumbers
  <2> QED BY <1>1, <2>1, <2>2
<1>t. TypeOK'
  <2>1. NumberedBy(readers, Table)'
    BY <1>1 DEF Inv, TypeOK, TablesOK
  <2>2. TypeOK /\ phase' \in Phases
    BY <1>1 DEF Inv, Phases
  <2> QED BY <1>1, <1>4, <2>1, <2>2, TypeFrame DEF TypeOK, MemoryOK
<1>l. LockInv'
  BY <1>1 DEF Inv, LockInv
<1>p. PhaseInv'
  BY <1>1, <1>2, <1>3 DEF PhaseInv, Loaded
<1>c. CompactorInv' /\ MergeKeepsAll' /\ Reflecting' = {}
  BY <1>1, <1>2, NoCompactor
<1>s. TableInv' /\ ReaderInv'
  <2>1. TableInv'
    BY <1>1, <1>2, <1>3, <1>4, Zenon DEF Inv, TableInv
  <2>2. ReaderInv'
    BY <1>1, <1>c DEF ReaderInv
  <2> QED BY <2>1, <2>2
<1>m. MergeInv' /\ FinishInv'
  BY <1>1, <1>3 DEF MergeInv, FinishInv
<1>w. CurrentInv' /\ PendingInv' /\ SendInv' /\ LockstepInv' /\ ReplayInv' /\ GetInv'
  BY <1>1, <1>2, QuietLog
<1>r. ReadStoreInv'
  BY <1>1 DEF Inv, ReadStoreInv
<1>d. OnlyWritesChange
  BY <1>1, ValueFrame
<1> QED BY <1>t, <1>l, <1>p, <1>c, <1>s, <1>m, <1>w, <1>r, <1>d DEF Inv

(***************************************************************************)
(* Open never meets a table it cannot read.                                *)
(***************************************************************************)
LEMMA AlwaysLoadable ==
  ASSUME Inv, phase = "load"
  PROVE  Loadable
<1>1. ~Flushing
  BY NobodyElse DEF Running
<1>2. toRemove = {}
  BY DEF Inv, PhaseInv
<1> QED BY <1>1, <1>2 DEF Inv, TableInv, Loadable

(***************************************************************************)
(* The memstore to be flushed is the log replayed; without records there   *)
(* is nothing the tables do not have.                                      *)
(***************************************************************************)
LEMMA ReplayWalStep ==
  ASSUME Inv, ReplayWal
  PROVE  Inv' /\ OnlyWritesChange
<1>1. /\ phase = "replay" /\ phase' \in {"flush", "clean"}
      /\ HasMutations => /\ readStore' = Replayed(wal) /\ phase' = "flush"
                         /\ fl' = [pc |-> "received", mem |-> Replayed(wal),
                                   wal |-> NoWal, gen |-> 0]
      /\ ~HasMutations => phase' = "clean" /\ UNCHANGED <<readStore, fl>>
      /\ UNCHANGED <<sst, cdir, wal, toRemove, walNum, writeStore, generation, readers, dbLock,
                     cp, opens, readLocks, mgrLock, op, mutations>>
  BY DEF ReplayWal, RecoveryFrame, LifeFrame, disk
<1>2. /\ \A c \in Clients : op[c].pc = "idle"
      /\ readLocks = {} /\ mgrLock = "free" /\ fl.pc = "off" /\ cp.pc = "off"
      /\ ~Flushing /\ ~WalPending /\ ~SendPending
  BY <1>1, NobodyElse DEF Running
<1>3. Replayed(wal) \in Memstore
  BY ReplayedType DEF Inv, TypeOK, WalOK, NumberedBy
<1>4. /\ HasMutations => fl'.pc = "received" /\ fl'.mem = Replayed(wal) /\ fl'.wal = NoWal
      /\ ~HasMutations => fl'.pc = "off"
  BY <1>1, <1>2
<1>5. ~Flushing'
  BY <1>4 DEF Flushing, Stages
<1>t. TypeOK'
  <2>1. CASE HasMutations
    <3>1. fl' \in [pc : Stages \cup {"off", "idle", "received", "removed"},
                  mem : Memstore, wal : Nat \cup {NoWal}, gen : Nat]
      BY <1>1, <1>3, <2>1
    <3> QED BY <1>1, <1>3, <2>1, <3>1, TypeFrame, Zenon
               DEF Inv, TypeOK, MemoryOK, FlusherOK, Phases
  <2>2. CASE ~HasMutations
    BY <1>1, <2>2, TypeFrame, Zenon DEF Inv, TypeOK, MemoryOK, Phases
  <2> QED BY <2>1, <2>2
<1>l. LockInv'
  BY <1>1 DEF Inv, LockInv
<1>p. PhaseInv'
  BY <1>1, <1>2 DEF Inv, PhaseInv, Loaded
<1>s. TableInv' /\ ReaderInv' /\ CompactorInv'
  BY <1>1, <1>2, <1>5, TableFrame DEF Inv, Loaded
<1>m. MergeInv' /\ MergeKeepsAll' /\ FinishInv'
  BY <1>1, MergeFrame DEF Inv
<1>w. CurrentInv' /\ PendingInv' /\ SendInv' /\ LockstepInv' /\ GetInv'
  BY <1>1, <1>2 DEF CurrentInv, PendingInv, SendInv, LockstepInv, GetInv, HasLog, SendPending
<1>y. ReplayInv'
  <2>1. CASE HasMutations
    BY <1>1, <2>1 DEF ReplayInv
  <2>2. CASE ~HasMutations
    <3>1. \A n \in DOMAIN wal : wal[n] = <<>>
      BY <2>2 DEF HasMutations
    <3>2. \A k \in Keys : Replayed(wal)[k] = Absent
      BY <3>1, FileCellEmpty, ReplayedNone
    <3> QED BY <1>1, <3>2 DEF ReplayInv
  <2> QED BY <2>1, <2>2
<1>r. ReadStoreInv'
  <2>1. writeStore = EmptyStore /\ readStore = EmptyStore
    BY <1>1 DEF Inv, ReadStoreInv
  <2>2. \A k \in Keys : EmptyStore[k] = Absent
    BY DEF EmptyStore
  <2>3. CASE HasMutations
    BY <1>1, <2>1, <2>3 DEF ReadStoreInv
  <2>4. CASE ~HasMutations
    BY <1>1, <1>4, <2>1, <2>2 DEF ReadStoreInv
  <2> QED BY <2>3, <2>4
<1>d. OnlyWritesChange
  BY <1>1, ValueFrame
<1> QED BY <1>t, <1>l, <1>p, <1>s, <1>m, <1>w, <1>y, <1>r, <1>d DEF Inv

(***************************************************************************)
(* When the first WAL file goes, the tables have all that the log has.     *)
(***************************************************************************)
LEMMA CleanWalStep ==
  ASSUME Inv, NEW n, CleanWal(n)
  PROVE  Inv' /\ OnlyWritesChange
<1>1. /\ phase \in {"clean", "cleaning"} /\ n \in DOMAIN wal /\ phase' = "cleaning"
      /\ wal' = Restrict(wal, DOMAIN wal \ {n})
      /\ UNCHANGED <<sst, cdir, toRemove, walNum, writeStore, readStore, generation, readers,
                     fl, dbLock, cp, opens, readLocks, mgrLock, op, mutations>>
  BY DEF CleanWal, RecoveryFrame, LifeFrame, stores
<1>2. /\ \A c \in Clients : op[c].pc = "idle"
      /\ readLocks = {} /\ mgrLock = "free" /\ fl.pc = "off" /\ cp.pc = "off"
      /\ ~Flushing /\ ~WalPending /\ ~SendPending
  BY <1>1, NobodyElse DEF Running
<1>3. ~cdir.flag
  BY <1>1, <1>2 DEF Inv, PhaseInv, Merged
<1>t. TypeOK'
  <2>1. NumberedBy(wal', LogFile)
    BY <1>1, RestrictNumbered DEF Inv, TypeOK, WalOK, CallsOK, FlusherOK
  <2>2. NumberedBy(wal, LogFile)'
    BY <2>1
  <2>3. phase' \in Phases /\ TypeOK
    BY <1>1 DEF Inv, Phases
  <2> QED BY <1>1, <2>2, <2>3, TypeFrame, Zenon DEF TypeOK, WalOK, MemoryOK, CallsOK
<1>l. LockInv'
  BY <1>1 DEF Inv, LockInv
<1>p. PhaseInv'
  BY <1>1, <1>2 DEF Inv, PhaseInv, Loaded
<1>s. TableInv' /\ ReaderInv' /\ CompactorInv'
  BY <1>1, TableFrame DEF Inv, Loaded, Flushing
<1>m. MergeInv' /\ MergeKeepsAll' /\ FinishInv'
  BY <1>1, MergeFrame DEF Inv
<1>w. CurrentInv' /\ PendingInv' /\ SendInv' /\ LockstepInv' /\ ReplayInv' /\ GetInv'
  BY <1>1, <1>2, QuietLog
<1>r. ReadStoreInv'
  BY <1>1, <1>2 DEF Inv, ReadStoreInv
<1>d. OnlyWritesChange
  <2> SUFFICES ASSUME NEW k \in Keys PROVE UNCHANGED DiskValue(k)
    BY DEF OnlyWritesChange
  <2>1. FinishedTables = sst /\ FinishedTables' = sst /\ LogFiles' = <<>>
    <3>1. toRemove = {} /\ ~CompactionCounts /\ ~CompactionCounts' /\ LogFiles' = <<>>
      BY <1>1, <1>3 DEF Inv, PhaseInv, CompactionCounts, LogFiles
    <3>2. FinishedTables = sst
      BY <3>1, FinishedPlain DEF Inv, TypeOK, TablesOK
    <3> QED BY <1>1, <3>1, <3>2 DEF FinishedTables
  <2>2. CASE phase = "cleaning"
    BY <2>1, <2>2 DEF DiskValue, LogFiles
  <2>3. CASE phase = "clean"
    <3>1. LogFiles = wal /\ (Replayed(wal)[k] # Absent => Newest(sst, k) = Replayed(wal)[k])
      BY <2>3 DEF Inv, ReplayInv, LogFiles
    <3>2. Replayed(<<>>)[k] = Absent
      BY ReplayedNone
    <3> QED BY <2>1, <3>1, <3>2 DEF DiskValue, Over
  <2> QED BY <1>1, <2>2, <2>3
<1> QED BY <1>t, <1>l, <1>p, <1>s, <1>m, <1>w, <1>r, <1>d DEF Inv

(***************************************************************************)
(* The database is open: an empty log for an empty write store.            *)
(***************************************************************************)
LEMMA NewWriteAheadLogStep ==
  ASSUME Inv, NewWriteAheadLog
  PROVE  Inv' /\ OnlyWritesChange
<1>1. /\ phase \in {"clean", "cleaning"} /\ DOMAIN wal = {} /\ phase' = "up"
      /\ wal' = With(wal, 0, <<>>) /\ walNum' = 0 /\ fl' = FlusherAt("idle")
      /\ cp' = (IF EnableCompactions THEN CompactorAt("idle") ELSE cp) /\ dbLock' = "free"
      /\ UNCHANGED <<sst, cdir, toRemove, writeStore, readStore, generation, readers,
                     opens, readLocks, mgrLock, op, mutations>>
  BY DEF NewWriteAheadLog, LifeFrame, stores
<1>2. /\ \A c \in Clients : op[c].pc = "idle"
      /\ readLocks = {} /\ mgrLock = "free" /\ fl.pc = "off" /\ cp.pc = "off"
      /\ ~Flushing /\ ~WalPending /\ ~SendPending
  BY <1>1, NobodyElse DEF Running
<1>3. ~cdir.flag /\ toRemove = {}
  BY <1>1, <1>2 DEF Inv, PhaseInv, Merged
<1>4. DOMAIN wal' = {0} /\ wal'[0] = <<>>
  BY <1>1 DEF With
<1>5. /\ fl'.pc = "idle" /\ ~Flushing' /\ ~WalPending' /\ ~SendPending'
  BY <1>1, <1>2 DEF FlusherAt, Flushing, WalPending, SendPending, Stages
<1>6. /\ cp'.pc \in {"off", "idle"} /\ cp'.paths \subseteq Nat /\ cp'.left \subseteq Nat
      /\ FiniteNumbers(cp'.paths) /\ FiniteNumbers(cp'.left)
      /\ cp' = [pc |-> cp'.pc, paths |-> cp'.paths, left |-> cp'.left]
  <2>1. CASE EnableCompactions
    BY <1>1, <2>1, NoNumbers DEF CompactorAt
  <2>2. CASE ~EnableCompactions
    BY <1>1, <1>2, <2>2 DEF Inv, TypeOK, CompactorOK
  <2> QED BY <2>1, <2>2
<1>t. TypeOK'
  <2>1. NumberedBy(wal', LogFile)
    <3>1. NumberedBy(wal, LogFile) /\ <<>> \in LogFile
      BY NewLogFile DEF Inv, TypeOK, WalOK
    <3> QED BY <1>1, <3>1, WithNumbered, Zenon
  <2>2. NumberedBy(wal, LogFile)'
    BY <2>1
  <2>3. fl' \in [pc : Stages \cup {"off", "idle", "received", "removed"},
                mem : Memstore, wal : Nat \cup {NoWal}, gen : Nat]
    BY <1>1 DEF FlusherAt, EmptyStore, Memstore, MemCell
  <2> QED BY <1>1, <1>6, <2>2, <2>3, TypeFrame, Zenon
             DEF Inv, TypeOK, WalOK, MemoryOK, CallsOK, FlusherOK, CompactorOK, Phases
<1>l. LockInv'
  <2>1. \A c \in Clients : c # "free"
    BY ClientsAssumption
  <2> QED BY <1>1, <1>2, <1>6, <2>1 DEF LockInv
<1>p. PhaseInv'
  BY <1>1, <1>3, <1>5 DEF PhaseInv, Running, Loaded
<1>c. CompactorInv' /\ MergeKeepsAll' /\ Reflecting' = {}
  BY <1>6, NoCompactor
<1>s. TableInv' /\ ReaderInv'
  <2>1. TableInv'
    BY <1>1, <1>2, <1>5 DEF Inv, PhaseInv, TableInv, Loaded
  <2>2. Reflecting = {}
    BY <1>2 DEF Reflecting
  <2>3. ReaderInv'
    BY <1>1, <1>2, <1>c, <2>2 DEF Inv, ReaderInv, Loaded
  <2> QED BY <2>1, <2>3
<1>m. MergeInv' /\ FinishInv'
  BY <1>1, <1>3 DEF MergeInv, FinishInv
<1>w. CurrentInv' /\ PendingInv' /\ SendInv' /\ LockstepInv' /\ ReplayInv' /\ GetInv'
  <2>1. CurrentInv'
    <3>1. \A k \in Keys : CurrentFile(k)'
      <4>1. \A k \in Keys : writeStore'[k] = Absent
        BY <1>1 DEF Inv, ReadStoreInv, EmptyStore
      <4>2. \A k \in Keys : FileCell(wal'[walNum'], k) = Absent
        BY <1>4
      <4>3. \A k \in Keys, c \in Clients : ~Logged(c, k)'
        BY <1>1, <1>2 DEF Logged
      <4> QED BY <4>1, <4>2, <4>3 DEF CurrentFile
    <3>2. mutations' \in Nat /\ Len(wal'[walNum']) = 0
      BY <1>4 DEF TablesOK
    <3>3. walNum' = 0
      BY <1>1
    <3>4. walNum' \in DOMAIN wal' /\ Len(wal'[walNum']) <= mutations'
      BY <1>4, <3>3
    <3>5. \A n \in DOMAIN wal' : n <= walNum'
      BY <1>4, <3>3
    <3> QED BY <3>1, <3>4, <3>5 DEF CurrentInv
  <2>2. LockstepInv'
    BY <1>4
  <2>3. ReplayInv' /\ PendingInv'
    BY <1>1, <1>5 DEF ReplayInv, PendingInv
  <2>4. SendInv' /\ GetInv'
    BY <1>1, <1>2, <1>5 DEF SendInv, GetInv
  <2> QED BY <2>1, <2>2, <2>3, <2>4
<1>r. ReadStoreInv'
  BY <1>1, <1>2, <1>5 DEF Inv, ReadStoreInv
<1>d. OnlyWritesChange
  <2> SUFFICES ASSUME NEW k \in Keys PROVE UNCHANGED DiskValue(k)
    BY DEF OnlyWritesChange
  <2>1. FinishedTables = sst /\ FinishedTables' = sst
    <3>1. toRemove = {} /\ ~CompactionCounts /\ ~CompactionCounts'
      BY <1>1, <1>3 DEF Inv, PhaseInv, CompactionCounts
    <3>2. FinishedTables = sst
      BY <3>1, FinishedPlain DEF Inv, TypeOK, TablesOK
    <3> QED BY <1>1, <3>1, <3>2 DEF FinishedTables
  <2>2. Replayed(LogFiles)[k] = Absent
    <3>1. DOMAIN LogFiles = {}
      BY <1>1 DEF LogFiles
    <3> QED BY <3>1, ReplayedNone
  <2>3. Replayed(LogFiles')[k] = Absent
    <3>1. LogFiles' = wal'
      BY <1>1 DEF LogFiles
    <3> QED BY <1>4, <3>1, FileCellEmpty, ReplayedNone
  <2> QED BY <2>1, <2>2, <2>3 DEF DiskValue
<1> QED BY <1>t, <1>l, <1>p, <1>c, <1>s, <1>m, <1>w, <1>r, <1>d DEF Inv
=============================================================================
