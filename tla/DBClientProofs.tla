--------------------------- MODULE DBClientProofs ---------------------------
(***************************************************************************)
(* The calls of clients, and Close as far as the flusher and the compactor *)
(* still run: they keep Inv, and only the WAL record of a write changes a  *)
(* value.                                                                  *)
(***************************************************************************)
EXTENDS DBLemmas, DBClients, DBLifecycle

(***************************************************************************)
(* PutBytes and DeleteBytes log their record in the current file, which    *)
(* always has room for it.  From then on the directory has the new value.  *)
(***************************************************************************)
LEMMA WriteAheadStep ==
  ASSUME Inv, NEW c \in Writers, NEW kind \in {"put", "delete"}, NEW k \in Keys,
         NEW cell \in Values \cup {Tombstone}, WriteAhead(c, kind, k, cell),
         kind = "delete" => cell = Tombstone
  PROVE  Inv' /\ OnlyWritesChange /\ DiskValue(k)' = ValueOf(cell)
<1> DEFINE m == [key |-> k, cell |-> cell]
           file == Append(wal[walNum], m)
<1>1. m \in Mutation /\ c \in Clients
  BY DEF Mutation, Clients
<1>2. walNum \in DOMAIN wal /\ walNum \in Nat /\ wal[walNum] \in LogFile
  BY Zenon DEF Inv, WriteAhead, CurrentInv, HasLog, TypeOK, WalOK, NumberedBy
<1>3. wal' = With(wal, walNum, file) /\ walNum' = walNum
  <2>1. Len(wal[walNum]) + 1 <= MaxWalFileRecords
    <3>1. Len(wal[walNum]) <= mutations /\ mutations < MaxMutations
      BY DEF Inv, WriteAhead, CurrentInv, HasLog
    <3>2. Len(wal[walNum]) \in Nat /\ mutations \in Nat
      BY DEF Inv, TypeOK, MemoryOK
    <3> QED BY <3>1, <3>2, NoSizeRotation, BoundsAssumption, OptionsAssumption
  <2>2. Len(wal[walNum]) \in Nat
    OBVIOUS
  <2> QED BY <2>1, OptionsAssumption DEF WriteAhead, AppendRecord
<1>4. file \in LogFile /\ Len(file) = Len(wal[walNum]) + 1
  BY <1>1, <1>2, LongerLogFile
<1> HIDE DEF m, file
<1>5. /\ DOMAIN wal' = DOMAIN wal /\ wal'[walNum] = file
      /\ \A n \in DOMAIN wal : n # walNum => wal'[n] = wal[n]
  BY <1>2, <1>3, Zenon DEF With
<1>6. op' = [op EXCEPT ![c] = [pc |-> kind, key |-> k, cell |-> cell]]
  BY DEF WriteAhead
<1>7. /\ op'[c].pc = kind /\ op'[c].key = k /\ op'[c].cell = cell
      /\ \A d \in Clients \ {c} : op'[d] = op[d]
  BY <1>1, <1>6 DEF Inv, TypeOK, CallsOK
<1>8. op[c].pc = "idle" /\ dbLock = "free" /\ readLocks = {} /\ phase = "up"
  BY DEF WriteAhead, CanLock
<1>9. \A j \in Keys : FileCell(file, j) = IF j = k THEN cell ELSE FileCell(wal[walNum], j)
  BY <1>1, <1>2, FileCellAppend DEF file, m
<1>10. \A d \in Clients : op[d].pc \notin {"put", "delete", "send"}
  BY <1>8, ClientsAssumption DEF Inv, LockInv
<1>t. TypeOK'
  <2>1. NumberedBy(wal', LogFile)
    BY <1>2, <1>3, <1>4, WithNumbered DEF Inv, TypeOK, WalOK
  <2>2. op' \in [Clients -> [pc : {"idle", "put", "delete", "send", "get"},
                         key : Keys \cup {NoKey}, cell : Cell]]
    BY <1>1, <1>6 DEF Inv, TypeOK, CallsOK, Cell, MemCell
  <2>3. mutations' \in 0..MaxMutations
    BY BoundsAssumption DEF Inv, TypeOK, MemoryOK, WriteAhead
  <2> QED BY <2>1, <2>2, <2>3, <1>1, <1>3, TypeFrame, Zenon
             DEF Inv, TypeOK, WalOK, MemoryOK, CallsOK, WriteAhead, stores
<1>l. LockInv'
  <2>1. dbLock' = c /\ UNCHANGED <<phase, readLocks, mgrLock, cp>> /\ LockInv
    BY DEF Inv, WriteAhead
  <2>2. c \notin {"free", "opener", "closer", "compactor"}
    BY <1>1, ClientsAssumption
  <2>3. ASSUME NEW d \in Clients
        PROVE  /\ op'[d].pc \in {"put", "delete", "send"} <=> d = c
               /\ op'[d].pc = "get" <=> d \in readLocks
               /\ op'[d].pc # "idle" => op'[d].key \in Keys
               /\ op'[d].pc \in {"put", "delete"} => op'[d].cell \in Values \cup {Tombstone}
               /\ op'[d].pc = "delete" => op'[d].cell = Tombstone
    <3>1. CASE d = c
      BY <1>7, <1>8, <3>1
    <3>2. CASE d # c
      BY <1>7, <1>10, <2>1, <3>2 DEF LockInv
    <3> QED BY <3>1, <3>2
  <2> QED BY <1>8, <2>1, <2>2, <2>3 DEF LockInv
<1>p. PhaseInv'
  BY DEF Inv, PhaseInv, WriteAhead
<1>s. TableInv' /\ ReaderInv' /\ CompactorInv'
  BY TableFrame DEF Inv, WriteAhead, Flushing
<1>m. MergeInv' /\ MergeKeepsAll' /\ FinishInv'
  BY MergeFrame DEF Inv, WriteAhead
<1>11. ~SendPending /\ ~SendPending' /\ HasLog /\ HasLog' /\ (WalPending' <=> WalPending)
  BY <1>10 DEF SendPending, WriteAhead, HasLog, WalPending
<1>c. CurrentInv'
  <2>1. \A j \in Keys : CurrentFile(j)'
    <3> SUFFICES ASSUME NEW j \in Keys PROVE CurrentFile(j)'
      OBVIOUS
    <3>1. FileCell(wal[walNum], j) = writeStore[j]
      BY <1>11, <1>10 DEF Inv, CurrentInv, CurrentFile, Logged
    <3>2. \A d \in Clients : Logged(d, j)' <=> d = c /\ j = k
      BY <1>7, <1>10 DEF Logged
    <3> QED BY <1>1, <1>3, <1>5, <1>7, <1>9, <3>1, <3>2 DEF CurrentFile, WriteAhead, stores
  <2>2. Len(file) <= mutations'
    <3>1. Len(wal[walNum]) <= mutations /\ Len(wal[walNum]) \in Nat
      BY <1>11 DEF Inv, CurrentInv
    <3> QED BY <1>4, <3>1 DEF WriteAhead, Inv, TypeOK, MemoryOK
  <2> QED BY <1>3, <1>5, <1>11, <2>1, <2>2 DEF Inv, CurrentInv
<1>w. PendingInv'
  <2>1. WalPending => fl.wal \in DOMAIN wal /\ fl.wal < walNum /\ fl.wal # walNum
    BY <1>2, <1>11 DEF Inv, PendingInv
  <2> QED BY <1>3, <1>5, <1>11, <2>1 DEF Inv, PendingInv, WriteAhead
<1>n. SendInv' /\ LockstepInv' /\ ReplayInv'
  BY <1>3, <1>5, <1>7, <1>10, <1>11, Zenon
     DEF Inv, SendInv, LockstepInv, ReplayInv, WriteAhead
<1>r. ReadStoreInv'
  BY DEF Inv, ReadStoreInv, WriteAhead, SendPending, stores
<1>g. GetInv'
  BY DEF Inv, GetInv, WriteAhead, MemValue, stores
<1>20. DOMAIN wal \in SUBSET Nat /\ FiniteNumbers(DOMAIN wal)
  BY DEF Inv, TypeOK, WalOK, NumberedBy
<1>21. LogFiles = wal /\ LogFiles' = wal'
  BY DEF LogFiles, WriteAhead
<1>22. DiskValue(k)' = ValueOf(cell)
  <2>1. \A n \in DOMAIN wal' : ~(n > walNum)
    BY <1>5, <1>11 DEF Inv, CurrentInv
  <2>2. Replayed(wal')[k] = FileCell(wal'[walNum], k)
    <3>1. DOMAIN wal' \in SUBSET Nat /\ walNum \in DOMAIN wal'
      BY <1>2, <1>5, <1>20
    <3>2. FileCell(wal'[walNum], k) # Absent
      BY <1>5, <1>9, CellAssumption
    <3> QED BY <2>1, <3>1, <3>2, ReplayedAt, Zenon
  <2> QED BY <1>5, <1>9, <1>21, <2>2, CellAssumption DEF DiskValue, Over
<1>d. OnlyWritesChange
  <2> SUFFICES ASSUME NEW j \in Keys PROVE UNCHANGED DiskValue(j) \/ Written(j)
    BY DEF OnlyWritesChange
  <2>1. CASE j = k
    BY <1>1, <1>7, <1>8, <1>22, <2>1 DEF Written
  <2>2. CASE j # k
    <3>1. \A n \in DOMAIN wal : FileCell(wal'[n], j) = FileCell(wal[n], j)
      BY <1>5, <1>9, <2>2
    <3>2. Replayed(wal)[j] = Replayed(wal')[j]
      BY <1>5, <1>20, <3>1, ReplayedSame
    <3>3. FinishedTables' = FinishedTables
      BY DEF FinishedTables, CompactionCounts, WriteAhead
    <3> QED BY <1>21, <3>2, <3>3 DEF DiskValue
  <2> QED BY <2>1, <2>2
<1> QED BY <1>t, <1>l, <1>p, <1>s, <1>m, <1>c, <1>w, <1>n, <1>r, <1>g, <1>22, <1>d DEF Inv

(***************************************************************************)
(* A call in its second half holds the write lock alone.                   *)
(***************************************************************************)
LEMMA WriterAlone ==
  ASSUME Inv, NEW c \in Clients, op[c].pc \in {"put", "delete", "send"}
  PROVE  /\ phase = "up" /\ dbLock = c /\ readLocks = {}
         /\ c # "free" /\ c # "opener" /\ c # "closer" /\ c # "compactor"
         /\ \A d \in Clients \ {c} : op[d].pc = "idle"
         /\ cp.pc \notin {"locked", "removing", "renamed"} /\ mgrLock = "free"
<1>1. /\ dbLock = c /\ phase = "up"
      /\ c # "free" /\ c # "opener" /\ c # "closer" /\ c # "compactor"
  BY ClientsAssumption DEF Inv, LockInv
<1>2. readLocks = {}
  BY <1>1 DEF Inv, LockInv
<1>3. \A d \in Clients \ {c} : op[d].pc = "idle"
  BY <1>2 DEF Inv, LockInv, TypeOK, CallsOK
<1>4. cp.pc \notin {"locked", "removing", "renamed"} /\ mgrLock = "free"
  BY <1>1 DEF Inv, LockInv, TypeOK, CallsOK
<1> QED BY <1>1, <1>2, <1>3, <1>4

(***************************************************************************)
(* The upsert below the limit, and every delete: the write store catches   *)
(* up with the current WAL file.                                           *)
(***************************************************************************)
StoreChange(c) ==
  /\ op[c].pc \in {"put", "delete"}
  /\ writeStore' = [writeStore EXCEPT ![op[c].key] = op[c].cell]
  /\ Unlocked(c, Absent)
  /\ UNCHANGED <<sst, cdir, wal, phase, toRemove, walNum, readStore, generation,
                 readers, readLocks, mgrLock, fl, cp, mutations, opens>>

(***************************************************************************)
(* Any step that only moves a logged cell into the write store, as StoreChange *)
(* says, keeps Inv and the value of every key on disk.                     *)
(***************************************************************************)
LEMMA StoreStep ==
  ASSUME Inv, NEW c \in Clients, StoreChange(c)
  PROVE  Inv' /\ OnlyWritesChange
<1> DEFINE k == op[c].key
<1>0. op[c].pc \in {"put", "delete"}
  BY DEF StoreChange
<1>f. UNCHANGED <<sst, cdir, wal, phase, toRemove, walNum, readStore, generation,
                  readers, readLocks, mgrLock, fl, cp, mutations, opens>>
  BY DEF StoreChange
<1>1. /\ phase = "up" /\ dbLock = c /\ readLocks = {}
      /\ c # "free" /\ c # "opener" /\ c # "closer" /\ c # "compactor"
      /\ \A d \in Clients \ {c} : op[d].pc = "idle"
      /\ cp.pc \notin {"locked", "removing", "renamed"} /\ mgrLock = "free"
  BY <1>0, WriterAlone
<1>2. k \in Keys /\ op[c].cell \in Values \cup {Tombstone}
  BY <1>0 DEF Inv, LockInv
<1>3. /\ op'[c] = Idle(Absent) /\ op'[c].pc = "idle" /\ dbLock' = "free"
      /\ \A d \in Clients \ {c} : op'[d] = op[d]
  BY DEF StoreChange, Inv, TypeOK, CallsOK, Unlocked, Idle
<1>4. \A d \in Clients : op'[d].pc = "idle"
  BY <1>1, <1>3
<1>5. \A j \in Keys : writeStore'[j] = IF j = k THEN op[c].cell ELSE writeStore[j]
  BY DEF StoreChange, Inv, TypeOK, MemoryOK, Memstore
<1>t. TypeOK'
  <2>1. op' \in [Clients -> [pc : {"idle", "put", "delete", "send", "get"},
                         key : Keys \cup {NoKey}, cell : Cell]]
    BY DEF StoreChange, Inv, TypeOK, CallsOK, Unlocked, Idle, Cell, MemCell
  <2>2. writeStore' \in Memstore
    BY <1>2 DEF StoreChange, Inv, TypeOK, MemoryOK, Memstore, MemCell
  <2>3. TypeOK
    BY DEF Inv
  <2> QED BY <1>3, <1>f, <2>1, <2>2, <2>3, TypeFrame DEF TypeOK, MemoryOK, CallsOK
<1>l. LockInv'
  BY <1>1, <1>3, <1>f, ClientsAssumption DEF LockInv
<1>p. PhaseInv'
  BY <1>f DEF Inv, PhaseInv
<1>s. TableInv' /\ ReaderInv' /\ CompactorInv'
  BY <1>f, TableFrame DEF Inv, Flushing
<1>m. MergeInv' /\ MergeKeepsAll' /\ FinishInv'
  BY <1>f, MergeFrame DEF Inv
<1>6. ~SendPending /\ ~SendPending'
  BY <1>0, <1>1, <1>4, <1>f, Zenon DEF SendPending
<1>c. CurrentInv'
  <2>1. \A j \in Keys : CurrentFile(j) => CurrentFile(j)'
    <3> SUFFICES ASSUME NEW j \in Keys, CurrentFile(j) PROVE CurrentFile(j)'
      OBVIOUS
    <3>2. \A d \in Clients : (Logged(d, j) <=> d = c /\ j = k) /\ ~Logged(d, j)'
      BY <1>0, <1>1, <1>4 DEF Logged
    <3> QED BY <1>5, <1>f, <3>2, Zenon DEF CurrentFile
  <2> QED BY <1>f, <2>1 DEF Inv, CurrentInv, HasLog
<1>w. PendingInv' /\ ReplayInv'
  BY <1>f DEF Inv, PendingInv, ReplayInv, HasLog, WalPending
<1>n. SendInv' /\ LockstepInv'
  BY <1>4, <1>6, <1>f DEF Inv, SendInv, LockstepInv, WalPending
<1>r. ReadStoreInv'
  BY <1>1, <1>6, <1>f DEF Inv, ReadStoreInv
<1>g. GetInv'
  BY <1>4 DEF GetInv
<1>d. OnlyWritesChange
  BY <1>f, ValueFrame
<1> QED BY <1>t, <1>l, <1>p, <1>s, <1>m, <1>c, <1>w, <1>n, <1>r, <1>g, <1>d DEF Inv

(***************************************************************************)
(* DeleteBytes: the tombstone reaches the write store after the WAL.       *)
(***************************************************************************)
LEMMA DeleteStep ==
  ASSUME Inv, NEW c \in Clients, Delete(c)
  PROVE  Inv' /\ OnlyWritesChange
<1>1. op[c].pc = "delete" /\ op[c].cell = Tombstone
  BY DEF Delete, Inv, LockInv
<1>2. /\ writeStore' = [writeStore EXCEPT ![op[c].key] = Tombstone] /\ Unlocked(c, Absent)
      /\ UNCHANGED <<sst, cdir, wal, phase, toRemove, walNum, readStore, generation,
                     readers, readLocks, mgrLock, fl, cp, mutations, opens>>
  BY DEF Delete, disk, bounds
<1> QED BY <1>1, <1>2, StoreStep, Zenon DEF StoreChange

(***************************************************************************)
(* The upsert over the limit: the current file and the write store move on *)
(* together.                                                               *)
(***************************************************************************)
LEMMA UpsertStep ==
  ASSUME Inv, NEW c \in Clients, Upsert(c)
  PROVE  Inv' /\ OnlyWritesChange
<1> DEFINE k == op[c].key
           store == [writeStore EXCEPT ![k] = op[c].cell]
<1>0. op[c].pc = "put"
  BY DEF Upsert
<1>1. /\ phase = "up" /\ dbLock = c /\ readLocks = {}
      /\ c # "free" /\ c # "opener" /\ c # "closer" /\ c # "compactor"
      /\ \A d \in Clients \ {c} : op[d].pc = "idle"
      /\ cp.pc \notin {"locked", "removing", "renamed"} /\ mgrLock = "free"
  BY <1>0, WriterAlone
<1>2. k \in Keys /\ op[c].cell \in Values \cup {Tombstone}
  BY <1>0 DEF Inv, LockInv
<1>3. CASE ~(EstimatedSizeInBytes(store) > MemstoreMaxSize)
  <2>1. /\ writeStore' = store /\ Unlocked(c, Absent)
        /\ UNCHANGED <<sst, cdir, wal, phase, toRemove, walNum, readStore, generation,
                        readers, readLocks, mgrLock, fl, cp, mutations, opens>>
    BY <1>3 DEF Upsert, bounds
  <2> QED BY <1>0, <2>1, StoreStep, Zenon DEF StoreChange
<1>4. CASE EstimatedSizeInBytes(store) > MemstoreMaxSize
  <2>1. /\ wal' = With(wal, walNum + 1, <<>>) /\ walNum' = walNum + 1
        /\ readStore' = store /\ writeStore' = EmptyStore
        /\ op' = [op EXCEPT ![c].pc = "send"] /\ UNCHANGED dbLock
    BY <1>4 DEF Upsert, Rotate
  <2>f. UNCHANGED <<sst, cdir, phase, toRemove, generation, readers, readLocks,
                    mgrLock, fl, cp, mutations, opens>>
    BY DEF Upsert, bounds
  <2>2. walNum \in DOMAIN wal /\ walNum \in Nat /\ DOMAIN wal \in SUBSET Nat
    BY <1>1 DEF Inv, CurrentInv, HasLog, TypeOK, WalOK, NumberedBy
  <2>3. /\ DOMAIN wal' = DOMAIN wal \cup {walNum + 1} /\ wal'[walNum + 1] = <<>>
        /\ \A n \in DOMAIN wal : n # walNum + 1 /\ wal'[n] = wal[n]
    <3>1. \A n \in DOMAIN wal : n # walNum + 1
      BY <1>1 DEF Inv, CurrentInv, HasLog
    <3> QED BY <2>1, <3>1 DEF With
  <2>4. /\ op'[c] = [pc |-> "send", key |-> k, cell |-> op[c].cell]
        /\ op'[c].pc = "send" /\ op'[c].key = k
        /\ \A d \in Clients \ {c} : op'[d] = op[d] /\ op'[d].pc = "idle"
    BY <1>1, <2>1 DEF Inv, TypeOK, CallsOK
  <2>5. store \in Memstore /\ \A j \in Keys : store[j] = IF j = k THEN op[c].cell ELSE writeStore[j]
    BY <1>2 DEF Inv, TypeOK, MemoryOK, Memstore, MemCell
  <2> HIDE DEF store
  <2>6. \A j \in Keys : store[j] = FileCell(wal[walNum], j)
    <3> SUFFICES ASSUME NEW j \in Keys PROVE store[j] = FileCell(wal[walNum], j)
      OBVIOUS
    <3>1. CurrentFile(j)
      BY <1>1 DEF Inv, CurrentInv, HasLog
    <3>2. \A d \in Clients : Logged(d, j) <=> d = c /\ j = k
      BY <1>0, <1>1 DEF Logged
    <3> QED BY <2>5, <3>1, <3>2 DEF CurrentFile
  <2>7. store # EmptyStore
    BY <1>2, <2>5, CellAssumption DEF EmptyStore
  <2>8. SendPending' /\ ~SendPending
    BY <1>0, <1>1, <2>4 DEF SendPending
  <2>t. TypeOK'
    <3>1. NumberedBy(wal', LogFile)
      <4>1. <<>> \in LogFile /\ walNum + 1 \in Nat
        BY <2>2, NewLogFile
      <4>2. NumberedBy(wal, LogFile)
        BY DEF Inv, TypeOK, WalOK
      <4> QED BY <2>1, <4>1, <4>2, WithNumbered, Zenon
    <3>2. op' \in [Clients -> [pc : {"idle", "put", "delete", "send", "get"},
                           key : Keys \cup {NoKey}, cell : Cell]]
      BY <2>1 DEF Inv, TypeOK, MemoryOK, CallsOK, FlusherOK
    <3>3. EmptyStore \in Memstore
      BY DEF EmptyStore, Memstore, MemCell
    <3> QED BY <2>1, <2>f, <2>2, <2>5, <3>1, <3>3, TypeFrame
               DEF Inv, TypeOK, WalOK, MemoryOK, CallsOK
  <2>l. LockInv'
    BY <1>1, <2>1, <2>f DEF Inv, LockInv
  <2>p. PhaseInv'
    BY <2>f DEF Inv, PhaseInv
  <2>s. TableInv' /\ ReaderInv' /\ CompactorInv'
    BY <2>f, TableFrame DEF Inv, Flushing
  <2>m. MergeInv' /\ MergeKeepsAll' /\ FinishInv'
    BY <2>f, MergeFrame DEF Inv
  <2>9. HasLog /\ HasLog' /\ (WalPending' <=> WalPending)
    BY <1>1, <2>f DEF HasLog, WalPending
  <2>c. CurrentInv'
    <3>1. \A j \in Keys : CurrentFile(j)'
      <4>1. \A j \in Keys : writeStore'[j] = Absent /\ FileCell(wal'[walNum'], j) = Absent
        BY <2>1, <2>3, FileCellEmpty DEF EmptyStore
      <4>2. \A j \in Keys, d \in Clients : ~Logged(d, j)'
        BY <2>4 DEF Logged
      <4> QED BY <4>1, <4>2 DEF CurrentFile
    <3>2. Len(wal'[walNum']) <= mutations'
      BY <2>1, <2>3, <2>f DEF Inv, TypeOK, MemoryOK
    <3>3. \A n \in DOMAIN wal' : n <= walNum'
      BY <2>1, <2>2, <2>3 DEF Inv, CurrentInv
    <3> QED BY <2>1, <2>3, <3>1, <3>2, <3>3 DEF CurrentInv
  <2>w. PendingInv' /\ ReplayInv'
    <3>1. WalPending => fl.wal \in DOMAIN wal /\ fl.wal < walNum
      BY <2>9 DEF Inv, PendingInv
    <3>2. WalPending => fl.wal < walNum + 1 /\ fl.wal <= walNum + 1
      BY <2>2, <3>1
    <3> QED BY <1>1, <2>1, <2>3, <2>9, <2>f, <3>2 DEF Inv, PendingInv, ReplayInv
  <2>n. SendInv' /\ LockstepInv'
    <3>1. walNum' - 1 = walNum /\ walNum' - 1 \in DOMAIN wal' /\ wal'[walNum] = wal[walNum]
      BY <2>1, <2>2, <2>3
    <3>2. WalPending => fl.wal < walNum
      BY <2>9 DEF Inv, PendingInv
    <3>3. SendInv'
      BY <2>1, <2>6, <2>7, <2>9, <2>f, <3>1, <3>2 DEF SendInv
    <3>4. LockstepInv'
      BY <2>1, <2>3, <2>8, <2>9, <2>f DEF Inv, LockstepInv
    <3> QED BY <3>3, <3>4
  <2>r. ReadStoreInv'
    BY <1>1, <2>8, <2>f DEF ReadStoreInv
  <2>g. GetInv'
    BY <2>4 DEF GetInv
  <2>d. OnlyWritesChange
    <3> SUFFICES ASSUME NEW j \in Keys PROVE UNCHANGED DiskValue(j)
      BY DEF OnlyWritesChange
    <3>0. DOMAIN wal \in SUBSET Nat /\ FiniteNumbers(DOMAIN wal)
      BY DEF Inv, TypeOK, WalOK, NumberedBy
    <3>1. Replayed(wal)[j] = Replayed(wal')[j]
      <4>1. \A n \in DOMAIN wal : n \in DOMAIN wal' /\ FileCell(wal'[n], j) = FileCell(wal[n], j)
        BY <2>3
      <4>2. \A n \in DOMAIN wal' : FileCell(wal'[n], j) # Absent => n \in DOMAIN wal
        BY <2>3, FileCellEmpty
      <4> QED BY <3>0, <4>1, <4>2, ReplayedSame
    <3> QED BY <2>f, <3>1 DEF DiskValue, LogFiles, FinishedTables, CompactionCounts
  <2> QED BY <2>t, <2>l, <2>p, <2>s, <2>m, <2>c, <2>w, <2>n, <2>r, <2>g, <2>d DEF Inv
<1> QED BY <1>3, <1>4

(***************************************************************************)
(* The flusher takes over the read store and the file that belongs to it.  *)
(***************************************************************************)
LEMMA SendStep ==
  ASSUME Inv, NEW c \in Clients, Send(c)
  PROVE  Inv' /\ OnlyWritesChange
<1>0. op[c].pc = "send" /\ fl.pc = "idle" /\ dbLock' = "free"
  BY DEF Send, FlushAction, Unlocked
<1>f. UNCHANGED <<sst, cdir, wal, phase, toRemove, walNum, writeStore, readStore,
                  generation, readers, readLocks, mgrLock, cp, mutations, opens>>
  BY DEF Send, disk, stores, bounds
<1>1. /\ phase = "up" /\ dbLock = c /\ readLocks = {}
      /\ c # "free" /\ c # "opener" /\ c # "closer" /\ c # "compactor"
      /\ \A d \in Clients \ {c} : op[d].pc = "idle"
      /\ cp.pc \notin {"locked", "removing", "renamed"} /\ mgrLock = "free"
  BY <1>0, WriterAlone
<1>2. /\ op'[c] = Idle(Absent)
      /\ \A d \in Clients : op'[d].pc = "idle"
  BY <1>1 DEF Inv, TypeOK, CallsOK, Send, Unlocked, Idle
<1>3. /\ fl' = [pc |-> "received", mem |-> readStore, wal |-> walNum - 1, gen |-> 0]
      /\ fl'.pc = "received" /\ fl'.mem = readStore /\ fl'.wal = walNum - 1
  BY DEF Send, FlushAction
<1>4. SendPending /\ ~SendPending' /\ ~WalPending /\ WalPending' /\ ~Flushing /\ ~Flushing'
  BY <1>0, <1>1, <1>2, <1>3, <1>f DEF SendPending, WalPending, Flushing, Stages
<1>5. walNum - 1 \in DOMAIN wal /\ walNum - 1 \in Nat /\ walNum \in Nat
  BY <1>1, <1>4 DEF Inv, SendInv, CurrentInv, HasLog, TypeOK, WalOK, NumberedBy
<1>t. TypeOK'
  <2>1. op' \in [Clients -> [pc : {"idle", "put", "delete", "send", "get"},
                         key : Keys \cup {NoKey}, cell : Cell]]
    BY DEF Inv, TypeOK, CallsOK, Send, Unlocked, Idle, Cell, MemCell
  <2>2. fl' \in [pc : Stages \cup {"off", "idle", "received", "removed"},
                 mem : Memstore, wal : Nat \cup {NoWal}, gen : Nat]
    BY <1>3, <1>5 DEF Inv, TypeOK, MemoryOK
  <2> QED BY <1>0, <1>f, <2>1, <2>2, TypeFrame, Zenon
             DEF Inv, TypeOK, CallsOK, FlusherOK, CompactorOK
<1>l. LockInv'
  BY <1>0, <1>1, <1>2, <1>f, ClientsAssumption DEF LockInv
<1>p. PhaseInv'
  BY <1>1, <1>3, <1>f DEF Inv, PhaseInv
<1>s. TableInv' /\ ReaderInv' /\ CompactorInv'
  BY <1>4, <1>f, TableFrame DEF Inv
<1>m. MergeInv' /\ MergeKeepsAll' /\ FinishInv'
  BY <1>f, MergeFrame DEF Inv
<1>c. CurrentInv'
  <2>1. \A d \in Clients, j \in Keys : ~Logged(d, j) /\ ~Logged(d, j)'
    BY <1>0, <1>1, <1>2 DEF Logged
  <2>2. \A j \in Keys : CurrentFile(j) => CurrentFile(j)'
    BY <1>f, <2>1 DEF CurrentFile
  <2> QED BY <1>f, <2>2 DEF Inv, CurrentInv, HasLog
<1>w. PendingInv' /\ ReplayInv'
  <2>1. \A n \in DOMAIN wal : n = walNum \/ n = walNum - 1
    BY <1>1, <1>4 DEF Inv, LockstepInv
  <2>2. \A n \in DOMAIN wal : walNum - 1 <= n
    BY <1>5, <2>1
  <2>3. readStore # EmptyStore /\ \A k \in Keys : readStore[k] = FileCell(wal[walNum - 1], k)
    BY <1>0, <1>4 DEF Inv, SendInv
  <2>4. ReplayInv'
    BY <1>1, <1>f DEF ReplayInv
  <2>5. PendingInv'
    BY <1>3, <1>5, <1>f, <2>2, <2>3 DEF PendingInv
  <2> QED BY <2>4, <2>5
<1>n. SendInv' /\ LockstepInv'
  <2>1. \A n \in DOMAIN wal : n = walNum \/ n = walNum - 1
    BY <1>1, <1>4 DEF Inv, LockstepInv
  <2> QED BY <1>2, <1>3, <1>4, <1>f, <2>1 DEF SendInv, LockstepInv
<1>r. ReadStoreInv'
  BY <1>1, <1>3, <1>f DEF ReadStoreInv
<1>g. GetInv'
  BY <1>2 DEF GetInv
<1>d. OnlyWritesChange
  BY <1>f, ValueFrame
<1> QED BY <1>t, <1>l, <1>p, <1>s, <1>m, <1>c, <1>w, <1>n, <1>r, <1>g, <1>d DEF Inv

(***************************************************************************)
(* The two halves of GetBytes.                                             *)
(***************************************************************************)
ReadChange(c, new) ==
  /\ new \in [pc : {"idle", "get"}, key : Keys \cup {NoKey}, cell : Cell]
  /\ op' = [op EXCEPT ![c] = new] /\ op[c].pc \in {"idle", "get"}
  /\ new.pc = "get" =>
       /\ phase = "up" /\ dbLock = "free" /\ mgrLock = "free"
       /\ new.key \in Keys /\ new.cell = Newest(readers, new.key)
  /\ readLocks' = IF new.pc = "get" THEN readLocks \cup {c} ELSE readLocks \ {c}
  /\ UNCHANGED <<sst, cdir, wal, phase, toRemove, walNum, writeStore, readStore,
                 generation, readers, dbLock, mgrLock, fl, cp, mutations, opens>>

(***************************************************************************)
(* Any step that only moves a reader, as ReadChange says, keeps Inv.       *)
(***************************************************************************)
LEMMA ReadStep ==
  ASSUME Inv, NEW c \in Clients, NEW new, ReadChange(c, new)
  PROVE  Inv' /\ OnlyWritesChange
<1>f. UNCHANGED <<sst, cdir, wal, phase, toRemove, walNum, writeStore, readStore,
                  generation, readers, dbLock, mgrLock, fl, cp, mutations, opens>>
  BY DEF ReadChange
<1>0. /\ op[c].pc \in {"idle", "get"}
      /\ new.pc = "get" =>
           /\ phase = "up" /\ dbLock = "free" /\ mgrLock = "free"
           /\ new.key \in Keys /\ new.cell = Newest(readers, new.key)
      /\ readLocks' = IF new.pc = "get" THEN readLocks \cup {c} ELSE readLocks \ {c}
  BY DEF ReadChange
<1>1. /\ op'[c] = new /\ new.pc \in {"idle", "get"}
      /\ \A d \in Clients \ {c} : op'[d] = op[d]
  BY DEF ReadChange, Inv, TypeOK, CallsOK
<1>2. \A d \in Clients : \A x \in {"put", "delete", "send"} : op'[d].pc = x <=> op[d].pc = x
  BY <1>0, <1>1
<1>3. SendPending' <=> SendPending
  BY <1>2, <1>f DEF SendPending
<1>t. TypeOK'
  <2>1. op' \in [Clients -> [pc : {"idle", "put", "delete", "send", "get"},
                         key : Keys \cup {NoKey}, cell : Cell]]
    BY DEF ReadChange, Inv, TypeOK, CallsOK
  <2>2. TypeOK
    BY DEF Inv
  <2> QED BY <2>1, <2>2, <1>0, <1>f, TypeFrame, Zenon DEF TypeOK, CallsOK
<1>l. LockInv'
  <2>1. readLocks' # {} => dbLock' = "free"
    BY <1>0, <1>f DEF Inv, LockInv
  <2>2. ASSUME NEW d \in Clients
        PROVE  /\ op'[d].pc \in {"put", "delete", "send"} <=> dbLock' = d
               /\ op'[d].pc = "get" <=> d \in readLocks'
               /\ op'[d].pc # "idle" => phase' = "up" /\ op'[d].key \in Keys
               /\ op'[d].pc \in {"put", "delete"} => op'[d].cell \in Values \cup {Tombstone}
               /\ op'[d].pc = "delete" => op'[d].cell = Tombstone
    <3>1. CASE d = c
      BY <1>0, <1>f, <1>1, <3>1, Zenon DEF Inv, LockInv
    <3>2. CASE d # c
      BY <1>0, <1>f, <1>1 DEF Inv, LockInv
    <3> QED BY <3>1, <3>2
  <2> QED BY <1>f, <2>1, <2>2 DEF Inv, LockInv
<1>p. PhaseInv'
  BY <1>f DEF Inv, PhaseInv
<1>s. TableInv' /\ ReaderInv' /\ CompactorInv'
  BY <1>f, TableFrame DEF Inv, Flushing
<1>m. MergeInv' /\ MergeKeepsAll' /\ FinishInv'
  BY <1>f, MergeFrame DEF Inv
<1>c. CurrentInv'
  <2>1. \A d \in Clients, j \in Keys : Logged(d, j)' <=> Logged(d, j)
    BY <1>0, <1>1 DEF Logged
  <2>2. \A d \in Clients, j \in Keys : Logged(d, j) => op'[d].cell = op[d].cell
    BY <1>0, <1>1 DEF Logged
  <2>3. \A j \in Keys : CurrentFile(j) => CurrentFile(j)'
    BY <1>f, <2>1, <2>2 DEF CurrentFile
  <2> QED BY <1>f, <2>3 DEF Inv, CurrentInv, HasLog
<1>w. PendingInv' /\ ReplayInv'
  BY <1>f DEF Inv, PendingInv, ReplayInv, HasLog, WalPending
<1>n. SendInv' /\ LockstepInv'
  BY <1>2, <1>3, <1>f DEF Inv, SendInv, LockstepInv, WalPending
<1>r. ReadStoreInv'
  BY <1>3, <1>f DEF Inv, ReadStoreInv
<1>g. GetInv'
  <2>1. CASE new.pc = "get"
    <3>1. Newest(readers, new.key) # Garbage
      <4>1. NumberedBy(readers, Table) /\ phase \in Loaded /\ mgrLock = "free" /\ new.key \in Keys
        BY <1>0, <2>1 DEF Inv, TypeOK, MemoryOK, Loaded
      <4> QED BY <4>1, ReadersReadable, NewestType
    <3> QED BY <1>0, <1>f, <1>1, <3>1 DEF Inv, GetInv, MemValue
  <2>2. CASE new.pc # "get"
    <3>1. \A d \in Clients : op'[d].pc = "get" => op'[d] = op[d]
      BY <1>1, <2>2
    <3>2. \A j : MemValue(j)' = MemValue(j)
      BY <1>f DEF MemValue
    <3> QED BY <1>f, <3>1, <3>2 DEF Inv, GetInv
  <2> QED BY <2>1, <2>2
<1>d. OnlyWritesChange
  BY <1>f, ValueFrame
<1> QED BY <1>t, <1>l, <1>p, <1>s, <1>m, <1>c, <1>w, <1>n, <1>r, <1>g, <1>d DEF Inv

(***************************************************************************)
(* GetBytes, first half: the answer of the readers satisfies GetInv.       *)
(***************************************************************************)
LEMMA GetSSTableStep ==
  ASSUME Inv, NEW c \in Clients, NEW k \in Keys, GetSSTable(c, k)
  PROVE  Inv' /\ OnlyWritesChange
<1> DEFINE new == [pc |-> "get", key |-> k, cell |-> Newest(readers, k)]
<1>1. Newest(readers, k) \in Cell
  BY NewestType DEF Inv, TypeOK, MemoryOK
<1>2. /\ new \in [pc : {"idle", "get"}, key : Keys \cup {NoKey}, cell : Cell]
      /\ new.pc = "get" /\ new.key = k /\ new.cell = Newest(readers, k)
  BY <1>1
<1>3. op' = [op EXCEPT ![c] = new]
  BY DEF GetSSTable
<1>f. UNCHANGED <<sst, cdir, wal, phase, toRemove, walNum, writeStore, readStore,
                  generation, readers, dbLock, mgrLock, fl, cp, mutations, opens>>
  BY DEF GetSSTable, disk, stores, bounds
<1>4. /\ phase = "up" /\ op[c].pc = "idle" /\ dbLock = "free" /\ mgrLock = "free"
      /\ readLocks' = readLocks \cup {c}
  BY DEF GetSSTable, CanRLock
<1> HIDE DEF new
<1> QED BY <1>f, <1>2, <1>3, <1>4, ReadStep, Zenon DEF ReadChange

(***************************************************************************)
(* GetBytes, second half: the call returns and gives the read lock back.   *)
(***************************************************************************)
LEMMA GetMemstoreStep ==
  ASSUME Inv, NEW c \in Clients, GetMemstore(c)
  PROVE  Inv' /\ OnlyWritesChange
<1> DEFINE reply == GetBytes(op[c].cell, op[c].key)
           new == Idle(reply)
<1>1. op[c].pc = "get" /\ op[c].key \in Keys /\ op[c].cell \in Cell
  BY DEF GetMemstore, Inv, LockInv, TypeOK, CallsOK
<1>2. reply \in Cell
  <2>1. writeStore[op[c].key] \in Cell /\ readStore[op[c].key] \in Cell /\ Absent \in Cell
    BY <1>1 DEF Inv, TypeOK, MemoryOK, Memstore, Cell, MemCell
  <2> QED BY <1>1, <2>1 DEF GetBytes, MemValue, Over, ValueOf
<1>3. /\ new \in [pc : {"idle", "get"}, key : Keys \cup {NoKey}, cell : Cell]
      /\ new.pc = "idle"
  BY <1>2 DEF Idle
<1>4. op' = [op EXCEPT ![c] = new] /\ readLocks' = readLocks \ {c}
  BY DEF GetMemstore
<1>f. UNCHANGED <<sst, cdir, wal, phase, toRemove, walNum, writeStore, readStore,
                  generation, readers, dbLock, mgrLock, fl, cp, mutations, opens>>
  BY DEF GetMemstore, disk, stores, bounds
<1> HIDE DEF new
<1> QED BY <1>f, <1>1, <1>3, <1>4, ReadStep, Zenon DEF ReadChange

(***************************************************************************)
(* All steps of a client.                                                  *)
(***************************************************************************)
LEMMA ClientSteps ==
  ASSUME Inv, NEW c \in Clients, ClientCall(c) \/ ClientStep(c)
  PROVE  Inv' /\ OnlyWritesChange
<1>1. CASE ClientStep(c)
  BY <1>1, UpsertStep, DeleteStep, SendStep, GetMemstoreStep DEF ClientStep
<1>2. ASSUME NEW k \in Keys, NEW v \in Values, c \in Writers, PutBytes(c, k, v)
      PROVE  Inv' /\ OnlyWritesChange
  BY <1>2, WriteAheadStep DEF PutBytes
<1>3. ASSUME NEW k \in Keys, c \in Writers, DeleteBytes(c, k)
      PROVE  Inv' /\ OnlyWritesChange
  BY <1>3, WriteAheadStep DEF DeleteBytes
<1>4. ASSUME NEW k \in Keys, GetSSTable(c, k)
      PROVE  Inv' /\ OnlyWritesChange
  BY <1>4, GetSSTableStep
<1> QED BY <1>1, <1>2, <1>3, <1>4 DEF ClientCall
-----------------------------------------------------------------------------
(***************************************************************************)
(* Close hands the write store over.                                       *)
(***************************************************************************)
LEMMA CloseRotateStep ==
  ASSUME Inv, CloseRotate
  PROVE  Inv' /\ OnlyWritesChange
<1>1. /\ phase = "up" /\ phase' = "closing" /\ dbLock = "free" /\ readLocks = {}
      /\ dbLock' = "closer"
      /\ wal' = With(wal, walNum + 1, <<>>) /\ walNum' = walNum + 1
      /\ readStore' = writeStore /\ writeStore' = EmptyStore
      /\ UNCHANGED <<sst, cdir, toRemove, generation, readers, fl, cp, opens, readLocks,
                     mgrLock, op, mutations>>
  BY DEF CloseRotate, CanLock, Rotate, SwapMemstore, CloseFrame, LifeFrame
<1>2. \A c \in Clients : op[c].pc = "idle"
  <2>1. \A c \in Clients : c # "free"
    BY ClientsAssumption
  <2> QED BY <1>1, <2>1, Zenon DEF Inv, LockInv, TypeOK, CallsOK
<1>3. /\ walNum \in DOMAIN wal /\ walNum \in Nat /\ DOMAIN wal \in SUBSET Nat
      /\ \A n \in DOMAIN wal : n <= walNum
      /\ \A k \in Keys : FileCell(wal[walNum], k) = writeStore[k]
  BY <1>1, <1>2, Zenon
     DEF Inv, CurrentInv, HasLog, CurrentFile, Logged, TypeOK, WalOK, NumberedBy
<1>4. /\ DOMAIN wal' = DOMAIN wal \cup {walNum + 1} /\ wal'[walNum + 1] = <<>>
      /\ walNum + 1 \notin DOMAIN wal /\ \A n \in DOMAIN wal : wal'[n] = wal[n]
  <2>1. walNum + 1 \notin DOMAIN wal
    BY <1>3
  <2> QED BY <1>1, <2>1 DEF With
<1>5. /\ ~SendPending /\ SendPending' /\ (WalPending' <=> WalPending)
      /\ (Flushing' <=> Flushing) /\ HasLog /\ HasLog'
  BY <1>1, <1>2 DEF SendPending, WalPending, Flushing, HasLog
<1>t. TypeOK'
  <2>1. NumberedBy(wal', LogFile)
    <3>1. NumberedBy(wal, LogFile) /\ <<>> \in LogFile /\ walNum + 1 \in Nat
      BY <1>3, NewLogFile DEF Inv, TypeOK, WalOK
    <3> QED BY <1>1, <3>1, WithNumbered, Zenon
  <2>2. NumberedBy(wal, LogFile)'
    BY <2>1
  <2>3. EmptyStore \in Memstore
    BY DEF EmptyStore, Memstore, MemCell
  <2>4. walNum' \in Nat
    BY <1>1, <1>3
  <2> QED BY <1>1, <2>2, <2>3, <2>4, TypeFrame, Zenon
             DEF Inv, TypeOK, WalOK, MemoryOK, CallsOK, Phases
<1>l. LockInv'
  <2>1. \A c \in Clients : c # "closer"
    BY ClientsAssumption
  <2> QED BY <1>1, <1>2, <2>1 DEF Inv, LockInv
<1>p. PhaseInv'
  BY <1>1 DEF Inv, PhaseInv, Running, Loaded
<1>s. TableInv' /\ ReaderInv' /\ CompactorInv'
  BY <1>1, <1>5, TableFrame DEF Inv, Loaded
<1>m. MergeInv' /\ MergeKeepsAll' /\ FinishInv'
  BY <1>1, MergeFrame DEF Inv
<1>w. CurrentInv' /\ PendingInv' /\ SendInv' /\ LockstepInv' /\ ReplayInv' /\ GetInv'
  <2>1. CurrentInv'
    <3>1. \A k \in Keys : CurrentFile(k)'
      <4>1. \A k \in Keys : writeStore'[k] = Absent
        BY <1>1 DEF EmptyStore
      <4>2. \A k \in Keys : FileCell(wal'[walNum'], k) = Absent
        BY <1>1, <1>4, FileCellEmpty
      <4>3. \A k \in Keys, c \in Clients : ~Logged(c, k)'
        BY <1>1, <1>2 DEF Logged
      <4> QED BY <4>1, <4>2, <4>3 DEF CurrentFile
    <3>2. mutations' \in Nat /\ Len(wal'[walNum']) = 0
      BY <1>1, <1>4 DEF Inv, TypeOK, MemoryOK
    <3>3. walNum' = walNum + 1
      BY <1>1
    <3>4. \A n \in DOMAIN wal' : n <= walNum'
      BY <1>3, <1>4, <3>3
    <3>5. walNum' \in DOMAIN wal' /\ Len(wal'[walNum']) <= mutations'
      BY <1>4, <3>2, <3>3
    <3> QED BY <3>1, <3>4, <3>5 DEF CurrentInv
  <2>2. WalPending => /\ fl.wal \in DOMAIN wal /\ fl.wal < walNum /\ fl.mem # EmptyStore
                      /\ \A k \in Keys : fl.mem[k] = FileCell(wal[fl.wal], k)
                      /\ \A n \in DOMAIN wal : fl.wal <= n
    BY <1>1, <1>5 DEF Inv, PendingInv
  <2>3. PendingInv'
    <3> SUFFICES ASSUME WalPending
                 PROVE  /\ fl.wal \in DOMAIN wal' /\ fl.wal < walNum' /\ fl.mem # EmptyStore
                        /\ \A k \in Keys : fl.mem[k] = FileCell(wal'[fl.wal], k)
                        /\ \A n \in DOMAIN wal' : fl.wal <= n
      BY <1>1, <1>5 DEF PendingInv
    <3>1. fl.wal \in Nat
      BY <1>3, <2>2
    <3>2. walNum' = walNum + 1
      BY <1>1
    <3>3. fl.wal \in DOMAIN wal' /\ wal'[fl.wal] = wal[fl.wal]
      BY <1>4, <2>2
    <3>4. fl.wal < walNum' /\ \A n \in DOMAIN wal' : fl.wal <= n
      BY <1>3, <1>4, <2>2, <3>2
    <3> QED BY <2>2, <3>3, <3>4
  <2>4. SendInv'
    <3>1. walNum' - 1 = walNum
      BY <1>1, <1>3
    <3>2. \A c \in Clients : op'[c].pc # "send"
      BY <1>1, <1>2
    <3>3. walNum' - 1 \in DOMAIN wal' /\ wal'[walNum' - 1] = wal[walNum]
      BY <1>3, <1>4, <3>1
    <3>4. WalPending' => fl'.wal < walNum' - 1
      BY <1>1, <1>5, <2>2, <3>1
    <3>5. \A k \in Keys : readStore'[k] = FileCell(wal'[walNum' - 1], k)
      BY <1>1, <1>3, <3>3
    <3> QED BY <3>2, <3>3, <3>4, <3>5 DEF SendInv
  <2>5. LockstepInv'
    <3>1. \A n \in DOMAIN wal : n = walNum \/ (WalPending /\ n = fl.wal)
      BY <1>1, <1>5 DEF Inv, LockstepInv
    <3>2. walNum' - 1 = walNum
      BY <1>1, <1>3
    <3> QED BY <1>1, <1>4, <1>5, <3>1, <3>2 DEF LockstepInv
  <2>6. ReplayInv' /\ GetInv'
    BY <1>1, <1>2 DEF ReplayInv, GetInv
  <2> QED BY <2>1, <2>3, <2>4, <2>5, <2>6
<1>r. ReadStoreInv'
  BY <1>1 DEF ReadStoreInv
<1>d. OnlyWritesChange
  <2> SUFFICES ASSUME NEW k \in Keys PROVE UNCHANGED DiskValue(k)
    BY DEF OnlyWritesChange
  <2>1. LogFiles = wal /\ LogFiles' = wal' /\ FinishedTables' = FinishedTables
    BY <1>1 DEF LogFiles, FinishedTables, CompactionCounts
  <2>2. Replayed(wal)[k] = Replayed(wal')[k]
    <3>1. DOMAIN wal \in SUBSET Nat /\ FiniteNumbers(DOMAIN wal)
      BY DEF Inv, TypeOK, WalOK, NumberedBy
    <3>2. \A n \in DOMAIN wal : FileCell(wal[n], k) # Absent =>
            n \in DOMAIN wal' /\ FileCell(wal'[n], k) = FileCell(wal[n], k)
      BY <1>4
    <3>3. \A n \in DOMAIN wal' : FileCell(wal'[n], k) # Absent =>
            n \in DOMAIN wal /\ FileCell(wal'[n], k) = FileCell(wal[n], k)
      BY <1>4, FileCellEmpty
    <3> QED BY <3>1, <3>2, <3>3, ReplayedSame
  <2> QED BY <2>1, <2>2 DEF DiskValue
<1> QED BY <1>t, <1>l, <1>p, <1>s, <1>m, <1>w, <1>r, <1>d DEF Inv

(***************************************************************************)
(* Close hands the last memstore to the flusher.                           *)
(***************************************************************************)
LEMMA CloseSendStep ==
  ASSUME Inv, CloseSend
  PROVE  Inv' /\ OnlyWritesChange
<1>1. /\ phase = "closing" /\ phase' = "draining" /\ fl.pc = "idle"
      /\ fl' = [pc |-> "received", mem |-> readStore, wal |-> walNum - 1, gen |-> 0]
      /\ UNCHANGED <<sst, cdir, wal, toRemove, walNum, writeStore, readStore, generation,
                     readers, dbLock, cp, opens, readLocks, mgrLock, op, mutations>>
  BY DEF CloseSend, CloseFrame, LifeFrame, stores
<1>2. \A c \in Clients : op[c].pc = "idle"
  BY <1>1 DEF Inv, LockInv
<1>3. /\ SendPending /\ ~SendPending' /\ ~WalPending /\ WalPending' /\ HasLog /\ HasLog'
      /\ ~Flushing /\ ~Flushing' /\ fl'.pc = "received" /\ fl'.mem = readStore
      /\ fl'.wal = walNum - 1
  BY <1>1, <1>2 DEF SendPending, WalPending, HasLog, Flushing, Stages
<1>4. /\ walNum - 1 \in DOMAIN wal /\ walNum \in DOMAIN wal /\ DOMAIN wal \in SUBSET Nat
      /\ \A k \in Keys : readStore[k] = FileCell(wal[walNum - 1], k)
      /\ \A n \in DOMAIN wal : n = walNum \/ n = walNum - 1
  BY <1>1, <1>3, Zenon
     DEF Inv, SendInv, CurrentInv, LockstepInv, TypeOK, WalOK, NumberedBy
<1>t. TypeOK'
  <2>1. fl' \in [pc : Stages \cup {"off", "idle", "received", "removed"},
                mem : Memstore, wal : Nat \cup {NoWal}, gen : Nat]
    BY <1>1, <1>4 DEF Inv, TypeOK, MemoryOK
  <2> QED BY <1>1, <2>1, TypeFrame, Zenon DEF Inv, TypeOK, MemoryOK, FlusherOK, Phases
<1>l. LockInv'
  BY <1>1 DEF Inv, LockInv
<1>p. PhaseInv'
  BY <1>1 DEF Inv, PhaseInv, Running, Loaded
<1>s. TableInv' /\ ReaderInv' /\ CompactorInv'
  BY <1>1, <1>3, TableFrame DEF Inv, Loaded
<1>m. MergeInv' /\ MergeKeepsAll' /\ FinishInv'
  BY <1>1, MergeFrame DEF Inv
<1>w. CurrentInv' /\ PendingInv' /\ SendInv' /\ LockstepInv' /\ ReplayInv' /\ GetInv'
  <2>1. CurrentInv'
    <3>1. \A k \in Keys : CurrentFile(k) => CurrentFile(k)'
      BY <1>1 DEF CurrentFile, Logged
    <3> QED BY <1>1, <1>3, <3>1 DEF Inv, CurrentInv
  <2>2. PendingInv'
    <3>1. walNum - 1 < walNum /\ \A n \in DOMAIN wal : walNum - 1 <= n
      BY <1>4
    <3> QED BY <1>1, <1>4 DEF PendingInv
  <2>3. SendInv' /\ LockstepInv' /\ ReplayInv' /\ GetInv'
    BY <1>1, <1>2, <1>3 DEF SendInv, LockstepInv, ReplayInv, GetInv
  <2> QED BY <2>1, <2>2, <2>3
<1>r. ReadStoreInv'
  BY <1>1 DEF Inv, ReadStoreInv
<1>d. OnlyWritesChange
  BY <1>1, ValueFrame
<1> QED BY <1>t, <1>l, <1>p, <1>s, <1>m, <1>w, <1>r, <1>d DEF Inv

(***************************************************************************)
(* Close has waited for the flusher.                                       *)
(***************************************************************************)
LEMMA CloseDrainedStep ==
  ASSUME Inv, CloseDrained
  PROVE  Inv' /\ OnlyWritesChange
<1>1. /\ phase = "draining" /\ phase' = "stopping" /\ fl.pc = "idle"
      /\ fl' = FlusherAt("off") /\ dbLock' = "free"
      /\ UNCHANGED <<sst, cdir, wal, toRemove, walNum, writeStore, readStore, generation,
                     readers, cp, opens, readLocks, mgrLock, op, mutations>>
  BY DEF CloseDrained, CloseFrame, LifeFrame, stores
<1>2. \A c \in Clients : op[c].pc = "idle"
  BY <1>1 DEF Inv, LockInv
<1>3. ~Flushing /\ ~Flushing' /\ fl'.pc = "off" /\ dbLock = "closer"
  BY <1>1 DEF Flushing, Stages, FlusherAt, Inv, LockInv
<1>t. TypeOK'
  <2>1. fl' \in [pc : Stages \cup {"off", "idle", "received", "removed"},
                mem : Memstore, wal : Nat \cup {NoWal}, gen : Nat]
    BY <1>1 DEF FlusherAt, EmptyStore, Memstore, MemCell
  <2> QED BY <1>1, <2>1, TypeFrame, Zenon
             DEF Inv, TypeOK, MemoryOK, CallsOK, FlusherOK, Phases
<1>l. LockInv'
  <2>1. \A c \in Clients : c # "free"
    BY ClientsAssumption
  <2> QED BY <1>1, <2>1 DEF Inv, LockInv
<1>p. PhaseInv'
  BY <1>1, <1>3 DEF Inv, PhaseInv, Running, Loaded
<1>s. TableInv' /\ ReaderInv' /\ CompactorInv'
  BY <1>1, <1>3, TableFrame DEF Inv, Loaded
<1>m. MergeInv' /\ MergeKeepsAll' /\ FinishInv'
  BY <1>1, MergeFrame DEF Inv
<1>w. CurrentInv' /\ PendingInv' /\ SendInv' /\ LockstepInv' /\ ReplayInv' /\ GetInv'
  BY <1>1, <1>2, QuietLog
<1>r. ReadStoreInv'
  BY <1>1 DEF Inv, ReadStoreInv
<1>d. OnlyWritesChange
  BY <1>1, ValueFrame
<1> QED BY <1>t, <1>l, <1>p, <1>s, <1>m, <1>w, <1>r, <1>d DEF Inv
-----------------------------------------------------------------------------
=============================================================================
