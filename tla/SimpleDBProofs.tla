--------------------------- MODULE SimpleDBProofs ---------------------------
(***************************************************************************)
(* The theorems about SimpleDB, for any number of clients, keys, tables    *)
(* and crashes, under the assumptions of DBInvariant.  The loss of the     *)
(* process and the end of Close, the last actions of Next, come first.     *)
(***************************************************************************)
EXTENDS DBClientProofs, DBCompactionProofs, DBFlushProofs, LinearizableDB

(***************************************************************************)
(* NewSimpleDB on an empty directory.                                      *)
(***************************************************************************)
LEMMA InitInv ==
  ASSUME Init PROVE Inv
<1>1. /\ sst = <<>> /\ cdir = NoCompaction /\ wal = <<>> /\ phase = "down"
      /\ toRemove = {} /\ walNum = NoWal
      /\ writeStore = EmptyStore /\ readStore = EmptyStore
      /\ generation = 0 /\ readers = <<>>
      /\ dbLock = "free" /\ readLocks = {} /\ mgrLock = "free"
      /\ op = [c \in Clients |-> Idle(Absent)]
      /\ fl = FlusherAt("off") /\ cp = CompactorAt("off")
      /\ mutations = 0 /\ opens = 0
  BY DEF Init, NewSimpleDB
<1>2. /\ fl.pc = "off" /\ cp.pc = "off" /\ ~cdir.flag /\ ~Flushing
      /\ \A c \in Clients : op[c].pc = "idle"
  BY <1>1 DEF FlusherAt, CompactorAt, NoCompaction, Idle, Flushing, Stages
<1>3. DOMAIN sst = {} /\ DOMAIN readers = {}
  BY <1>1
<1>t. TypeOK
  <2>1. EmptyStore \in Memstore /\ Absent \in Cell
    BY DEF EmptyStore, Memstore, MemCell, Cell
  <2>2. NumberedBy(sst, Table) /\ NumberedBy(wal, LogFile) /\ NumberedBy(readers, Table)
    BY <1>1, EmptyNumbered
  <2>3. op \in [Clients -> [pc : {"idle", "put", "delete", "send", "get"},
                            key : Keys \cup {NoKey}, cell : Cell]]
    BY <1>1, <2>1 DEF Idle
  <2>4. fl \in [pc : Stages \cup {"off", "idle", "received", "removed"},
                mem : Memstore, wal : Nat \cup {NoWal}, gen : Nat]
    BY <1>1, <2>1 DEF FlusherAt
  <2>5. mutations \in 0..MaxMutations /\ opens \in 0..MaxOpens
    BY <1>1, BoundsAssumption
  <2> QED BY <1>1, <2>1, <2>2, <2>3, <2>4, <2>5, NoNumbers
          DEF TypeOK, TablesOK, WalOK, MemoryOK, CallsOK, FlusherOK, CompactorOK,
              NoCompaction, CompactorAt, Phases
<1>l. LockInv
  <2>1. \A c \in Clients : c # "free"
    BY ClientsAssumption
  <2> QED BY <1>1, <1>2, <2>1 DEF LockInv
<1>p. PhaseInv
  BY <1>1, <1>2 DEF PhaseInv
<1>s. TableInv /\ ReaderInv /\ CompactorInv
  BY <1>1, <1>2 DEF TableInv, ReaderInv, CompactorInv, Loaded, Compacting, Merged, Closing
<1>m. MergeInv /\ MergeKeepsAll /\ FinishInv
  BY <1>1, <1>2 DEF MergeInv, MergeKeepsAll, FinishInv
<1>w. CurrentInv /\ PendingInv /\ SendInv /\ LockstepInv /\ ReplayInv /\ GetInv
  BY <1>1, <1>2 DEF CurrentInv, PendingInv, SendInv, LockstepInv, ReplayInv, GetInv, HasLog,
                    SendPending
<1>r. ReadStoreInv
  BY <1>1 DEF ReadStoreInv
<1> QED BY <1>t, <1>l, <1>p, <1>s, <1>m, <1>w, <1>r DEF Inv

-----------------------------------------------------------------------------
(***************************************************************************)
(* The process may go whenever no table, compaction or WAL folder is half  *)
(* written or half removed.                                                *)
(***************************************************************************)
LEMMA GoneStep ==
  ASSUME Inv, Gone, Flushing => fl.pc \in {"headers", "complete", "removed"},
         cdir.flag => cdir.stage = "complete", phase = "cleaning" => DOMAIN wal = {},
         phase # "removing"
  PROVE  Inv' /\ OnlyWritesChange
<1>1. /\ phase' = "down" /\ toRemove' = {} /\ walNum' = NoWal
      /\ writeStore' = EmptyStore /\ readStore' = EmptyStore
      /\ generation' = 0 /\ readers' = <<>>
      /\ dbLock' = "free" /\ readLocks' = {} /\ mgrLock' = "free"
      /\ op' = [c \in Clients |-> Idle(Absent)]
      /\ fl' = FlusherAt("off") /\ cp' = CompactorAt("off")
      /\ UNCHANGED <<sst, cdir, wal, mutations, opens>>
  BY DEF Gone, disk, bounds
<1>2. /\ fl'.pc = "off" /\ cp'.pc = "off" /\ ~Flushing'
      /\ \A c \in Clients : op'[c].pc = "idle"
  BY <1>1 DEF FlusherAt, CompactorAt, Idle, Flushing, Stages
<1>3. CompactionCounts' <=> CompactionCounts
  <2>1. cdir.flag /\ cp.pc \in Closing => cdir.stage = cp.pc /\ cp.pc # "complete"
    BY DEF Inv, CompactorInv, Closing
  <2> QED BY <1>1, <1>2, <2>1 DEF CompactionCounts, Closing
<1>t. TypeOK'
  <2>1. EmptyStore \in Memstore /\ Absent \in Cell
    BY DEF EmptyStore, Memstore, MemCell, Cell
  <2>2. NumberedBy(readers, Table)'
    BY <1>1, EmptyNumbered
  <2>3. op' \in [Clients -> [pc : {"idle", "put", "delete", "send", "get"},
                             key : Keys \cup {NoKey}, cell : Cell]]
    BY <1>1, <2>1 DEF Idle
  <2>4. fl' \in [pc : Stages \cup {"off", "idle", "received", "removed"},
                 mem : Memstore, wal : Nat \cup {NoWal}, gen : Nat]
    BY <1>1, <2>1 DEF FlusherAt
  <2>5. /\ cp' = [pc |-> cp'.pc, paths |-> cp'.paths, left |-> cp'.left]
        /\ cp'.paths = {} /\ cp'.left = {}
    BY <1>1 DEF CompactorAt
  <2> QED BY <1>1, <1>2, <2>1, <2>2, <2>3, <2>4, <2>5, NoNumbers, TypeFrame, Zenon
             DEF Inv, TypeOK, TablesOK, WalOK, MemoryOK, CallsOK, FlusherOK,
                 CompactorOK, Phases
<1>l. LockInv'
  <2>1. \A c \in Clients : c # "free"
    BY ClientsAssumption
  <2> QED BY <1>1, <1>2, <2>1 DEF LockInv
<1>p. PhaseInv'
  BY <1>1, <1>2 DEF PhaseInv
<1>c. CompactorInv' /\ MergeKeepsAll'
  BY <1>2, NoCompactor
<1>s. TableInv' /\ ReaderInv'
  <2>1. \A g \in DOMAIN sst : sst[g].stage \in {"headers", "complete"}
    BY DEF Inv, TableInv, Whole
  <2>2. TableInv'
    BY <1>1, <1>2, <2>1 DEF TableInv, Loaded
  <2>3. ReaderInv'
    BY <1>1 DEF ReaderInv, Loaded
  <2> QED BY <2>2, <2>3
<1>m. MergeInv' /\ FinishInv'
  <2>1. Hides(cdir.paths, cdir.cells) => Hides(cdir.paths, cdir.cells)'
    BY <1>1 DEF Hides, IsNewest
  <2>2. MergeInv'
    BY <1>1, <2>1 DEF Inv, MergeInv
  <2>3. FinishInv'
    BY <1>1 DEF FinishInv
  <2> QED BY <2>2, <2>3
<1>w. CurrentInv' /\ PendingInv' /\ SendInv' /\ LockstepInv' /\ ReplayInv' /\ GetInv'
  BY <1>1, <1>2, QuietLog
<1>r. ReadStoreInv'
  BY <1>1 DEF ReadStoreInv
<1>d. OnlyWritesChange
  <2> SUFFICES ASSUME NEW k \in Keys PROVE UNCHANGED DiskValue(k)
    BY DEF OnlyWritesChange
  <2>1. ValueOf(Newest(FinishedTables', k)) = ValueOf(Newest(FinishedTables, k))
    <3>1. CASE CompactionCounts
      BY <1>1, <1>3, <3>1 DEF FinishedTables
    <3>2. CASE ~CompactionCounts
      <4>1. FinishedTables' = sst
        BY <1>1, <1>3, <3>2 DEF FinishedTables, Restrict, Inv, TypeOK, TablesOK, NumberedBy
      <4> QED BY <3>2, <4>1, RemovedAreHidden
    <3> QED BY <3>1, <3>2
  <2>2. CASE phase = "cleaning"
    <3>1. Replayed(wal)[k] = Absent /\ Replayed(<<>>)[k] = Absent
      BY <2>2, ReplayedNone
    <3>2. LogFiles = <<>> /\ LogFiles' = wal
      BY <1>1, <2>2 DEF LogFiles
    <3> QED BY <2>1, <3>1, <3>2 DEF DiskValue, Over
  <2>3. CASE phase # "cleaning"
    <3>1. LogFiles = wal /\ LogFiles' = wal
      BY <1>1, <2>3 DEF LogFiles
    <3> QED BY <2>1, <3>1 DEF DiskValue, Over
  <2> QED BY <2>2, <2>3
<1> QED BY <1>t, <1>l, <1>p, <1>c, <1>s, <1>m, <1>w, <1>r, <1>d DEF Inv

(***************************************************************************)
(* The process is killed: the directory keeps its values, the next Open    *)
(* finds a state it can repair.                                            *)
(***************************************************************************)
LEMMA CrashStep ==
  ASSUME Inv, Crash
  PROVE  Inv' /\ OnlyWritesChange
<1>1. \A w \in Windows : InWindow(w) => w \in {"between", "headers"}
  BY SoundCrashPoints, Zenon DEF Crash
<1>2. ~InWindow("bare") /\ ~InWindow("index") /\ ~InWindow("data")
  BY <1>1 DEF Windows
<1>3. ~InWindow("flagged") /\ ~InWindow("cleaning") /\ ~InWindow("removing")
  BY <1>1 DEF Windows
<1>4. fl.pc \notin {"bare", "index", "data"}
  BY <1>2 DEF InWindow
<1>5. /\ cdir.flag => cdir.stage = "complete"
      /\ phase = "cleaning" => DOMAIN wal = {}
      /\ phase # "removing"
  BY <1>3, Zenon DEF InWindow
<1>6. Flushing => fl.pc \in {"headers", "complete", "removed"}
  BY <1>4 DEF Flushing, Stages
<1> QED BY <1>5, <1>6, GoneStep DEF Crash

(***************************************************************************)
(* Close returns.                                                          *)
(***************************************************************************)
LEMMA CloseDoneStep ==
  ASSUME Inv, CloseDone
  PROVE  Inv' /\ OnlyWritesChange
<1>1. phase = "stopping" /\ cp.pc \in {"off", "idle", "panicked"} /\ Gone
  BY DEF CloseDone
<1>2. fl.pc = "off" /\ ~cdir.flag
  BY <1>1 DEF Inv, PhaseInv, Merged
<1>3. ~Flushing
  BY <1>2 DEF Flushing, Stages
<1> QED BY <1>1, <1>2, <1>3, GoneStep

(***************************************************************************)
(* A process whose Open failed goes away.                                  *)
(***************************************************************************)
LEMMA GiveUpStep ==
  ASSUME Inv, GiveUp
  PROVE  Inv' /\ OnlyWritesChange
<1>1. phase = "failed" /\ Gone
  BY DEF GiveUp
<1>2. fl.pc = "off" /\ cp.pc = "off" /\ ~Flushing
  BY <1>1, NobodyElse DEF Running
<1>3. ~cdir.flag
  BY <1>1, <1>2 DEF Inv, PhaseInv, Merged
<1> QED BY <1>1, <1>2, <1>3, GoneStep

(***************************************************************************)
(* All of Close, and kill -9.                                              *)
(***************************************************************************)
LEMMA CloseSteps ==
  ASSUME Inv, CloseRotate \/ CloseStep \/ Crash
  PROVE  Inv' /\ OnlyWritesChange
BY CloseRotateStep, CloseSendStep, CloseDrainedStep, CloseDoneStep, GiveUpStep, CrashStep
   DEF CloseStep

-----------------------------------------------------------------------------
(***************************************************************************)
(* All of Open.                                                            *)
(***************************************************************************)
LEMMA OpenSteps ==
  ASSUME Inv, StartOpen \/ OpenStep
  PROVE  Inv' /\ OnlyWritesChange
<1>1. ~ReconstructFails
  BY AlwaysLoadable DEF ReconstructFails
<1> QED BY <1>1, StartOpenStep, RepairDeleteStep, RepairReplaceStep, RepairRenameStep,
           RepairUnlinkStep, RepairRemoveStep, RepairDoneStep, ReconstructStep, ReplayWalStep, CleanWalStep,
           NewWriteAheadLogStep DEF OpenStep

(***************************************************************************)
(* Nothing happens: the invariant stays.                                   *)
(***************************************************************************)
LEMMA StutterStep ==
  ASSUME Inv, UNCHANGED vars
  PROVE  Inv' /\ OnlyWritesChange
<1>f. UNCHANGED <<sst, cdir, wal, phase, toRemove, walNum, writeStore, readStore, generation,
                  readers, dbLock, readLocks, mgrLock, op, fl, cp, mutations, opens>>
  BY DEF vars, disk, stores, locks, bounds
<1>1. TypeOK'
  <2>1. NumberedBy(sst, Table)' /\ NumberedBy(wal, LogFile)' /\ NumberedBy(readers, Table)'
    BY <1>f DEF Inv, TypeOK, TablesOK, WalOK, MemoryOK
  <2> QED BY <1>f, TypeFrame, Zenon DEF Inv, TypeOK
<1>2. LockInv' /\ PhaseInv'
  BY <1>f DEF Inv, LockInv, PhaseInv
<1>3. TableInv' /\ ReaderInv' /\ CompactorInv'
  BY <1>f, TableFrame DEF Inv, Flushing
<1>4. MergeInv' /\ MergeKeepsAll' /\ FinishInv'
  BY <1>f, MergeFrame DEF Inv
<1>5. CurrentInv' /\ PendingInv' /\ SendInv' /\ LockstepInv'
  BY <1>f, LogFrame DEF Inv
<1>6. ReplayInv'
  BY <1>f DEF Inv, ReplayInv
<1>7. ReadStoreInv' /\ GetInv'
  BY <1>f, StoresFrame DEF Inv
<1>8. OnlyWritesChange
  BY <1>f, ValueFrame
<1> QED BY <1>1, <1>2, <1>3, <1>4, <1>5, <1>6, <1>7, <1>8 DEF Inv

(***************************************************************************)
(* Every step keeps the invariant, and writes alone change values.         *)
(***************************************************************************)
LEMMA NextStep ==
  ASSUME Inv, [Next]_vars
  PROVE  Inv' /\ OnlyWritesChange
<1>1. CASE StartOpen \/ OpenStep
  BY <1>1, OpenSteps
<1>2. ASSUME NEW c \in Clients, ClientCall(c) \/ ClientStep(c)
      PROVE  Inv' /\ OnlyWritesChange
  BY <1>2, ClientSteps
<1>3. CASE FlushStep
  BY <1>3, FlushSteps
<1>4. CASE CompactTick \/ CompactLockDB \/ CompactStep
  BY <1>4, CompactSteps
<1>5. CASE CloseRotate \/ CloseStep \/ Crash
  BY <1>5, CloseSteps
<1>6. CASE Terminated \/ UNCHANGED vars
  BY <1>6, StutterStep DEF Terminated
<1> QED BY <1>1, <1>2, <1>3, <1>4, <1>5, <1>6 DEF Next

(***************************************************************************)
(* The invariant holds in every reachable state.                           *)
(***************************************************************************)
THEOREM Invariance == Spec => []Inv
<1>1. Init => Inv
  BY InitInv
<1>2. Inv /\ [Next]_vars => Inv'
  BY NextStep
<1> QED BY <1>1, <1>2, PTL DEF Spec

(***************************************************************************)
(* DB, RWMemstore, SSTableManager and Appender always hold what their      *)
(* types say.                                                              *)
(***************************************************************************)
THEOREM TypeCorrect == Spec => []TypeOK
<1>1. Inv => TypeOK
  BY DEF Inv
<1> QED BY <1>1, Invariance, PTL

(***************************************************************************)
(* Durability: whatever Put, Delete, flush, compaction, Close, kill and    *)
(* recovery do in whatever order, the value the directory holds for a key  *)
(* changes only with the WAL record of a write to that key.                *)
(***************************************************************************)
THEOREM Durability == Spec => Durable
<1>1. Inv /\ [Next]_vars => [OnlyWritesChange]_vars
  BY NextStep
<1> QED BY <1>1, Invariance, PTL DEF Spec, Durable

(***************************************************************************)
(* A compaction that has its success flag has the data of all its inputs   *)
(* until it removes the first one.                                         *)
(***************************************************************************)
THEOREM CompactionKeepsAll == Spec => []MergeKeepsAll
<1>1. Inv => MergeKeepsAll
  BY DEF Inv
<1> QED BY <1>1, Invariance, PTL

(***************************************************************************)
(* A flush creates a new directory, newer than every table.                *)
(***************************************************************************)
THEOREM FlushIsNewest == Spec => []FreshGeneration
<1>1. Inv => FreshGeneration
  <2> SUFFICES ASSUME Inv, fl.pc = "received"
               PROVE  \A g \in DOMAIN sst \cup DOMAIN readers : g <= generation
    BY DEF FreshGeneration
  <2>1. phase \in Loaded
    BY DEF Inv, PhaseInv, Loaded
  <2> QED BY <2>1 DEF Inv, TableInv
<1> QED BY <1>1, Invariance, PTL

(***************************************************************************)
(* The WAL folder holds the file of the write store and the file of the    *)
(* memstore that waits for or is in its flush, no other.                   *)
(***************************************************************************)
THEOREM LogInLockstep == Spec => []WalInLockstep
<1>1. Inv => WalInLockstep
  <2> SUFFICES ASSUME Inv, phase = "up" PROVE DOMAIN wal = {walNum} \cup PendingFiles
    BY DEF WalInLockstep
  <2>1. /\ HasLog /\ (SendPending <=> \E c \in Clients : op[c].pc = "send")
        /\ (WalPending <=> fl.pc \notin {"off", "idle", "removed"})
    BY DEF HasLog, SendPending, WalPending, Stages, Inv, TypeOK, FlusherOK
  <2>2. walNum \in DOMAIN wal
    BY <2>1 DEF Inv, CurrentInv
  <2>3. SendPending => walNum - 1 \in DOMAIN wal
    BY DEF Inv, SendInv
  <2>4. WalPending => fl.wal \in DOMAIN wal
    BY <2>1 DEF Inv, PendingInv
  <2>5. \A n \in DOMAIN wal :
          n = walNum \/ (SendPending /\ n = walNum - 1) \/ (WalPending /\ n = fl.wal)
    BY DEF Inv, LockstepInv
  <2> QED BY <2>1, <2>2, <2>3, <2>4, <2>5 DEF PendingFiles
<1> QED BY <1>1, Invariance, PTL

-----------------------------------------------------------------------------
(***************************************************************************)
(* What GetBytes computes in an open database is what a recovery would     *)
(* restore, while nobody holds the write lock.                             *)
(***************************************************************************)
THEOREM MemoryIsDisk == Spec => []MemoryMatchesDisk
<1>1. Inv => MemoryMatchesDisk
  <2> SUFFICES ASSUME Inv, phase = "up", dbLock = "free", NEW k \in Keys
               PROVE  DBValue(k) = DiskValue(k)
    BY DEF MemoryMatchesDisk
  <2>1. mgrLock = "free"
    BY DEF Inv, LockInv, TypeOK, CallsOK
  <2>2. Newest(readers, k) # Garbage
    <3>1. Readable(readers) /\ NumberedBy(readers, Table)
      BY <2>1, ReadersReadable, Zenon DEF Loaded, Inv, TypeOK, MemoryOK
    <3> QED BY <3>1, NewestType
  <2> QED BY <2>2, ValuesAgree DEF DBValue, GetBytes
<1> QED BY <1>1, Invariance, PTL

(***************************************************************************)
(* A GetBytes that has asked the sstables and not yet the memstores will   *)
(* return the value the key has now, whatever was flushed or compacted     *)
(* meanwhile.                                                              *)
(***************************************************************************)
THEOREM GetIsCurrent == Spec => []GetSeesLatest
<1>1. Inv => GetSeesLatest
  <2> SUFFICES ASSUME Inv, NEW c \in Clients, op[c].pc = "get"
               PROVE  GetBytes(op[c].cell, op[c].key) = DiskValue(op[c].key)
    BY DEF GetSeesLatest
  <2> DEFINE k == op[c].key
  <2>1. phase = "up" /\ dbLock = "free" /\ k \in Keys
    BY DEF Inv, LockInv
  <2>2. /\ op[c].cell # Garbage
        /\ MemValue(k) # Absent \/ ValueOf(op[c].cell) = ValueOf(Newest(readers, k))
    BY DEF Inv, GetInv
  <2> HIDE DEF k
  <2>3. ValueOf(Over(MemValue(k), Newest(readers, k))) = DiskValue(k)
    BY <2>1, ValuesAgree
  <2>4. GetBytes(op[c].cell, k) = DiskValue(k)
    BY <2>2, <2>3 DEF GetBytes, Over
  <2> QED BY <2>4 DEF k
<1> QED BY <1>1, Invariance, PTL
-----------------------------------------------------------------------------
(***************************************************************************)
(* Writers put and delete, readers get.                                    *)
(***************************************************************************)
RolesInv ==
  \A c \in Clients :
    /\ op[c].pc \in {"put", "delete", "send"} => c \in Writers
    /\ op[c].pc = "get" => c \in Readers

(***************************************************************************)
(* Open, the flusher, the compaction and all of Close but its end leave    *)
(* the calls alone.                                                        *)
(***************************************************************************)
LEMMA CallsStay ==
  ASSUME \/ StartOpen \/ OpenStep \/ FlushStep \/ CompactTick \/ CompactLockDB \/ CompactStep
         \/ CloseRotate \/ CloseSend \/ CloseDrained \/ Terminated \/ UNCHANGED vars
  PROVE  UNCHANGED op
<1>1. CASE \/ RepairDelete \/ RepairReplace \/ RepairRename
           \/ RepairUnlink \/ RepairRemove \/ RepairDone
  BY <1>1 DEF RepairDelete, RepairReplace, RepairRename, RepairUnlink, RepairRemove, RepairDone,
              RepairFrame, RecoveryFrame, LifeFrame
<1>2. CASE \/ StartOpen \/ ReconstructSSTables \/ ReconstructFails \/ ReplayWal
           \/ (\E n \in DOMAIN wal : CleanWal(n)) \/ NewWriteAheadLog
  BY <1>2, Zenon DEF StartOpen, ReconstructSSTables, ReconstructFails, ReplayWal, CleanWal,
              NewWriteAheadLog, RecoveryFrame, LifeFrame
<1>3. CASE FlushStep
  BY <1>3, Zenon
     DEF FlushStep, FlushSkip, FlushMkdir, FlushWrite, WriteStage, FlushRemoveWal,
         FlushAddReader, FlushFrame
<1>4. CASE CompactTick \/ CompactLockDB \/ CompactStep
  BY <1>4, Zenon
     DEF CompactTick, CompactLockDB, CompactStep, CompactMerge, CompactClose,
         CompactCloseStage, CompactLockManager, CompactRemove, CompactRename,
         CompactReflect, CompactAlone, CompactFrame
<1>5. CASE CloseRotate \/ CloseSend \/ CloseDrained
  BY <1>5 DEF CloseRotate, CloseSend, CloseDrained, CloseFrame, LifeFrame
<1>6. CASE Terminated \/ UNCHANGED vars
  BY <1>6 DEF Terminated, vars
<1> QED BY <1>1, <1>2, <1>3, <1>4, <1>5, <1>6 DEF OpenStep

(***************************************************************************)
(* The end of a process drops the calls.                                   *)
(***************************************************************************)
LEMMA GoneCalls ==
  ASSUME CloseDone \/ GiveUp \/ Crash
  PROVE  op' = [c \in Clients |-> Idle(Absent)]
BY DEF CloseDone, GiveUp, Crash, Gone

(***************************************************************************)
(* A step of one client changes its own call only, to the next place.      *)
(***************************************************************************)
LEMMA OneCall ==
  ASSUME Inv, NEW c \in Clients, NEW new, op' = [op EXCEPT ![c] = new]
  PROVE  op'[c] = new /\ \A d \in Clients \ {c} : op'[d] = op[d]
BY DEF Inv, TypeOK, CallsOK

(***************************************************************************)
(* Every step leaves writers writing and readers reading.                  *)
(***************************************************************************)
LEMMA RolesStep ==
  ASSUME Inv, RolesInv, [Next]_vars
  PROVE  RolesInv'
<1>1. CASE UNCHANGED op
  BY <1>1 DEF RolesInv
<1>2. CASE op' = [c \in Clients |-> Idle(Absent)]
  BY <1>2 DEF RolesInv, Idle
<1>3. ASSUME NEW c \in Clients, NEW new, op' = [op EXCEPT ![c] = new],
             new.pc \in {"put", "delete", "send"} => c \in Writers, new.pc = "get" => c \in Readers
      PROVE  RolesInv'
  <2>1. op'[c] = new /\ \A d \in Clients \ {c} : op'[d] = op[d]
    BY <1>3, OneCall, Zenon
  <2> QED BY <1>3 DEF RolesInv
<1>4. ASSUME NEW c \in Clients, ClientCall(c) PROVE RolesInv'
  BY <1>3, <1>4, Zenon DEF ClientCall, PutBytes, DeleteBytes, WriteAhead, GetSSTable
<1>5. ASSUME NEW c \in Clients, Delete(c) \/ Send(c) \/ GetMemstore(c) PROVE RolesInv'
  BY <1>3, <1>5, Zenon DEF Delete, Send, GetMemstore, Unlocked, Idle
<1>6. ASSUME NEW c \in Clients, Upsert(c) PROVE RolesInv'
  <2>1. op[c].pc = "put" /\ c \in Writers
    BY <1>6 DEF Upsert, RolesInv
  <2> DEFINE sending == [op[c] EXCEPT !.pc = "send"]
  <2>2. sending.pc = "send"
    OBVIOUS
  <2>3. op' = [op EXCEPT ![c] = sending] \/ op' = [op EXCEPT ![c] = Idle(Absent)]
    BY <1>6 DEF Upsert, Unlocked
  <2>4. Idle(Absent).pc = "idle"
    BY DEF Idle
  <2> HIDE DEF sending
  <2> QED BY <1>3, <2>1, <2>2, <2>3, <2>4
<1> QED BY <1>1, <1>2, <1>4, <1>5, <1>6, CallsStay, GoneCalls DEF Next, ClientStep, CloseStep

(***************************************************************************)
(* A step that starts no write changes no value of the map.                *)
(***************************************************************************)
LEMMA MapStays ==
  ASSUME OnlyWritesChange,
         \A c \in Clients : op[c].pc = "idle" => op'[c].pc \notin {"put", "delete"}
  PROVE  [k \in Keys |-> DiskValue(k)]' = [k \in Keys |-> DiskValue(k)]
<1>1. \A k \in Keys : ~Written(k)
  BY DEF Written
<1>2. \A k \in Keys : DiskValue(k)' = DiskValue(k)
  BY <1>1 DEF OnlyWritesChange
<1> QED BY <1>2

(***************************************************************************)
(* The record of a write in the WAL is the Put or Delete of the map.       *)
(***************************************************************************)
LEMMA WriteMaps ==
  ASSUME Inv, NEW c \in Writers, NEW kind \in {"put", "delete"}, NEW k \in Keys,
         NEW cell \in Values \cup {Tombstone}, WriteAhead(c, kind, k, cell),
         kind = "delete" => cell = Tombstone
  PROVE  Store!Write(c, k, ValueOf(cell))
<1>1. OnlyWritesChange /\ DiskValue(k)' = ValueOf(cell) /\ c \in Clients
  BY WriteAheadStep DEF Clients
<1>2. /\ op'[c] = [pc |-> kind, key |-> k, cell |-> cell]
      /\ \A d \in Clients \ {c} : op'[d] = op[d]
  BY <1>1, OneCall, Zenon DEF WriteAhead
<1>3. op[c].pc = "idle" /\ op'[c].pc = kind /\ op'[c].key = k
  BY <1>2 DEF WriteAhead
<1>4. \A j \in Keys : DiskValue(j)' = IF j = k THEN ValueOf(cell) ELSE DiskValue(j)
  <2>1. \A j \in Keys : Written(j) => j = k
    BY <1>2 DEF Written
  <2>2. \A j \in Keys : j # k => DiskValue(j)' = DiskValue(j)
    BY <1>1, <2>1, Zenon DEF OnlyWritesChange
  <2> QED BY <1>1, <2>2
<1>5. [j \in Keys |-> DiskValue(j)]' = [[j \in Keys |-> DiskValue(j)] EXCEPT ![k] = ValueOf(cell)]
  BY <1>4, Zenon
<1>6. [d \in Clients |-> CallState(op[d].pc)]' =
        [[d \in Clients |-> CallState(op[d].pc)] EXCEPT ![c] = "written"]
  BY <1>2, <1>3, Zenon DEF CallState
<1>7. [d \in Clients |-> IF op[d].pc = "idle" THEN op[d].cell ELSE Absent]' =
        [[d \in Clients |-> IF op[d].pc = "idle" THEN op[d].cell ELSE Absent] EXCEPT ![c] = Absent]
  BY <1>2, <1>3, Zenon
<1>8. CallState(op[c].pc) = "idle"
  BY <1>3 DEF CallState
<1> QED BY <1>1, <1>5, <1>6, <1>7, <1>8 DEF Store!Write

(***************************************************************************)
(* The end of a write is its return, the two halves of GetBytes are start  *)
(* and answer of a Get.                                                    *)
(***************************************************************************)
LEMMA ReturnMaps ==
  ASSUME Inv, OnlyWritesChange, NEW c \in Clients, op[c].pc \in {"put", "delete", "send"},
         op' = [op EXCEPT ![c] = Idle(Absent)]
  PROVE  Store!Return(c)
<1>1. op'[c] = Idle(Absent) /\ \A d \in Clients \ {c} : op'[d] = op[d]
  BY OneCall, Zenon
<1>2. op'[c].pc = "idle" /\ op'[c].cell = Absent
  BY <1>1 DEF Idle
<1>3. [k \in Keys |-> DiskValue(k)]' = [k \in Keys |-> DiskValue(k)]
  BY MapStays
<1>4. [d \in Clients |-> CallState(op[d].pc)]' =
        [[d \in Clients |-> CallState(op[d].pc)] EXCEPT ![c] = "idle"]
  BY <1>1, <1>2, Zenon DEF CallState
<1>5. [d \in Clients |-> IF op[d].pc = "idle" THEN op[d].cell ELSE Absent]' =
        [d \in Clients |-> IF op[d].pc = "idle" THEN op[d].cell ELSE Absent]
  BY <1>2
<1>6. CallState(op[c].pc) = "written"
  BY DEF CallState
<1> QED BY <1>3, <1>4, <1>5, <1>6 DEF Store!Return

(***************************************************************************)
(* The first half of GetBytes, the lookup in the tables, starts a Get of   *)
(* the map.                                                                *)
(***************************************************************************)
LEMMA StartGetMaps ==
  ASSUME Inv, OnlyWritesChange, NEW c \in Clients, NEW k \in Keys, GetSSTable(c, k)
  PROVE  Store!StartGet(c)
<1> DEFINE new == [pc |-> "get", key |-> k, cell |-> Newest(readers, k)]
<1>0. op' = [op EXCEPT ![c] = new] /\ new.pc = "get"
  BY DEF GetSSTable
<1> HIDE DEF new
<1>1. op'[c].pc = "get" /\ \A d \in Clients \ {c} : op'[d] = op[d]
  BY <1>0, OneCall, Zenon
<1>2. op[c].pc = "idle"
  BY DEF GetSSTable
<1>3. [j \in Keys |-> DiskValue(j)]' = [j \in Keys |-> DiskValue(j)]
  BY <1>1, MapStays
<1>4. [d \in Clients |-> CallState(op[d].pc)]' =
        [[d \in Clients |-> CallState(op[d].pc)] EXCEPT ![c] = "reading"]
  BY <1>1, Zenon DEF CallState
<1>5. [d \in Clients |-> IF op[d].pc = "idle" THEN op[d].cell ELSE Absent]' =
        [[d \in Clients |-> IF op[d].pc = "idle" THEN op[d].cell ELSE Absent] EXCEPT ![c] = Absent]
  BY <1>1, Zenon
<1>6. CallState(op[c].pc) = "idle"
  BY <1>2 DEF CallState
<1> QED BY <1>3, <1>4, <1>5, <1>6 DEF Store!StartGet

(***************************************************************************)
(* The second half of GetBytes, the lookup in the memstores, is the Get of *)
(* the map: the value it returns is the key's value at that moment.        *)
(***************************************************************************)
LEMMA GetMaps ==
  ASSUME Inv, GetSeesLatest, OnlyWritesChange, NEW c \in Clients, GetMemstore(c)
  PROVE  \E k \in Keys : Store!Get(c, k)
<1>0. op[c].pc = "get"
  BY DEF GetMemstore
<1>1. PICK k \in Keys : k = op[c].key
  BY <1>0 DEF Inv, LockInv
<1>2. op'[c] = Idle(DiskValue(k)) /\ \A d \in Clients \ {c} : op'[d] = op[d]
  BY <1>1, OneCall, Zenon DEF GetMemstore, GetSeesLatest
<1>3. op'[c].pc = "idle" /\ op'[c].cell = DiskValue(k)
  BY <1>2 DEF Idle
<1>4. [j \in Keys |-> DiskValue(j)]' = [j \in Keys |-> DiskValue(j)]
  BY <1>2, <1>3, MapStays
<1>5. [d \in Clients |-> CallState(op[d].pc)]' =
        [[d \in Clients |-> CallState(op[d].pc)] EXCEPT ![c] = "idle"]
  BY <1>2, <1>3, Zenon DEF CallState
<1>6. [d \in Clients |-> IF op[d].pc = "idle" THEN op[d].cell ELSE Absent]' =
        [[d \in Clients |-> IF op[d].pc = "idle" THEN op[d].cell ELSE Absent]
           EXCEPT ![c] = [j \in Keys |-> DiskValue(j)][k]]
  BY <1>2, <1>3, Zenon
<1>7. CallState(op[c].pc) = "reading"
  BY <1>0 DEF CallState
<1>8. Store!Get(c, k)
  BY <1>4, <1>5, <1>6, <1>7 DEF Store!Get
<1> QED BY <1>8

(***************************************************************************)
(* Every step of the database is a step of the map or changes nothing in   *)
(* it.                                                                     *)
(***************************************************************************)
LEMMA StepMaps ==
  ASSUME Inv, RolesInv, GetSeesLatest, [Next]_vars
  PROVE  [Store!Next]_(Store!vars)
<1>0. OnlyWritesChange
  BY NextStep
<1>1. ASSUME UNCHANGED op PROVE UNCHANGED Store!vars
  <2>1. [k \in Keys |-> DiskValue(k)]' = [k \in Keys |-> DiskValue(k)]
    BY <1>0, <1>1, MapStays
  <2>2. /\ [c \in Clients |-> CallState(op[c].pc)]' = [c \in Clients |-> CallState(op[c].pc)]
        /\ [c \in Clients |-> IF op[c].pc = "idle" THEN op[c].cell ELSE Absent]' =
             [c \in Clients |-> IF op[c].pc = "idle" THEN op[c].cell ELSE Absent]
    BY <1>1
  <2> QED BY <2>1, <2>2 DEF Store!vars
<1>2. ASSUME op' = [c \in Clients |-> Idle(Absent)] PROVE Store!Stop
  <2>1. \A c \in Clients : op'[c].pc = "idle" /\ op'[c].cell = Absent
    BY <1>2 DEF Idle
  <2>2. [k \in Keys |-> DiskValue(k)]' = [k \in Keys |-> DiskValue(k)]
    BY <1>0, <2>1, MapStays
  <2>3. [c \in Clients |-> CallState(op[c].pc)]' = [c \in Clients |-> "idle"]
    BY <2>1 DEF CallState
  <2>4. [c \in Clients |-> IF op[c].pc = "idle" THEN op[c].cell ELSE Absent]' =
          [c \in Clients |-> Absent]
    BY <2>1
  <2> QED BY <2>2, <2>3, <2>4 DEF Store!Stop, Store!Clients, Clients
<1>3. ASSUME NEW c \in Writers, NEW k \in Keys, NEW v \in Values, PutBytes(c, k, v)
      PROVE  Store!Put(c, k, v)
  <2>1. ValueOf(v) = v
    BY CellAssumption DEF ValueOf
  <2>2. Store!Write(c, k, ValueOf(v))
    BY <1>3, WriteMaps DEF PutBytes
  <2> QED BY <2>1, <2>2 DEF Store!Put
<1>4. ASSUME NEW c \in Writers, NEW k \in Keys, DeleteBytes(c, k)
      PROVE  Store!Delete(c, k)
  <2>1. ValueOf(Tombstone) = Absent
    BY DEF ValueOf
  <2>2. Store!Write(c, k, ValueOf(Tombstone))
    BY <1>4, WriteMaps DEF DeleteBytes
  <2> QED BY <2>1, <2>2 DEF Store!Delete
<1>5. ASSUME NEW c \in Clients, ClientCall(c) PROVE Store!Next
  <2>1. ASSUME NEW k \in Keys, c \in Readers, GetSSTable(c, k) PROVE Store!StartGet(c)
    BY <1>0, <2>1, StartGetMaps
  <2> QED BY <1>3, <1>4, <1>5, <2>1 DEF ClientCall, Store!Next
<1>6. ASSUME NEW c \in Clients, Delete(c) \/ Send(c) PROVE Store!Next
  <2>1. Store!Return(c)
    BY <1>0, <1>6, ReturnMaps DEF Delete, Send, Unlocked
  <2>2. c \in Writers
    BY <1>6 DEF RolesInv, Delete, Send
  <2> QED BY <2>1, <2>2 DEF Store!Next
<1>7. ASSUME NEW c \in Clients, Upsert(c) PROVE Store!Next \/ UNCHANGED Store!vars
  <2>1. op[c].pc = "put" /\ c \in Writers
    BY <1>7 DEF Upsert, RolesInv
  <2>2. CASE op' = [op EXCEPT ![c] = Idle(Absent)]
    <3>1. Store!Return(c)
      BY <1>0, <2>1, <2>2, ReturnMaps, Zenon
    <3> QED BY <2>1, <3>1 DEF Store!Next
  <2>3. CASE op' = [op EXCEPT ![c] = [op[c] EXCEPT !.pc = "send"]]
    <3>1. op'[c].pc = "send" /\ \A d \in Clients \ {c} : op'[d] = op[d]
      BY <2>3 DEF Inv, TypeOK, CallsOK
    <3>2. [k \in Keys |-> DiskValue(k)]' = [k \in Keys |-> DiskValue(k)]
      BY <1>0, <3>1, MapStays
    <3>3. [d \in Clients |-> CallState(op[d].pc)]' = [d \in Clients |-> CallState(op[d].pc)]
      BY <2>1, <3>1 DEF CallState
    <3>4. [d \in Clients |-> IF op[d].pc = "idle" THEN op[d].cell ELSE Absent]' =
            [d \in Clients |-> IF op[d].pc = "idle" THEN op[d].cell ELSE Absent]
      BY <2>1, <3>1
    <3> QED BY <3>2, <3>3, <3>4 DEF Store!vars
  <2>4. \/ op' = [op EXCEPT ![c] = [op[c] EXCEPT !.pc = "send"]]
        \/ op' = [op EXCEPT ![c] = Idle(Absent)]
    BY <1>7 DEF Upsert, Unlocked
  <2> QED BY <2>2, <2>3, <2>4
<1>8. ASSUME NEW c \in Clients, GetMemstore(c) PROVE Store!Next
  <2>1. \E k \in Keys : Store!Get(c, k)
    BY <1>0, <1>8, GetMaps
  <2>2. c \in Readers
    BY <1>8 DEF RolesInv, GetMemstore
  <2> QED BY <2>1, <2>2 DEF Store!Next
<1>9. CASE CloseDone \/ GiveUp \/ Crash
  BY <1>2, <1>9, GoneCalls DEF Store!Next
<1> QED BY <1>1, <1>5, <1>6, <1>7, <1>8, <1>9, CallsStay DEF Next, ClientStep, CloseStep

(***************************************************************************)
(* The database implements a durable, linearizable map: every behaviour    *)
(* with its flushes, compactions, kills and recoveries is one of KVStore,  *)
(* in which a write takes effect with its WAL record, a Get with its look  *)
(* into the memstores, and a kill takes nothing but the calls under way.   *)
(***************************************************************************)
THEOREM Refinement == Spec => ImplementsKVStore
<1>1. Init => RolesInv
  BY DEF Init, NewSimpleDB, RolesInv, Idle
<1>2. Inv /\ RolesInv /\ [Next]_vars => RolesInv'
  BY RolesStep
<1>3. Init => Store!Init
  <2> SUFFICES ASSUME Init PROVE Store!Init
    OBVIOUS
  <2>1. \A c \in Clients : op[c].pc = "idle" /\ op[c].cell = Absent
    BY DEF Init, NewSimpleDB, Idle
  <2>2. \A k \in Keys : DiskValue(k) = Absent
    <3>1. LogFiles = <<>> /\ DOMAIN <<>> = {} /\ sst = <<>> /\ ~CompactionCounts
      BY DEF Init, CompactionCounts, NoCompaction, LogFiles
    <3>2. DOMAIN FinishedTables = {}
      BY <3>1 DEF FinishedTables, Restrict
    <3>3. ASSUME NEW k \in Keys
          PROVE  Newest(FinishedTables, k) = Absent /\ Replayed(<<>>)[k] = Absent
      BY <3>1, <3>2, NewestNone, ReplayedNone
    <3> QED BY <3>1, <3>3 DEF DiskValue, Over, ValueOf
  <2> QED BY <2>1, <2>2 DEF Store!Init, Store!Clients, Clients, CallState
<1>4. Inv /\ RolesInv /\ GetSeesLatest /\ [Next]_vars => [Store!Next]_(Store!vars)
  BY StepMaps
<1> QED BY <1>1, <1>2, <1>3, <1>4, Invariance, GetIsCurrent, PTL
        DEF Spec, ImplementsKVStore, Store!Spec
=============================================================================
