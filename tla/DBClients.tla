----------------------------- MODULE DBClients ------------------------------
(***************************************************************************)
(* The calls of db.go: GetBytes, PutBytes and DeleteBytes (Get, Put and    *)
(* Delete convert strings and call them).  A call on a DB that is not open *)
(* or is closed returns an error and changes nothing, and is left out.     *)
(***************************************************************************)
EXTENDS DBState

(***************************************************************************)
(* Appender.Append: checkSizeAndRotate starts a new file when the record   *)
(* does not fit, then the record is written and synced.                    *)
(***************************************************************************)
AppendRecord(m) ==
  LET n == IF Len(wal[walNum]) + 1 > MaxWalFileRecords THEN walNum + 1 ELSE walNum
      file == IF n = walNum THEN wal[walNum] ELSE <<>>
  IN  /\ wal' = With(wal, n, Append(file, m))
      /\ walNum' = n

(***************************************************************************)
(* PutBytes and DeleteBytes: under the write lock, the WAL first ...       *)
(***************************************************************************)
WriteAhead(c, kind, k, cell) ==
  /\ phase = "up"
  /\ op[c].pc = "idle"
  /\ mutations < MaxMutations
  /\ CanLock
  /\ dbLock' = c
  /\ AppendRecord([key |-> k, cell |-> cell])
  /\ op' = [op EXCEPT ![c] = [pc |-> kind, key |-> k, cell |-> cell]]
  /\ mutations' = mutations + 1
  /\ UNCHANGED <<sst, cdir, phase, toRemove, stores, generation, readers,
                 readLocks, mgrLock, fl, cp, opens>>

PutBytes(c, k, v) == WriteAhead(c, "put", k, v)
DeleteBytes(c, k) == WriteAhead(c, "delete", k, Tombstone)

Unlocked(c, reply) ==
  /\ dbLock' = "free"
  /\ op' = [op EXCEPT ![c] = Idle(reply)]

(***************************************************************************)
(* ... then the memstore.  RWMemstore.Delete tombstones the key whether or *)
(* not the write store has it.  Only a Put looks at the size afterwards:   *)
(* over the limit, rotateWalAndFlushMemstore rotates the WAL and swaps the *)
(* memstores before it blocks on the flush channel.                        *)
(***************************************************************************)
Upsert(c) ==
  LET store == [writeStore EXCEPT ![op[c].key] = op[c].cell]
  IN  /\ op[c].pc = "put"
      /\ IF EstimatedSizeInBytes(store) > MemstoreMaxSize
         THEN /\ Rotate
              /\ readStore' = store
              /\ writeStore' = EmptyStore
              /\ op' = [op EXCEPT ![c].pc = "send"]
              /\ UNCHANGED dbLock
         ELSE /\ writeStore' = store
              /\ Unlocked(c, Absent)
              /\ UNCHANGED <<readStore, wal, walNum>>
      /\ UNCHANGED <<sst, cdir, phase, toRemove, generation, readers, readLocks,
                     mgrLock, fl, cp, bounds>>

Delete(c) ==
  /\ op[c].pc = "delete"
  /\ writeStore' = [writeStore EXCEPT ![op[c].key] = Tombstone]
  /\ Unlocked(c, Absent)
  /\ UNCHANGED <<disk, phase, toRemove, walNum, readStore, generation, readers,
                 readLocks, mgrLock, fl, cp, bounds>>

(***************************************************************************)
(* The unbuffered storeFlushChannel: the send waits for an idle flusher.   *)
(***************************************************************************)
FlushAction(walPath) ==
  /\ fl.pc = "idle"
  /\ fl' = [pc |-> "received", mem |-> readStore, wal |-> walPath, gen |-> 0]

\* Mutant of Send: the action never reaches the flusher.
SendUnreceived(c) == op[c].pc = "send" /\ UNCHANGED vars

Send(c) ==
  /\ op[c].pc = "send"
  /\ FlushAction(walNum - 1)
  /\ Unlocked(c, Absent)
  /\ UNCHANGED <<disk, phase, toRemove, walNum, stores, generation, readers,
                 readLocks, mgrLock, cp, bounds>>

(***************************************************************************)
(* GetBytes: under the read lock, the current sstable reader (which waits  *)
(* for the manager lock) first, the memstores second.                      *)
(***************************************************************************)
GetSSTable(c, k) ==
  /\ phase = "up"
  /\ op[c].pc = "idle"
  /\ CanRLock
  /\ mgrLock = "free"
  /\ readLocks' = readLocks \cup {c}
  /\ op' = [op EXCEPT ![c] = [pc |-> "get", key |-> k, cell |-> Newest(readers, k)]]
  /\ UNCHANGED <<disk, phase, toRemove, walNum, stores, generation, readers,
                 dbLock, mgrLock, fl, cp, bounds>>

\* Mutant of GetMemstore: a value of the sstables wins.
GetMemstoreLast(c) ==
  /\ op[c].pc = "get"
  /\ readLocks' = readLocks \ {c}
  /\ op' = [op EXCEPT ![c] = Idle(ValueOf(Over(op[c].cell, MemValue(op[c].key))))]
  /\ UNCHANGED <<disk, phase, toRemove, walNum, stores, generation, readers,
                 dbLock, mgrLock, fl, cp, bounds>>

GetMemstore(c) ==
  /\ op[c].pc = "get"
  /\ readLocks' = readLocks \ {c}
  /\ op' = [op EXCEPT ![c] = Idle(GetBytes(op[c].cell, op[c].key))]
  /\ UNCHANGED <<disk, phase, toRemove, walNum, stores, generation, readers,
                 dbLock, mgrLock, fl, cp, bounds>>

ClientStep(c) == Upsert(c) \/ Delete(c) \/ Send(c) \/ GetMemstore(c)

ClientCall(c) ==
  \E k \in Keys :
    \/ c \in Writers /\ \E v \in Values : PutBytes(c, k, v)
    \/ c \in Writers /\ DeleteBytes(c, k)
    \/ c \in Readers /\ GetSSTable(c, k)
=============================================================================
