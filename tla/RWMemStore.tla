----------------------------- MODULE RWMemStore -----------------------------
(***************************************************************************)
(* The write path of SimpleDB at the level of slices: PutBytes and         *)
(* DeleteBytes write a protobuf record to the WAL and change the RWMemstore*)
(* over two memstores; a flush moves one into the tables; after a crash    *)
(* the records are decoded again and replayed.  One WAL file per memstore, *)
(* calls and flushes in one step: DBClients and DBFlush interleave them.   *)
(***************************************************************************)
EXTENDS MemStore, Sequences

Seqs == INSTANCE SequencesExt

CONSTANTS
  StoreKeys,        \* lengths of the keys, one key each; empty and nil keys,
                    \* which compare equal, are left out
  StoreValues,      \* lengths of the values
  memstoreMaxSize,
  StoreCallers,     \* the callers there may be, of those below
  MaxMutations      \* bound: calls

(* Callers that put no empty value, callers that put any value, and callers
   that call the rest of MemStoreI past the database, too. *)
ASSUME RWMemStoreAssumption ==
  /\ StoreKeys \subseteq Nat \ {0} /\ StoreValues \subseteq Nat
  /\ memstoreMaxSize \in Nat /\ MaxMutations \in Nat
  /\ StoreCallers \subseteq {"nonempty", "any", "direct"}

VARIABLES
  callers,
  stores,           \* the memstores made so far
  rw,               \* RWMemstore: numbers of its readStore and writeStore
  toFlush,          \* the memstore handed to the flusher, or 0
  wal,              \* records of each memstore's WAL file, while it exists
  table,            \* newest value per key in the tables
  phase,            \* "up", or "failed" when Open returned an error
  expected,         \* last value per key of a call that returned no error
  mutations

storeVars == <<callers, stores, rw, toFlush, wal, table, phase, expected, mutations>>

(* NewSimpleDB gives one memstore both roles, until the first swap. *)
StoreInit ==
  /\ callers \in StoreCallers
  /\ stores = <<NewMemStore>> /\ rw = [readStore |-> 1, writeStore |-> 1] /\ toFlush = 0
  /\ wal = [n \in {1} |-> <<>>] /\ table = [key \in {} |-> Nil]
  /\ phase = "up" /\ expected = [key \in {} |-> Nil] /\ mutations = 0

readStore == stores[rw.readStore]
writeStore == stores[rw.writeStore]

-----------------------------------------------------------------------------

\* Mutant of RWGet: falls through to the read store for a tombstone, too.
RWGetFalling(key) ==
  IF StoreGet(writeStore, key).err = NoError THEN StoreGet(writeStore, key)
  ELSE StoreGet(readStore, key)

(* The write store wins, with its tombstones too. *)
RWGet(key) ==
  IF StoreGet(writeStore, key).err = "KeyNotFound" THEN StoreGet(readStore, key)
  ELSE StoreGet(writeStore, key)

RWDelete(key) ==
  IF Delete(writeStore, key).err = "KeyNotFound" THEN Tombstone(writeStore, key)
  ELSE Delete(writeStore, key)

Overlaid(below, above) ==
  [key \in DOMAIN below \cup DOMAIN above |->
     IF key \in DOMAIN above THEN above[key] ELSE below[key]]

(* GetBytes: Nil when it returns ErrNotFound. *)
GetBytes(memStoreGet, key) ==
  IF memStoreGet.err = NoError THEN memStoreGet.val
  ELSE IF memStoreGet.err = "KeyTombstoned" \/ key \notin DOMAIN table \/ Length(table[key]) = 0
  THEN Nil ELSE table[key]

(* proto3 leaves out an empty bytes field and reads it back as nil. *)
Decoded(slice) == IF Length(slice) = 0 THEN Nil ELSE slice

PutRecord(key, value) == [kind |-> "addition", key |-> Decoded(key), value |-> Decoded(value)]
DeleteRecord(key) == [kind |-> "deleteTombStone", key |-> Decoded(key), value |-> Nil]

Changed(res) == stores' = [stores EXCEPT ![rw.writeStore] = res.store]

Acked(key, value, err) ==
  expected' = IF err = NoError THEN Overlaid(expected, [k \in {key} |-> value]) ELSE expected

Appended(rec) == [wal EXCEPT ![rw.writeStore] = Append(@, rec)]

(* swapMemstore, and Rotate for the WAL. *)
Swapped(all, files) ==
  /\ stores' = Append(all, NewMemStore)
  /\ rw' = [readStore |-> rw.writeStore, writeStore |-> Len(all) + 1]
  /\ wal' = [n \in DOMAIN files \cup {Len(all) + 1} |-> IF n \in DOMAIN files THEN files[n] ELSE <<>>]
  /\ toFlush' = rw.writeStore

Called == phase = "up" /\ mutations < MaxMutations /\ mutations' = mutations + 1

(* The record is in the WAL before Upsert can refuse the value.  The send to
   the flusher blocks while it is at work. *)
PutBytes(key, value) ==
  LET res == Upsert(writeStore, key, value)
      all == [stores EXCEPT ![rw.writeStore] = res.store]
      files == Appended(PutRecord(key, value))
  IN /\ Called /\ Acked(key, value, res.err)
     /\ IF res.err = NoError /\ EstimatedSizeInBytes(res.store) > memstoreMaxSize
        THEN toFlush = 0 /\ Swapped(all, files)
        ELSE stores' = all /\ wal' = files /\ UNCHANGED <<rw, toFlush>>
     /\ UNCHANGED <<callers, table, phase>>

DeleteBytes(key) ==
  /\ Called /\ Changed(RWDelete(key)) /\ Acked(key, Nil, RWDelete(key).err)
  /\ wal' = Appended(DeleteRecord(key))
  /\ UNCHANGED <<callers, rw, toFlush, table, phase>>

(* Add, Delete, of which DeleteIfExists is another name, and Tombstone of
   RWMemstore without a record in the WAL. *)
RWCall(res) ==
  /\ callers = "direct" /\ Called /\ Changed(res)
  /\ UNCHANGED <<callers, rw, toFlush, wal, table, phase, expected>>

-----------------------------------------------------------------------------

(* executeFlush: the table, then its WAL file is removed and the table read. *)
Flush ==
  /\ phase = "up" /\ toFlush /= 0
  /\ table' = Overlaid(table, FlushWithTombstones(stores[toFlush]))
  /\ wal' = Restrict(wal, DOMAIN wal \ {toFlush}) /\ toFlush' = 0
  /\ UNCHANGED <<callers, stores, rw, phase, expected, mutations>>

\* Mutant of ReplayRecord: deletes only what the log has put before.
ReplayRecordDeleting(res, rec) ==
  IF res.err /= NoError THEN res
  ELSE IF rec.kind = "addition" THEN Upsert(res.store, rec.key, rec.value)
  ELSE DeleteIfExists(res.store, rec.key)

(* The callback of Replay; the first error ends it.  A record without key
   bytes is taken for one of the string fields, which are empty then. *)
ReplayRecord(res, rec) ==
  IF res.err /= NoError THEN res
  ELSE IF rec.kind = "addition"
  THEN IF Length(rec.key) > 0 THEN Upsert(res.store, rec.key, rec.value) ELSE Upsert(res.store, 0, 0)
  ELSE Tombstone(res.store, Length(rec.key))

Records == Seqs!FlattenSeq([n \in 1..Len(stores) |-> IF n \in DOMAIN wal THEN wal[n] ELSE <<>>])

Replay == Seqs!FoldLeft(ReplayRecord, Done(NewMemStore), Records)

(* A kill, and Open: replayAndSetupWriteAheadLog flushes what it replayed, if
   there was a record, and starts with an empty WAL. *)
ReopenFails ==
  /\ phase = "up" /\ Replay.err /= NoError /\ phase' = "failed"
  /\ UNCHANGED <<callers, stores, rw, toFlush, wal, table, expected, mutations>>

Reopen ==
  /\ phase = "up" /\ Replay.err = NoError
  /\ stores' = IF Records = <<>> THEN <<NewMemStore>> ELSE <<Replay.store, NewMemStore>>
  /\ rw' = [readStore |-> 1, writeStore |-> Len(stores')]
  /\ table' = Overlaid(table, FlushWithTombstones(Replay.store))
  /\ wal' = [n \in {Len(stores')} |-> <<>>] /\ toFlush' = 0
  /\ UNCHANGED <<callers, phase, expected, mutations>>

Slices == IF callers = "nonempty" THEN StoreValues \ {0} ELSE StoreValues \cup {Nil}

StoreNext ==
  \/ \E key \in StoreKeys : \E value \in Slices :
       PutBytes(key, value) \/ RWCall(Add(writeStore, key, value))
  \/ \E key \in StoreKeys : DeleteBytes(key) \/ RWCall(RWDelete(key)) \/ RWCall(Tombstone(writeStore, key))
  \/ Flush
  \/ Reopen \/ ReopenFails

StoreSpec == StoreInit /\ [][StoreNext]_storeVars

-----------------------------------------------------------------------------

(* The size that decides about a rotation, kept by differences over puts,
   revivals and deletes, is the length of the keys and values that are there;
   a tombstone counts its key. *)
SizeExact ==
  \A n \in 1..Len(stores) :
    stores[n].estimatedSize =
      MapThenSumSet(LAMBDA key : Length(key) + Length(stores[n].skipListMap[key]), DOMAIN stores[n].skipListMap)

(* A read sees the last call on the key that returned no error, through both
   memstores and the tables, while a memstore is being flushed too, and after
   a restart.  (What becomes of empty values is the matter of EmptyRefused.) *)
LastWriteWins ==
  callers = "nonempty" =>
    /\ phase = "up"
    /\ \A key \in StoreKeys :
         GetBytes(RWGet(key), key) = IF key \in DOMAIN expected THEN expected[key] ELSE Nil

(* A crash changes no answer: the records in the WAL replay without an error,
   and reads over the memstore they give, which knows tombstones only as
   Tombstone sets them, are those of the memstores that were lost. *)
ReplaySeesTheSame ==
  callers = "nonempty" =>
    /\ Replay.err = NoError
    /\ \A key \in StoreKeys :
         GetBytes(StoreGet(Replay.store, key), key) = GetBytes(RWGet(key), key)


=============================================================================
