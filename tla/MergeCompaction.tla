-------------------------- MODULE MergeCompaction ---------------------------
(***************************************************************************)
(* The merge behind a compaction as it runs: one iterator per table, the   *)
(* priority queue over them, the iterator that reduces the records of a    *)
(* key to one, and the writer they go to.  Tables has the result of it in  *)
(* closed form; here it is computed record by record.                      *)
(***************************************************************************)
EXTENDS Tables, SequencesExt

CONSTANT MaxTables  \* bound: tables in a merge

ASSUME MaxTablesAssumption == MaxTables \in Nat

VARIABLES
  tables,   \* the inputs, oldest first; the context of an iterator is its index
  pos,      \* records each iterator has returned
  heap,     \* PriorityQueue.heap without its reserved first element
  prevKey,  \* MergeCompactionIterator.prevKey
  buf,      \* its valBuf and ctxBuf, a record each
  out,      \* records the writer has accepted
  mergeState  \* "init" while the queue is filled, "merge", "done"

mergeVars == <<tables, pos, heap, prevKey, buf, out, mergeState>>

(***************************************************************************)
(* The nil key compares as the empty one, before all others.               *)
(***************************************************************************)
NilKey == -1

(***************************************************************************)
(* The records of a table's scan.  In a table left half written the index  *)
(* yields its keys and every read of a value fails; the merge context      *)
(* drops the error and passes nil for key and value.                       *)
(***************************************************************************)
Scan(t) ==
  LET keys == SetToSortSeq(KeysOf(t.cells), <)
  IN  CASE t.stage = "headers" -> <<>>
        [] t.stage = "complete" ->
             [i \in DOMAIN keys |-> [key |-> keys[i], val |-> t.cells[keys[i]]]]
        [] OTHER -> [i \in DOMAIN keys |-> [key |-> NilKey, val |-> Tombstone]]

ScanEnded(c) == pos[c] = Len(Scan(tables[c]))

(***************************************************************************)
(* fillNext: the element of an iterator with its next record.              *)
(***************************************************************************)
FillNext(c) ==
  LET r == Scan(tables[c])[pos[c] + 1]
  IN  [key |-> r.key, val |-> r.val, ctx |-> c]

RECURSIVE UpHeap(_, _)
UpHeap(h, i) ==
  LET j == i \div 2
  IN  IF j > 0 /\ h[i].key < h[j].key
      THEN UpHeap([h EXCEPT ![i] = h[j], ![j] = h[i]], j)
      ELSE h

(***************************************************************************)
(* downHeap goes to the smaller child as long as that is smaller.          *)
(***************************************************************************)
\* Mutant of SmallerChild: the last element is never a right child.
SmallerChildShort(h, i) ==
  IF 2 * i + 1 < Len(h) /\ h[2 * i + 1].key < h[2 * i].key
  THEN 2 * i + 1 ELSE 2 * i

SmallerChild(h, i) ==
  IF 2 * i + 1 <= Len(h) /\ h[2 * i + 1].key < h[2 * i].key
  THEN 2 * i + 1 ELSE 2 * i

RECURSIVE DownHeap(_, _)
DownHeap(h, i) ==
  IF 2 * i <= Len(h) /\ h[SmallerChild(h, i)].key < h[i].key
  THEN LET j == SmallerChild(h, i)
       IN  DownHeap([h EXCEPT ![i] = h[j], ![j] = h[i]], j)
  ELSE h

(***************************************************************************)
(* PriorityQueue.Next: the root gets the next record of its iterator, or   *)
(* is replaced by the last leaf when there is none.                        *)
(***************************************************************************)
PopHeap ==
  LET n == Len(heap)
      c == heap[1].ctx
  IN  IF ScanEnded(c)
      THEN IF n = 1 THEN <<>> ELSE DownHeap([Front(heap) EXCEPT ![1] = heap[n]], 1)
      ELSE DownHeap([heap EXCEPT ![1] = FillNext(c)], 1)

(***************************************************************************)
(* ScanReduceLatestWins: the first value with the largest context.         *)
(***************************************************************************)
\* Mutant of LatestWins: the first value, whatever its context.
FirstWins(b) == b[1].val

LatestWins(b) ==
  LET latest == Max({b[i].ctx : i \in DOMAIN b})
  IN  b[Min({i \in DOMAIN b : b[i].ctx = latest})].val

(***************************************************************************)
(* Next returns the reduced record unless its key or its value is nil, and *)
(* it goes to WriteNext, which refuses keys that do not ascend.  The error *)
(* of WriteNext is ignored.                                                *)
(***************************************************************************)
ReturnedRecord == prevKey # NilKey /\ LatestWins(buf) # Tombstone

WriteNextAccepts == out = <<>> \/ Last(out).key < prevKey

WriteReduced ==
  out' = IF ReturnedRecord /\ WriteNextAccepts
         THEN Append(out, [key |-> prevKey, val |-> LatestWins(buf)])
         ELSE out
-----------------------------------------------------------------------------
MergeInit ==
  /\ tables = <<>> /\ pos = <<>> /\ heap = <<>>
  /\ prevKey = NilKey /\ buf = <<>> /\ out = <<>>
  /\ mergeState = "init"

(***************************************************************************)
(* PriorityQueue.init adds the iterator of a table; one without a record   *)
(* is left out.                                                            *)
(***************************************************************************)
AddIterator(t) ==
  LET c == Len(tables) + 1
      r == Scan(t)
  IN  /\ mergeState = "init"
      /\ c <= MaxTables
      /\ tables' = Append(tables, t)
      /\ IF r = <<>>
         THEN pos' = Append(pos, 0) /\ UNCHANGED heap
         ELSE /\ pos' = Append(pos, 1)
              /\ heap' = UpHeap(Append(heap, [key |-> r[1].key, val |-> r[1].val, ctx |-> c]),
                                Len(heap) + 1)
      /\ UNCHANGED <<prevKey, buf, out, mergeState>>

Start ==
  /\ mergeState = "init"
  /\ mergeState' = "merge"
  /\ UNCHANGED <<tables, pos, heap, prevKey, buf, out>>

(***************************************************************************)
(* MergeCompactionIterator.Next collects the values of a key until the     *)
(* next key comes, and then reduces them.                                  *)
(***************************************************************************)
Popped == [val |-> heap[1].val, ctx |-> heap[1].ctx]

Pop ==
  /\ mergeState = "merge"
  /\ heap # <<>>
  /\ heap' = PopHeap
  /\ pos' = [pos EXCEPT ![heap[1].ctx] = IF ScanEnded(heap[1].ctx) THEN @ ELSE @ + 1]
  /\ prevKey' = heap[1].key
  /\ UNCHANGED <<tables, mergeState>>

Accumulate ==
  /\ Pop
  /\ IF prevKey # NilKey /\ heap[1].key # prevKey
     THEN buf' = <<Popped>> /\ WriteReduced
     ELSE buf' = Append(buf, Popped) /\ UNCHANGED out

(***************************************************************************)
(* When the queue is empty the last key is reduced and the buffer cleared; *)
(* with nothing left to return the merge is done.                          *)
(***************************************************************************)
ReduceRest ==
  /\ mergeState = "merge" /\ heap = <<>>
  /\ buf # <<>> /\ ReturnedRecord
  /\ WriteReduced
  /\ buf' = <<>>
  /\ UNCHANGED <<tables, pos, heap, prevKey, mergeState>>

\* Mutant of MergeDone: Next goes on when the last key reduces to nothing.
MergeDoneWhenCleared ==
  /\ mergeState = "merge" /\ heap = <<>>
  /\ buf # <<>> => ~ReturnedRecord
  /\ mergeState' = IF buf = <<>> THEN "done" ELSE mergeState
  /\ UNCHANGED <<tables, pos, heap, prevKey, buf, out>>

MergeDone ==
  /\ mergeState = "merge" /\ heap = <<>>
  /\ buf # <<>> => ~ReturnedRecord
  /\ mergeState' = "done"
  /\ UNCHANGED <<tables, pos, heap, prevKey, buf, out>>

Ended == mergeState = "done" /\ UNCHANGED mergeVars

(***************************************************************************)
(* Every table has a value of its own, so that the origin of a record can  *)
(* be told; of the tables left half written one is enough per set of keys. *)
(***************************************************************************)
Inputs(i) ==
  [stage : {"complete"}, cells : [Keys -> {Absent, Tombstone, i}]]
    \cup [stage : {"index"}, cells : [Keys -> {Absent, i}]]
    \cup [stage : {"headers"}, cells : [Keys -> {i}]]

MergeNext ==
  \/ \E t \in Inputs(Len(tables) + 1) : AddIterator(t)
  \/ Start \/ Accumulate \/ ReduceRest \/ MergeDone \/ Ended

MergeStep == Accumulate \/ ReduceRest \/ MergeDone

MergeSpec == MergeInit /\ [][MergeNext]_mergeVars /\ WF_mergeVars(MergeStep)
-----------------------------------------------------------------------------
(***************************************************************************)
(* The queue returns the smallest key: the heap is ordered after upHeap    *)
(* and downHeap.  No iterator is lost or doubled in it when exhausted ones *)
(* are removed, and each has in it the record it returned last.            *)
(***************************************************************************)
HeapSound ==
  /\ \A i \in 2..Len(heap) : heap[i \div 2].key <= heap[i].key
  /\ mergeState # "done" =>
       /\ \A i, j \in DOMAIN heap : heap[i].ctx = heap[j].ctx => i = j
       /\ \A i \in DOMAIN heap :
            LET r == Scan(tables[heap[i].ctx])[pos[heap[i].ctx]]
            IN  heap[i].key = r.key /\ heap[i].val = r.val
       /\ \A c \in DOMAIN tables :
            ScanEnded(c) \/ \E i \in DOMAIN heap : heap[i].ctx = c

(***************************************************************************)
(* The merge computes what the database model takes it to compute, also    *)
(* when some of its tables cannot be read.  MergeCompact ignores the error *)
(* of WriteNext; the only one without an I/O failure, a key that does not  *)
(* ascend, never occurs on the way.                                        *)
(***************************************************************************)
Written(k) ==
  IF \E i \in DOMAIN out : out[i].key = k
  THEN out[CHOOSE i \in DOMAIN out : out[i].key = k].val ELSE Absent

MergesAsSpecified ==
  /\ mergeState = "merge" /\ buf # <<>> /\ prevKey # NilKey => WriteNextAccepts
  /\ mergeState = "done" => \A k \in Keys : Written(k) = MergeCompact(tables)[k]

(***************************************************************************)
(* A merge that has started ends.                                          *)
(***************************************************************************)
MergeEnds == mergeState = "merge" ~> mergeState = "done"
=============================================================================
