----------------------------- MODULE ReaderList -----------------------------
(***************************************************************************)
(* SSTableManager's list of readers as the slice it is: addReader and      *)
(* reflectCompactionResult change arrays that a SuperSSTableReader handed  *)
(* to a Get still shares.  One key is followed; a reader holds a version   *)
(* of it or not.  DBCompaction has the same steps over a map, with their   *)
(* files and crashes.                                                      *)
(***************************************************************************)
EXTENDS Integers, Sequences, FiniteSetsExt

CONSTANTS
  Gets,             \* concurrent calls of Get
  MaxReaders,       \* bound: flushes
  MaxCompactions    \* bound: compactions

ASSUME ReaderListAssumption == MaxReaders \in Nat /\ MaxCompactions \in Nat

VARIABLES
  arrays,           \* the arrays behind the slices
  allSSTableReaders,
  currentReader,    \* the slice of the SuperSSTableReader
  closed,           \* readers that are closed, their files removed
  flushed,          \* tables flushed so far, the number of the newest
  compaction,       \* the one under way: its step, its inputs, the paths left to remove
  made,             \* readers opened so far
  compactions,
  get               \* the calls of Get

list == <<arrays, allSSTableReaders, currentReader>>
listVars == <<list, closed, flushed, compaction, made, compactions, get>>

NotFound == 0

NoReader == [id |-> 0, path |-> 0, version |-> NotFound]

(* A slice is an array, by its number, and a length. *)
Empty == [array |-> 0, len |-> 0]

At(slice, i) == arrays[slice.array][i]

NoCompaction == [pc |-> "none", old |-> {}, left |-> {}]

NoGet == [pc |-> "idle", slice |-> Empty, i |-> 0, newest |-> 0, res |-> NotFound]

ListInit ==
  /\ arrays = <<>> /\ allSSTableReaders = Empty /\ currentReader = Empty
  /\ closed = {} /\ flushed = 0 /\ compaction = NoCompaction /\ made = 0 /\ compactions = 0
  /\ get = [c \in Gets |-> NoGet]

-----------------------------------------------------------------------------

(* reflectCompactionResult has the locks of the database and the manager. *)
Locked == compaction.pc \in {"replace", "remove"}

Capacity(slice) == IF slice.array = 0 THEN 0 ELSE Len(arrays[slice.array])

(* append: in place while there is room, else into an array twice the size. *)
AddReaderTo(slice, reader) ==
  IF slice.len < Capacity(slice)
  THEN /\ arrays' = [arrays EXCEPT ![slice.array][slice.len + 1] = reader]
       /\ allSSTableReaders' = [slice EXCEPT !.len = @ + 1]
  ELSE /\ arrays' = Append(arrays,
            [i \in 1..Max({1, 2 * slice.len}) |->
               IF i <= slice.len THEN At(slice, i) ELSE IF i = slice.len + 1 THEN reader ELSE NoReader])
       /\ allSSTableReaders' = [array |-> Len(arrays) + 1, len |-> slice.len + 1]

(* addReader of a flush, with the key or without it. *)
AddReader ==
  /\ ~Locked /\ flushed < MaxReaders
  /\ flushed' = flushed + 1 /\ made' = made + 1
  /\ \E version \in {NotFound, flushed + 1} :
       AddReaderTo(allSSTableReaders, [id |-> made + 1, path |-> flushed + 1, version |-> version])
  /\ currentReader' = allSSTableReaders'
  /\ UNCHANGED <<closed, compaction, compactions, get>>

-----------------------------------------------------------------------------

(* The first true after i, or the length and one. *)
NextTrue(a, i) == Min({j \in DOMAIN a : j > i /\ a[j]} \cup {Len(a) + 1})

\* Mutant of floodFill: leaves the gaps.
floodFillOff(a) == a

(* The gap between a true and the next one is filled. *)
floodFill(a) ==
  [x \in DOMAIN a |-> a[x] \/ \E i \in 1..(x - 1) : a[i] /\ NextTrue(a, i) > x /\ NextTrue(a, i) <= Len(a)]

(* candidateTablesForCompaction: any table may be small enough. *)
SelectCandidates ==
  /\ compaction.pc = "none" /\ compactions < MaxCompactions
  /\ \E selected \in [1..allSSTableReaders.len -> BOOLEAN] :
       LET picked == {i \in DOMAIN selected : floodFill(selected)[i]}
       IN  /\ picked # {}
           /\ compaction' = [pc |-> "merge", left |-> {},
                              old |-> {At(allSSTableReaders, i) : i \in picked}]
  /\ compactions' = compactions + 1
  /\ UNCHANGED <<list, closed, flushed, made, get>>

Paths(readers) == {r.path : r \in readers}

(* MergeCompact keeps the version of the last input that has one. *)
Merged(readers) ==
  LET holding == {r \in readers : r.version # NotFound}
  IN IF holding = {} THEN NotFound
     ELSE (CHOOSE r \in holding : r.path = Max(Paths(holding))).version

\* Mutant of ReflectCompactionResult: takes the manager's lock only.
ReflectCompactionResultUnlocked ==
  /\ compaction.pc = "merge"
  /\ closed' = closed \cup {r.id : r \in compaction.old}
  /\ compaction' = [compaction EXCEPT !.pc = "replace"]
  /\ UNCHANGED <<list, flushed, made, compactions, get>>

(* reflectCompactionResult takes the database lock, so no Get is under way,
   and closes and removes the inputs. *)
ReflectCompactionResult ==
  /\ compaction.pc = "merge" /\ \A c \in Gets : get[c].pc # "walk"
  /\ closed' = closed \cup {r.id : r \in compaction.old}
  /\ compaction' = [compaction EXCEPT !.pc = "replace"]
  /\ UNCHANGED <<list, flushed, made, compactions, get>>

indexOfReader(slice, path) == CHOOSE i \in 1..slice.len : At(slice, i).path = path

(* The result takes the place of the first input. *)
ReplaceReader ==
  LET slice == allSSTableReaders
      first == Min(Paths(compaction.old))
      replacedReader == [id |-> made + 1, path |-> first, version |-> Merged(compaction.old)]
  IN  /\ compaction.pc = "replace"
      /\ arrays' = [arrays EXCEPT ![slice.array][indexOfReader(slice, first)] = replacedReader]
      /\ compaction' = [compaction EXCEPT !.pc = "remove", !.left = Paths(compaction.old) \ {first}]
      /\ made' = made + 1
      /\ UNCHANGED <<allSSTableReaders, currentReader, closed, flushed, compactions, get>>

(* removeReaderAt: what is behind it moves up in the same array. *)
RemovedAt(slice, i) ==
  [n \in DOMAIN arrays[slice.array] |-> IF n >= i /\ n < slice.len THEN At(slice, n + 1) ELSE At(slice, n)]

(* The other inputs are removed one by one. *)
RemoveReader ==
  LET slice == allSSTableReaders
      path == Min(compaction.left)
  IN  /\ compaction.pc = "remove" /\ compaction.left # {}
      /\ arrays' = [arrays EXCEPT ![slice.array] = RemovedAt(slice, indexOfReader(slice, path))]
      /\ allSSTableReaders' = [slice EXCEPT !.len = @ - 1]
      /\ compaction' = [compaction EXCEPT !.left = @ \ {path}]
      /\ UNCHANGED <<currentReader, closed, flushed, made, compactions, get>>

ReflectEnd ==
  /\ compaction.pc = "remove" /\ compaction.left = {}
  /\ currentReader' = allSSTableReaders /\ compaction' = NoCompaction
  /\ UNCHANGED <<arrays, allSSTableReaders, closed, flushed, made, compactions, get>>

-----------------------------------------------------------------------------

NewestVersion == Max({NotFound} \cup {At(allSSTableReaders, i).version : i \in 1..allSSTableReaders.len})

(* GetBytes holds the read lock from here until it has its answer. *)
GetBegin(c) ==
  /\ ~Locked /\ get[c].pc = "idle"
  /\ get' = [get EXCEPT ![c] = [pc |-> "walk", slice |-> currentReader, i |-> currentReader.len,
                                newest |-> NewestVersion, res |-> NotFound]]
  /\ UNCHANGED <<list, closed, flushed, compaction, made, compactions>>

\* Mutant of GetStep: asks the oldest reader first.
GetStepForward(c) ==
  /\ get[c].pc = "walk" /\ get[c].i > 0
  /\ LET version == At(get[c].slice, get[c].slice.len - get[c].i + 1).version
     IN get' = [get EXCEPT ![c].i = @ - 1, ![c].res = version,
                           ![c].pc = IF version = NotFound THEN @ ELSE "done"]
  /\ UNCHANGED <<list, closed, flushed, compaction, made, compactions>>

(* SuperSSTableReader.Get asks the readers from back to front. *)
GetStep(c) ==
  /\ get[c].pc = "walk" /\ get[c].i > 0
  /\ LET version == At(get[c].slice, get[c].i).version
     IN get' = [get EXCEPT ![c].i = @ - 1, ![c].res = version,
                           ![c].pc = IF version = NotFound THEN @ ELSE "done"]
  /\ UNCHANGED <<list, closed, flushed, compaction, made, compactions>>

GetNotFound(c) ==
  /\ get[c].pc = "walk" /\ get[c].i = 0
  /\ get' = [get EXCEPT ![c].pc = "done"]
  /\ UNCHANGED <<list, closed, flushed, compaction, made, compactions>>

GetReturn(c) ==
  /\ get[c].pc = "done"
  /\ get' = [get EXCEPT ![c] = NoGet]
  /\ UNCHANGED <<list, closed, flushed, compaction, made, compactions>>

ListNext ==
  \/ AddReader \/ SelectCandidates
  \/ ReflectCompactionResult \/ ReplaceReader \/ RemoveReader \/ ReflectEnd
  \/ \E c \in Gets : GetBegin(c) \/ GetStep(c) \/ GetNotFound(c) \/ GetReturn(c)

ListSpec == ListInit /\ [][ListNext]_listVars

-----------------------------------------------------------------------------

(* A Get under way never comes to a reader that is closed, or to a place of
   the array that has none, although its slice shares the array with the list
   that flushes and compactions work on in place. *)
GetReadsOpen ==
  \A c \in Gets : get[c].pc = "walk" =>
    \A i \in 1..get[c].i : At(get[c].slice, i).id \notin closed \cup {NoReader.id}

(* A Get returns the newest version there was when it took the lock. *)
GetNewest == \A c \in Gets : get[c].pc = "done" => get[c].res = get[c].newest

Before(r, s) == r.path < s.path /\ (r.version < s.version \/ s.version = NotFound)

(* While the manager's lock is free the list is in the order of the paths, and
   a later reader never holds an older version: a compaction of tables that
   are not neighbours would put a newer version in front of an older one. *)
LineageOrdered ==
  ~Locked =>
    \A i, j \in 1..allSSTableReaders.len :
      i < j => Before(At(allSSTableReaders, i), At(allSSTableReaders, j))

=============================================================================
