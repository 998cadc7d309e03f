----------------------------- MODULE DiskIndex ------------------------------
(***************************************************************************)
(* DiskKeyIndex: lookups and range scans on the index file of a table by a *)
(* binary search over the offsets of the file.  A probe at an offset reads *)
(* the first record that starts there or later; SeekNextFinds of RecordIO  *)
(* shows that of the reader.  The cache of probes outlives a search.       *)
(***************************************************************************)
EXTENDS Integers, Sequences, FiniteSetsExt

CONSTANTS
  IndexFiles,          \* index files: the key at each record's offset, and the size
  Targets,             \* keys that are looked for
  offsetCacheMaxSize,
  MaxCalls             \* bound: calls of the index

NoKey == 0             \* the key of an empty IndexEntry, less than any other

(***************************************************************************)
(* The writer accepts ascending keys only.                                 *)
(***************************************************************************)
IsIndexFile(f) ==
  /\ f.size \in Nat /\ DOMAIN f.index \subseteq 0..(f.size - 1)
  /\ \A x \in DOMAIN f.index : f.index[x] \in Nat \ {NoKey}
  /\ \A x, y \in DOMAIN f.index : x < y => f.index[x] < f.index[y]

ASSUME DiskIndexAssumption ==
  /\ \A f \in IndexFiles : IsIndexFile(f)
  /\ Targets \subseteq Nat \ {NoKey}
  /\ offsetCacheMaxSize \in Nat /\ MaxCalls \in Nat

VARIABLES
  index,               \* the file: the offset of each record and its key
  size,                \* bytes of the file
  offsetCache,         \* offsets probed before and the key read there
  pc, i, j, target,    \* the binary search
  call,                \* the call it serves, with its arguments
  res,                 \* its result: an offset, whether the key was found, the key
  it,                  \* the iterator: its offsets and the keys it has returned
  calls

vars == <<index, size, offsetCache, pc, i, j, target, call, res, it, calls>>

Init ==
  /\ \E f \in IndexFiles : index = f.index /\ size = f.size
  /\ offsetCache = <<>>
  /\ pc = "idle" /\ i = 0 /\ j = 0 /\ target = NoKey
  /\ call = [op |-> "none", lower |-> NoKey, higher |-> NoKey]
  /\ res = [off |-> 0, found |-> FALSE, key |-> NoKey]
  /\ it = [cur |-> 0, end |-> 0, out |-> <<>>, done |-> TRUE] /\ calls = 0

(***************************************************************************)
(* SeekNext: the first record at offset o or later, if there is one.       *)
(***************************************************************************)
From(o) == {x \in DOMAIN index : x >= o}
IsFirst(x, o) == x \in From(o) /\ \A y \in From(o) : x <= y
SeekNext(o) == CHOOSE x \in From(o) : IsFirst(x, o)

(***************************************************************************)
(* findAt: a record that is cached is returned without an error, also the  *)
(* empty one that was cached when there was no record.                     *)
(***************************************************************************)
AtEOF(o) == o \notin DOMAIN offsetCache /\ From(o) = {}

RecordKey(o) == IF From(o) = {} THEN NoKey ELSE index[SeekNext(o)]

KeyAt(o) == IF o \in DOMAIN offsetCache THEN offsetCache[o] ELSE RecordKey(o)

FindAt(o) ==
  offsetCache' =
    IF o \notin DOMAIN offsetCache /\ Cardinality(DOMAIN offsetCache) < offsetCacheMaxSize
    THEN [x \in DOMAIN offsetCache \cup {o} |-> KeyAt(x)]
    ELSE offsetCache

-----------------------------------------------------------------------------
(***************************************************************************)
(* binarySearch, a probe per step.                                         *)
(***************************************************************************)
Search(t) ==
  /\ pc' = "loop" /\ i' = 0 /\ j' = size /\ target' = t

Result(off, found, key) ==
  /\ pc' = "result" /\ res' = [off |-> off, found |-> found, key |-> key]
  /\ UNCHANGED <<i, j>>

Middle == (i + j) \div 2

\* Mutant of Narrow: the middle stays in the lower half.
NarrowLess(h) ==
  /\ IF KeyAt(h) < target THEN i' = h /\ j' = j ELSE j' = h /\ i' = i
  /\ UNCHANGED <<pc, res>>

\* Mutant of Narrow: compares the other way round.
NarrowSwapped(h) ==
  /\ IF target < KeyAt(h) THEN i' = h + 1 /\ j' = j ELSE j' = h /\ i' = i
  /\ UNCHANGED <<pc, res>>

Narrow(h) ==
  /\ IF KeyAt(h) < target THEN i' = h + 1 /\ j' = j ELSE j' = h /\ i' = i
  /\ UNCHANGED <<pc, res>>

Probe ==
  /\ pc = "loop" /\ i < j
  /\ FindAt(Middle)
  /\ IF AtEOF(Middle) THEN Result(size, FALSE, NoKey) ELSE Narrow(Middle)
  /\ UNCHANGED <<index, size, target, call, it, calls>>

\* Mutant of Matches: forgets to compare the record that was found.
MatchesAny == i < size

Matches == i < size /\ KeyAt(i) = target

Arrive ==
  /\ pc = "loop" /\ i >= j
  /\ FindAt(i)
  /\ IF AtEOF(i) THEN Result(size, FALSE, NoKey) ELSE Result(i, Matches, KeyAt(i))
  /\ UNCHANGED <<index, size, target, call, it, calls>>

-----------------------------------------------------------------------------
(***************************************************************************)
(* The calls.  IteratorBetween searches twice; keyLower > keyHigher is     *)
(* refused before.                                                         *)
(***************************************************************************)
Begin(op, lower, higher) ==
  /\ pc = "idle" /\ calls < MaxCalls
  /\ Search(lower)
  /\ call' = [op |-> op, lower |-> lower, higher |-> higher] /\ calls' = calls + 1
  /\ it' = [cur |-> 0, end |-> 0, out |-> <<>>, done |-> TRUE]
  /\ UNCHANGED <<index, size, offsetCache, res>>

Get(k) == Begin("Get", k, k)
IteratorStartingAt(k) == Begin("StartingAt", k, k)
IteratorBetween(lower, higher) == lower <= higher /\ Begin("Between", lower, higher)

Returned ==
  /\ pc = "result" /\ call.op = "Get"
  /\ pc' = "idle"
  /\ UNCHANGED <<index, size, offsetCache, i, j, target, call, res, it, calls>>

NewIterator(from, to) ==
  /\ it' = [cur |-> from, end |-> to, out |-> <<>>, done |-> FALSE] /\ pc' = "iterate"

StartFound ==
  /\ pc = "result" /\ call.op = "StartingAt"
  /\ NewIterator(res.off, size)
  /\ UNCHANGED <<index, size, offsetCache, i, j, target, call, res, calls>>

LowerFound ==
  /\ pc = "result" /\ call.op = "Between"
  /\ it' = [it EXCEPT !.cur = res.off]
  /\ call' = [call EXCEPT !.op = "BetweenHigher"]
  /\ Search(call.higher)
  /\ UNCHANGED <<index, size, offsetCache, res, calls>>

\* Mutant of HigherFound: takes the offset of the second search for both.
HigherFoundTwice ==
  /\ pc = "result" /\ call.op = "BetweenHigher"
  /\ NewIterator(res.off, res.off)
  /\ UNCHANGED <<index, size, offsetCache, i, j, target, call, res, calls>>

HigherFound ==
  /\ pc = "result" /\ call.op = "BetweenHigher"
  /\ NewIterator(it.cur, res.off)
  /\ UNCHANGED <<index, size, offsetCache, i, j, target, call, res, calls>>

Exhausted == it.cur > it.end \/ From(it.cur) = {}

IteratorNext ==
  /\ pc = "iterate" /\ ~Exhausted
  /\ LET x == SeekNext(it.cur)
     IN  it' = [it EXCEPT !.cur = x + 1, !.out = Append(@, index[x])]
  /\ UNCHANGED <<index, size, offsetCache, pc, i, j, target, call, res, calls>>

Done ==
  /\ pc = "iterate" /\ Exhausted
  /\ it' = [it EXCEPT !.done = TRUE] /\ pc' = "idle"
  /\ UNCHANGED <<index, size, offsetCache, i, j, target, call, res, calls>>

Calls ==
  \/ \E k \in Targets : Get(k) \/ IteratorStartingAt(k)
  \/ \E lower, higher \in Targets : IteratorBetween(lower, higher)

Steps ==
  Probe \/ Arrive \/ Returned \/ StartFound \/ LowerFound \/ HigherFound \/ IteratorNext \/ Done

Next == Calls \/ Steps

Spec == Init /\ [][Next]_vars /\ WF_vars(Steps)

-----------------------------------------------------------------------------
IndexKeys == {index[x] : x \in DOMAIN index}

OfKey(k) == CHOOSE x \in DOMAIN index : index[x] = k

KeysBetween(a, b) == {k \in IndexKeys : a <= k /\ k <= b}

Ascending(s, S) ==
  /\ {s[n] : n \in DOMAIN s} = S
  /\ \A n \in 1..(Len(s) - 1) : s[n] < s[n + 1]

(***************************************************************************)
(* The comment in binarySearch: records from j on are not below the        *)
(* target, and records before i are.  The second is lost, in a file of any *)
(* layout, only when the end of the file was cached as an empty record,    *)
(* which compares as less than every key and takes i behind the last       *)
(* record.                                                                 *)
(***************************************************************************)
SearchSound ==
  pc = "loop" =>
    /\ \A x \in From(j) : index[x] >= target
    /\ \/ \A x \in DOMAIN index : x < i => index[x] < target
       \/ From(i) = {} /\ \E o \in DOMAIN offsetCache : offsetCache[o] = NoKey

(***************************************************************************)
(* Whatever was probed before, a key that is found is in the index, and    *)
(* the offset leads to its record.                                         *)
(***************************************************************************)
FoundIsRight ==
  pc = "result" /\ res.found =>
    /\ target \in IndexKeys
    /\ IsFirst(OfKey(target), res.off) /\ res.key = target

(***************************************************************************)
(* A probe behind the start of the last record finds no record and ends    *)
(* the search.  The last record can be found if no probe on the way to it  *)
(* falls there: the largest i before it is one behind the start of the     *)
(* record before, or zero.                                                 *)
(***************************************************************************)
LastIsReachable ==
  index # <<>> =>
    LET last   == Max(DOMAIN index)
        before == DOMAIN index \ {last}
        low    == IF before = {} THEN 0 ELSE Max(before) + 1
    IN  (low + size) \div 2 <= last

(***************************************************************************)
(* In every file a search for a key of the index finds it, unless it has   *)
(* run behind the last record.  In files where that cannot happen the      *)
(* answers are complete: Contains and Get find a key if and only if it is  *)
(* in the index, IteratorStartingAt returns the keys from the given one    *)
(* on, and IteratorBetween those of its range, if its upper end is in the  *)
(* index or above all of it, in order and once.                            *)
(***************************************************************************)
Above(k) == {m \in IndexKeys : m > k}

Scanned(op) == it.done /\ pc = "idle" /\ call.op = op

IndexComplete ==
  /\ pc = "result" /\ target \in IndexKeys => res.found \/ From(res.off) = {}
  /\ LastIsReachable =>
       /\ pc = "result" => (res.found <=> target \in IndexKeys)
       /\ Scanned("StartingAt") => Ascending(it.out, {k \in IndexKeys : k >= call.lower})
       /\ Scanned("BetweenHigher") /\ (call.higher \in IndexKeys \/ Above(call.higher) = {}) =>
            Ascending(it.out, KeysBetween(call.lower, call.higher))

(***************************************************************************)
(* "Get returns the IndexVal that compares equal to the key supplied or    *)
(* returns skiplist.NotFound if it does not exist", in files of any        *)
(* layout.                                                                 *)
(***************************************************************************)
GetFinds == pc = "result" /\ call.op = "Get" => (res.found <=> target \in IndexKeys)

(***************************************************************************)
(* IteratorBetween returns an iterator "until the given keyHigher was      *)
(* reached (inclusive if key is in the index)": no key above it.           *)
(***************************************************************************)
RangeEnds ==
  call.op = "BetweenHigher" => \A n \in DOMAIN it.out : it.out[n] <= call.higher

(***************************************************************************)
(* Every search and every scan comes to an end.                            *)
(***************************************************************************)
CallsReturn == pc # "idle" ~> pc = "idle"

====
