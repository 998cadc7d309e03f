-------------------------- MODULE DiskIndexProofs ---------------------------
(***************************************************************************)
(* What a lookup by binary search finds is right, for every index file and *)
(* every size of the cache, which outlives the searches that filled it.    *)
(***************************************************************************)
EXTENDS SliceIndex, WellFoundedInduction, TLAPS

(***************************************************************************)
(* The inductive invariant: the file keeps its order, the search its       *)
(* bounds, the cache has for an offset what a read of the file gives, and  *)
(* a search that misses a key ends behind the last record.                 *)
(***************************************************************************)
FileSorted ==
  /\ size \in Nat /\ DOMAIN index \subseteq 0..(size - 1)
  /\ \A x \in DOMAIN index : index[x] \in Nat \ {NoKey}
  /\ \A x, y \in DOMAIN index : x < y => index[x] < index[y]

SearchTyped ==
  /\ i \in Nat /\ j \in Nat
  /\ pc \in {"loop", "result"} => target \in Nat \ {NoKey}
  /\ pc \in {"loop", "result"} => call.higher \in Nat \ {NoKey}

CacheRight ==
  /\ DOMAIN offsetCache \subseteq Nat
  /\ \A o \in DOMAIN offsetCache : offsetCache[o] = RecordKey(o)

MissedAtEnd == pc = "result" /\ target \in IndexKeys => res.found \/ From(res.off) = {}

IndexInv ==
  FileSorted /\ SearchTyped /\ CacheRight /\ FoundIsRight /\ SearchSound /\ MissedAtEnd

(***************************************************************************)
(* Every nonempty set of naturals has a least element.                     *)
(***************************************************************************)
LEMMA LeastNatural ==
  ASSUME NEW T \in SUBSET Nat, T # {}
  PROVE  \E x \in T : \A y \in T : x <= y
<1> DEFINE Less == OpToRel(<, Nat)
<1>1. \A a, b \in Nat : a < b => <<a, b>> \in Less
  BY DEF OpToRel
<1>2. IsWellFoundedOn(Less, Nat)
  BY NatLessThanWellFounded, Zenon
<1> HIDE DEF Less
<1>3. PICK x \in T : \A y \in T : ~ (<<y, x>> \in Less)
  BY <1>2, WFMin, Zenon
<1>4. \A y \in T : ~ (y < x)
  BY <1>1, <1>3, Zenon
<1> QED BY <1>4

(***************************************************************************)
(* SeekNext of an offset that is not behind the last record is the first   *)
(* record from there on.                                                   *)
(***************************************************************************)
LEMMA SeekNextIsFirst ==
  ASSUME FileSorted, NEW o \in Nat, From(o) # {}
  PROVE  IsFirst(SeekNext(o), o)
<1>1. From(o) \in SUBSET Nat
  BY DEF From, FileSorted
<1>2. PICK x \in From(o) : \A y \in From(o) : x <= y
  BY <1>1, LeastNatural
<1>3. \E x1 \in From(o) : IsFirst(x1, o)
  BY <1>2 DEF IsFirst
<1> QED BY <1>3 DEF SeekNext

(***************************************************************************)
(* A key read at an offset is that of the first record from there on, and  *)
(* is the empty one when there is none.                                    *)
(***************************************************************************)
LEMMA RecordKeyOfFirst ==
  ASSUME FileSorted, NEW o \in Nat, RecordKey(o) # NoKey
  PROVE  \E x \in DOMAIN index : IsFirst(x, o) /\ index[x] = RecordKey(o)
<1>1. From(o) # {} /\ RecordKey(o) = index[SeekNext(o)]
  BY DEF RecordKey
<1>2. IsFirst(SeekNext(o), o)
  BY <1>1, SeekNextIsFirst
<1> QED BY <1>1, <1>2 DEF IsFirst, From

(***************************************************************************)
(* No two records have the same key, so a key has one offset.              *)
(***************************************************************************)
LEMMA OffsetOfKey ==
  ASSUME FileSorted, NEW x \in DOMAIN index
  PROVE  index[x] \in IndexKeys /\ OfKey(index[x]) = x
<1>1. \A y \in DOMAIN index : index[y] = index[x] => y = x
  BY DEF FileSorted
<1>2. PICK y \in DOMAIN index : y = OfKey(index[x]) /\ index[y] = index[x]
  BY DEF OfKey
<1> QED BY <1>1, <1>2 DEF IndexKeys

(***************************************************************************)
(* With a right cache, findAt returns what a read of the file returns.     *)
(***************************************************************************)
LEMMA KeyAtIsRead ==
  ASSUME CacheRight, NEW o
  PROVE  KeyAt(o) = RecordKey(o)
BY DEF CacheRight, KeyAt

(***************************************************************************)
(* findAt keeps the cache right, and only adds to it.                      *)
(***************************************************************************)
LEMMA FindAtKeepsCache ==
  ASSUME CacheRight, NEW o \in Nat, FindAt(o), UNCHANGED index
  PROVE  /\ CacheRight'
         /\ \A x \in DOMAIN offsetCache :
              x \in DOMAIN offsetCache' /\ offsetCache'[x] = offsetCache[x]
<1>1. \A x : RecordKey(x)' = RecordKey(x)
  BY DEF RecordKey, SeekNext, IsFirst, From
<1>2. CASE offsetCache' = offsetCache
  BY <1>1, <1>2 DEF CacheRight
<1>3. CASE offsetCache' = [x \in DOMAIN offsetCache \cup {o} |-> KeyAt(x)]
  <2>1. /\ DOMAIN offsetCache' = DOMAIN offsetCache \cup {o}
        /\ \A x \in DOMAIN offsetCache' : offsetCache'[x] = KeyAt(x)
    BY <1>3
  <2>2. \A x \in DOMAIN offsetCache' : offsetCache'[x] = RecordKey(x)'
    BY <2>1, <1>1, KeyAtIsRead
  <2>3. \A x \in DOMAIN offsetCache : offsetCache'[x] = offsetCache[x]
    BY <2>1 DEF KeyAt
  <2> QED BY <2>1, <2>2, <2>3 DEF CacheRight
<1> QED BY <1>2, <1>3 DEF FindAt

(***************************************************************************)
(* A key other than the empty one that a probe reads bounds the keys on    *)
(* both sides of the probed offset.                                        *)
(***************************************************************************)
LEMMA ProbeBounds ==
  ASSUME FileSorted, NEW o \in Nat, RecordKey(o) # NoKey
  PROVE  /\ RecordKey(o) \in Nat
         /\ \A y \in DOMAIN index : y <= o => index[y] <= RecordKey(o)
         /\ \A y \in From(o) : index[y] >= RecordKey(o)
<1>1. PICK x \in DOMAIN index : IsFirst(x, o) /\ index[x] = RecordKey(o)
  BY RecordKeyOfFirst
<1>2. x \in Nat /\ x >= o /\ \A y \in From(o) : x <= y
  BY <1>1 DEF IsFirst, From, FileSorted
<1>3. \A y \in DOMAIN index :
        y \in Nat /\ (y <= x => index[y] <= index[x]) /\ (y >= x => index[y] >= index[x])
  BY DEF FileSorted
<1>4. \A y \in From(o) : y \in DOMAIN index
  BY DEF From
<1> QED BY <1>1, <1>2, <1>3, <1>4 DEF FileSorted

(***************************************************************************)
(* The file and what is read from it stay the same when index and size do. *)
(***************************************************************************)
LEMMA FileStays ==
  ASSUME FileSorted, UNCHANGED <<index, size>>
  PROVE  FileSorted' /\ \A o : From(o)' = From(o)
BY DEF FileSorted, From

(***************************************************************************)
(* A step that leaves the search and the cache alone keeps the invariant.  *)
(***************************************************************************)
LEMMA SearchStays ==
  ASSUME IndexInv, UNCHANGED <<index, size, offsetCache, i, j, target, res>>,
         pc' \notin {"loop", "result"} \/ (pc' = pc /\ call' = call)
  PROVE  IndexInv'
<1>1. FileSorted' /\ \A o : From(o)' = From(o)
  BY FileStays DEF IndexInv
<1>2. SearchTyped'
  BY DEF IndexInv, SearchTyped
<1>3. CacheRight'
  <2>1. \A o : RecordKey(o)' = RecordKey(o)
    BY DEF RecordKey, SeekNext, IsFirst, From
  <2> QED BY <2>1 DEF IndexInv, CacheRight
<1>4. FoundIsRight'
  BY <1>1 DEF IndexInv, FoundIsRight, IsFirst, OfKey, IndexKeys
<1>5. SearchSound'
  BY <1>1 DEF IndexInv, SearchSound
<1>6. MissedAtEnd'
  BY <1>1 DEF IndexInv, MissedAtEnd, IndexKeys
<1> QED BY <1>1, <1>2, <1>3, <1>4, <1>5, <1>6 DEF IndexInv

(***************************************************************************)
(* A search starts with the whole file between its bounds.                 *)
(***************************************************************************)
LEMMA SearchStarts ==
  ASSUME IndexInv, NEW t \in Nat \ {NoKey}, Search(t),
         UNCHANGED <<index, size, offsetCache>>, call'.higher \in Nat \ {NoKey}
  PROVE  IndexInv'
<1>1. FileSorted' /\ \A o : From(o)' = From(o)
  BY FileStays DEF IndexInv
<1>2. SearchTyped'
  BY DEF IndexInv, FileSorted, SearchTyped, Search
<1>3. CacheRight'
  <2>1. \A o : RecordKey(o)' = RecordKey(o)
    BY DEF RecordKey, SeekNext, IsFirst, From
  <2> QED BY <2>1 DEF IndexInv, CacheRight
<1>4. FoundIsRight'
  BY DEF FoundIsRight, Search
<1>5. SearchSound' /\ MissedAtEnd'
  BY <1>1 DEF IndexInv, FileSorted, From, SearchSound, MissedAtEnd, Search
<1> QED BY <1>1, <1>2, <1>3, <1>4, <1>5 DEF IndexInv

(***************************************************************************)
(* A probe halves the range, or ends the search at the end of the file.    *)
(***************************************************************************)
LEMMA ProbeKeeps ==
  ASSUME IndexInv, Probe
  PROVE  IndexInv'
<1> DEFINE h == Middle
<1>0. h \in Nat
  BY DEF IndexInv, SearchTyped, Middle
<1>1. FileSorted' /\ \A o : From(o)' = From(o)
  BY FileStays DEF IndexInv, Probe
<1> HIDE DEF h
<1>2. /\ CacheRight'
      /\ \A x \in DOMAIN offsetCache :
           x \in DOMAIN offsetCache' /\ offsetCache'[x] = offsetCache[x]
  <2>1. FindAt(h) /\ UNCHANGED index
    BY DEF Probe, h
  <2> QED BY <1>0, <2>1, FindAtKeepsCache DEF IndexInv
<1>3. CASE AtEOF(h)
  <2>1. /\ pc' = "result" /\ ~res'.found /\ res'.off = size
        /\ UNCHANGED <<i, j, target, call>>
    BY <1>3 DEF Probe, Result, h
  <2>2. SearchTyped'
    BY <2>1 DEF IndexInv, SearchTyped, Probe
  <2>3. FoundIsRight' /\ SearchSound'
    BY <2>1 DEF FoundIsRight, SearchSound
  <2>4. From(size) = {}
    BY DEF IndexInv, FileSorted, From
  <2>5. MissedAtEnd'
    BY <1>1, <2>1, <2>4 DEF MissedAtEnd
  <2> QED BY <1>1, <1>2, <2>2, <2>3, <2>5 DEF IndexInv
<1>4. CASE ~AtEOF(h)
  <2>1. Narrow(h) /\ pc = "loop" /\ UNCHANGED <<target, call>>
    BY <1>4 DEF Probe, h
  <2>2. SearchTyped'
    BY <1>0, <2>1 DEF IndexInv, SearchTyped, Narrow
  <2>3. FoundIsRight' /\ MissedAtEnd'
    BY <2>1 DEF FoundIsRight, MissedAtEnd, Narrow
  <2>4. SearchSound'
    <3>1. /\ \A y \in DOMAIN index : y \in Nat /\ index[y] \in Nat
          /\ target \in Nat \ {NoKey} /\ index' = index /\ target' = target /\ pc' = "loop"
          /\ KeyAt(h) = RecordKey(h)
      BY <2>1, KeyAtIsRead DEF IndexInv, SearchTyped, FileSorted, Probe, Narrow
    <3>2. /\ \A y \in From(j) : index[y] >= target
          /\ \/ \A y \in DOMAIN index : y < i => index[y] < target
             \/ From(i) = {} /\ \E o \in DOMAIN offsetCache' : offsetCache'[o] = NoKey
      BY <1>2, <2>1 DEF IndexInv, SearchSound
    <3>3. CASE RecordKey(h) = NoKey
      <4>1. From(h) = {}
        <5>1. ASSUME From(h) # {} PROVE FALSE
          <6>1. SeekNext(h) \in DOMAIN index
            BY <1>0, <5>1, SeekNextIsFirst DEF IndexInv, IsFirst, From
          <6> QED BY <3>3, <5>1, <6>1 DEF RecordKey, IndexInv, FileSorted
        <5> QED BY <5>1
      <4>2. h \in DOMAIN offsetCache' /\ offsetCache'[h] = NoKey
        BY <1>2, <1>4, <3>3, <4>1 DEF AtEOF, IndexInv, CacheRight
      <4>3. i' = h + 1 /\ j' = j
        BY <2>1, <3>1, <3>3 DEF Narrow, NoKey
      <4>4. From(h + 1) = {}
        BY <1>0, <3>1, <4>1 DEF From
      <4> QED BY <1>1, <3>1, <3>2, <4>2, <4>3, <4>4 DEF SearchSound
    <3>4. CASE RecordKey(h) # NoKey
      <4>1. /\ RecordKey(h) \in Nat
            /\ \A y \in DOMAIN index : y <= h => index[y] <= RecordKey(h)
            /\ \A y \in From(h) : index[y] >= RecordKey(h) /\ y \in DOMAIN index
        BY <1>0, <3>4, ProbeBounds DEF IndexInv, From
      <4>2. CASE RecordKey(h) < target
        <5>1. i' = h + 1 /\ j' = j
          BY <2>1, <3>1, <4>2 DEF Narrow
        <5>2. \A y \in DOMAIN index : y < h + 1 => index[y] < target
          BY <1>0, <3>1, <4>1, <4>2
        <5> QED BY <1>1, <3>1, <3>2, <5>1, <5>2 DEF SearchSound
      <4>3. CASE ~(RecordKey(h) < target)
        <5>1. i' = i /\ j' = h
          BY <2>1, <3>1, <4>3 DEF Narrow
        <5>2. \A y \in From(h) : index[y] >= target
          BY <3>1, <4>1, <4>3
        <5> QED BY <1>1, <3>1, <3>2, <5>1, <5>2 DEF SearchSound
      <4> QED BY <4>2, <4>3
    <3> QED BY <3>3, <3>4
  <2> QED BY <1>1, <1>2, <2>2, <2>3, <2>4 DEF IndexInv
<1> QED BY <1>3, <1>4

(***************************************************************************)
(* When the bounds meet, the key read there is compared with the target.   *)
(***************************************************************************)
LEMMA ArriveKeeps ==
  ASSUME IndexInv, Arrive
  PROVE  IndexInv'
<1>0. i \in Nat
  BY DEF IndexInv, SearchTyped
<1>1. FileSorted' /\ \A o : From(o)' = From(o)
  BY FileStays DEF IndexInv, Arrive
<1>2. CacheRight'
  BY <1>0, FindAtKeepsCache DEF IndexInv, Arrive
<1>3. pc' = "result" /\ UNCHANGED <<index, i, j, target, call>>
  BY DEF Arrive, Result
<1>4. SearchTyped'
  BY <1>3 DEF IndexInv, SearchTyped, Arrive
<1>5. SearchSound'
  BY <1>3 DEF SearchSound
<1>6. FoundIsRight'
  <2> SUFFICES ASSUME res'.found
               PROVE  /\ target \in IndexKeys
                      /\ IsFirst(OfKey(target), res'.off) /\ res'.key = target
    BY <1>1, <1>3 DEF FoundIsRight, IndexKeys, IsFirst, OfKey
  <2>1. ~AtEOF(i) /\ Matches /\ res' = [off |-> i, found |-> Matches, key |-> KeyAt(i)]
    BY DEF Arrive, Result
  <2>2. KeyAt(i) = target /\ RecordKey(i) = target
    BY <2>1, KeyAtIsRead DEF Matches, IndexInv
  <2>3. RecordKey(i) # NoKey
    BY <2>2 DEF IndexInv, SearchTyped, Arrive
  <2>4. PICK x \in DOMAIN index : IsFirst(x, i) /\ index[x] = target
    BY <1>0, <2>2, <2>3, RecordKeyOfFirst DEF IndexInv
  <2>5. target \in IndexKeys /\ OfKey(target) = x
    BY <2>4, OffsetOfKey DEF IndexInv
  <2> QED BY <2>1, <2>2, <2>4, <2>5
<1>7. MissedAtEnd'
  <2> SUFFICES ASSUME NEW x \in DOMAIN index, index[x] = target, From(res'.off) # {}
               PROVE  res'.found
    BY <1>1, <1>3 DEF MissedAtEnd, IndexKeys
  <2>1. From(size) = {}
    BY DEF IndexInv, FileSorted, From
  <2>2. ~AtEOF(i) /\ res' = [off |-> i, found |-> Matches, key |-> KeyAt(i)]
    BY <2>1 DEF Arrive, Result
  <2>3. From(i) # {}
    BY <2>2
  <2>4. /\ \A y \in DOMAIN index : y \in Nat /\ index[y] \in Nat /\ y < size
        /\ \A y, z \in DOMAIN index : y < z => index[y] < index[z]
        /\ size \in Nat /\ target \in Nat /\ j \in Nat /\ i >= j
    BY DEF IndexInv, FileSorted, SearchTyped, Arrive
  <2>5. /\ \A y \in DOMAIN index : y >= j => index[y] >= target
        /\ \A y \in DOMAIN index : y < i => index[y] < target
    BY <2>3 DEF IndexInv, SearchSound, Arrive, From
  <2>6. SeekNext(i) \in DOMAIN index /\ SeekNext(i) >= i /\ SeekNext(i) <= x
    <3>1. x \in From(i)
      BY <1>0, <2>4, <2>5 DEF From
    <3> QED BY <1>0, <2>3, <3>1, SeekNextIsFirst DEF IndexInv, IsFirst, From
  <2>7. SeekNext(i) = x
    BY <1>0, <2>4, <2>5, <2>6
  <2>8. KeyAt(i) = target
    BY <2>3, <2>7, KeyAtIsRead DEF RecordKey, IndexInv
  <2>9. i < size
    BY <1>0, <2>4, <2>6
  <2> QED BY <2>2, <2>8, <2>9 DEF Matches
<1> QED BY <1>1, <1>2, <1>4, <1>5, <1>6, <1>7 DEF IndexInv

(***************************************************************************)
(* The invariant holds of every file a search can start with ...           *)
(***************************************************************************)
LEMMA IndexInvInit == Init => IndexInv
<1> SUFFICES ASSUME Init PROVE IndexInv
  OBVIOUS
<1>1. FileSorted
  BY DiskIndexAssumption DEF Init, IsIndexFile, FileSorted
<1>2. SearchTyped /\ FoundIsRight /\ SearchSound /\ MissedAtEnd
  BY DEF Init, SearchTyped, FoundIsRight, SearchSound, MissedAtEnd
<1>3. CacheRight
  BY DEF Init, CacheRight
<1> QED BY <1>1, <1>2, <1>3 DEF IndexInv

(***************************************************************************)
(* ... and every step of a call keeps it.                                  *)
(***************************************************************************)
LEMMA IndexInvNext == IndexInv /\ [Next]_vars => IndexInv'
<1> SUFFICES ASSUME IndexInv, [Next]_vars PROVE IndexInv'
  OBVIOUS
<1>1. CASE Calls
  <2>1. PICK op \in {"Get", "StartingAt", "Between"}, lower \in Targets, higher \in Targets :
          Begin(op, lower, higher)
    BY <1>1 DEF Calls, Get, IteratorStartingAt, IteratorBetween
  <2>2. lower \in Nat \ {NoKey} /\ higher \in Nat \ {NoKey}
    BY DiskIndexAssumption
  <2> QED BY <2>1, <2>2, SearchStarts DEF Begin
<1>2. CASE Probe
  BY <1>2, ProbeKeeps
<1>3. CASE Arrive
  BY <1>3, ArriveKeeps
<1>4. CASE LowerFound
  <2>1. call.higher \in Nat \ {NoKey} /\ call'.higher = call.higher
    BY <1>4 DEF IndexInv, SearchTyped, LowerFound
  <2> QED BY <1>4, <2>1, SearchStarts DEF LowerFound
<1>5. CASE Returned \/ StartFound \/ HigherFound \/ Done
  BY <1>5, SearchStays DEF Returned, StartFound, HigherFound, NewIterator, Done
<1>6. CASE IteratorNext
  BY <1>6, SearchStays DEF IteratorNext
<1>7. CASE UNCHANGED vars
  BY <1>7, SearchStays DEF vars
<1> QED BY <1>1, <1>2, <1>3, <1>4, <1>5, <1>6, <1>7 DEF Next, Steps

(***************************************************************************)
(* A lookup that reports a key has found the record of that key, in every  *)
(* index file and whatever earlier searches left in the cache.             *)
(***************************************************************************)
THEOREM LookupIsRight == Spec => []FoundIsRight
<1>1. IndexInv => FoundIsRight
  BY DEF IndexInv
<1> QED BY <1>1, IndexInvInit, IndexInvNext, PTL DEF Spec

(***************************************************************************)
(* The records from the upper bound of a search on are not below the       *)
(* target, and those in front of the lower bound are, as the comment in    *)
(* binarySearch says, or the end of the file was cached and the search has *)
(* run behind the last record.                                             *)
(***************************************************************************)
THEOREM SearchIsSound == Spec => []SearchSound
<1>1. IndexInv => SearchSound
  BY DEF IndexInv
<1> QED BY <1>1, IndexInvInit, IndexInvNext, PTL DEF Spec
-----------------------------------------------------------------------------
(***************************************************************************)
(* Completeness, in files whose last record can be reached.  The place of  *)
(* a key, which a search ends at, does not depend on the way there: one    *)
(* behind the start of the last record below the key, the start of the     *)
(* file if there is none, and its end if there is no other.                *)
(***************************************************************************)
NoneFrom(t) == \A x \in DOMAIN index : index[x] < t

Splits(o, t) ==
  \A x \in DOMAIN index : (x < o => index[x] < t) /\ (x >= o => index[x] >= t)

Placed(o, t) ==
  /\ o \in 0..size /\ Splits(o, t)
  /\ IF NoneFrom(t) THEN o = size ELSE o = 0 \/ o - 1 \in DOMAIN index

(***************************************************************************)
(* The search: what is in front of i is below the target, what is behind j *)
(* is not, and neither bound has passed over the place of the target.      *)
(***************************************************************************)
Narrowing ==
  /\ i <= j /\ j <= size
  /\ \A x \in DOMAIN index : (x < i => index[x] < target) /\ (x >= j => index[x] >= target)
  /\ IF NoneFrom(target) THEN j = size ELSE i = 0 \/ \E y \in From(i - 1) : index[y] < target

Serving ==
  /\ call.lower \in Nat /\ call.higher \in Nat /\ call.lower <= call.higher
  /\ call.op \in {"Get", "StartingAt", "Between", "BetweenHigher"}
  /\ IF call.op = "BetweenHigher" THEN target = call.higher /\ Placed(it.cur, call.lower)
     ELSE target = call.lower

(***************************************************************************)
(* The iterator: it has returned the records of the range in front of it,  *)
(* and at most the first one from its end on.                              *)
(***************************************************************************)
Passed == {index[x] : x \in {y \in DOMAIN index : y < it.cur /\ index[y] >= call.lower}}

Scanning ==
  /\ call.lower \in Nat /\ call.higher \in Nat /\ call.lower <= call.higher
  /\ it.out \in Seq(Nat) /\ Ascending(it.out, Passed)
  /\ \A x \in From(it.cur) : index[x] >= call.lower
  /\ call.op \in {"StartingAt", "BetweenHigher"}
  /\ call.op = "StartingAt" => it.end = size
  /\ call.op = "BetweenHigher" =>
       /\ it.end \in Nat /\ Splits(it.end, call.higher)
       /\ \A x \in DOMAIN index :
            x < it.cur /\ index[x] >= call.lower => x < it.end \/ IsFirst(x, it.end)
       /\ it.cur > it.end => \E x \in From(it.end) : x < it.cur

CompleteInv ==
  /\ it \in [cur : Nat, end : Nat, out : Seq(Nat), done : BOOLEAN]
  /\ pc \in {"idle", "loop", "result", "iterate"}
  /\ pc = "loop" => Narrowing
  /\ pc = "result" => Placed(res.off, target) /\ (res.found <=> target \in IndexKeys)
  /\ pc \in {"loop", "result"} => Serving
  /\ pc = "iterate" => Scanning
  /\ pc = "idle" /\ call.op \in {"StartingAt", "BetweenHigher"} => Scanning /\ Exhausted

CompleteIfReachable == LastIsReachable => CompleteInv

(***************************************************************************)
(* A nonempty set of offsets has a largest one, a nonempty set of keys a   *)
(* smallest.                                                               *)
(***************************************************************************)
LEMMA MaxOf ==
  ASSUME NEW n \in Nat, NEW S \in SUBSET (0..n), S # {}
  PROVE  Max(S) \in S /\ \A y \in S : y <= Max(S)
<1>0. \A x \in S : x \in Nat /\ n - x \in Nat
  OBVIOUS
<1> DEFINE T == {n - x : x \in S}
<1>1. T \in SUBSET Nat /\ T # {}
  BY <1>0, Zenon
<1>2. PICK z \in T : \A y \in T : z <= y
  BY <1>1, LeastNatural, Zenon
<1>3. PICK x \in S : z = n - x
  BY <1>2
<1>4. \A y \in S : n - x <= n - y
  BY <1>2, <1>3
<1> HIDE DEF T
<1>5. \A y \in S : x >= y
  BY <1>0, <1>4
<1> QED BY <1>5, Zenon DEF Max

(***************************************************************************)
(* Min of a nonempty set of keys is its least member.                      *)
(***************************************************************************)
LEMMA MinOf ==
  ASSUME NEW S \in SUBSET Nat, S # {}
  PROVE  Min(S) \in S /\ \A y \in S : Min(S) <= y
<1>1. PICK x \in S : \A y \in S : x <= y
  BY LeastNatural
<1> QED BY <1>1, Zenon DEF Min

(***************************************************************************)
(* As long as a record is not below the target, no probe falls behind the  *)
(* last record.                                                            *)
(***************************************************************************)
LEMMA MiddleReads ==
  ASSUME FileSorted, LastIsReachable, Narrowing, i \in Nat, j \in Nat, i < j, target \in Nat,
         ~NoneFrom(target)
  PROVE  From(Middle) # {}
<1> DEFINE last   == Max(DOMAIN index)
           before == DOMAIN index \ {last}
           low    == IF before = {} THEN 0 ELSE Max(before) + 1
<1>1. PICK x \in DOMAIN index : ~(index[x] < target)
  BY DEF NoneFrom
<1>2. /\ size \in Nat /\ DOMAIN index \in SUBSET (0..size)
      /\ \A y \in DOMAIN index : y \in Nat /\ y < size /\ index[y] \in Nat
      /\ \A y, z \in DOMAIN index : y < z => index[y] < index[z]
  BY DEF FileSorted
<1>3. last \in DOMAIN index /\ \A y \in DOMAIN index : y <= last
  BY <1>1, <1>2, MaxOf, Zenon
<1>4. (low + size) \div 2 <= last
  BY <1>1 DEF LastIsReachable
<1> HIDE DEF last
<1>5. before # {} => Max(before) \in before /\ \A y \in before : y <= Max(before)
  BY <1>2, MaxOf, Zenon
<1>6. ~(index[last] < target)
  BY <1>1, <1>2, <1>3
<1>7. low \in Nat /\ i <= low
  <2>1. low \in Nat
    BY <1>2, <1>5
  <2>2. CASE i = 0
    BY <2>1, <2>2
  <2>3. CASE i # 0
    <3>1. PICK y \in From(i - 1) : index[y] < target
      BY <2>3 DEF Narrowing
    <3>2. y \in before /\ y >= i - 1
      BY <3>1, <1>6 DEF From
    <3>3. y <= Max(before) /\ Max(before) \in Nat /\ y \in Nat /\ before # {}
      BY <3>2, <1>2, <1>5
    <3> QED BY <3>2, <3>3, <2>1
  <2> QED BY <2>1, <2>2, <2>3
<1> HIDE DEF low, before
<1>8. Middle <= (low + size) \div 2
  BY <1>2, <1>7 DEF Middle, Narrowing
<1>9. Middle <= last
  BY <1>2, <1>3, <1>4, <1>7, <1>8 DEF Middle
<1> QED BY <1>3, <1>9 DEF From

(***************************************************************************)
(* What the file decides stays the same with it.                           *)
(***************************************************************************)
LEMMA PlacesStay ==
  ASSUME UNCHANGED <<index, size>>
  PROVE  /\ \A o, t : Placed(o, t)' <=> Placed(o, t)
         /\ \A o, t : Splits(o, t)' <=> Splits(o, t)
         /\ \A t : NoneFrom(t)' <=> NoneFrom(t)
         /\ \A o : From(o)' = From(o)
         /\ IndexKeys' = IndexKeys
         /\ LastIsReachable' <=> LastIsReachable
<1>1. (\A o : From(o)' = From(o)) /\ IndexKeys' = IndexKeys
  BY DEF From, IndexKeys
<1>2. (\A t : NoneFrom(t)' <=> NoneFrom(t)) /\ (\A o, t : Splits(o, t)' <=> Splits(o, t))
  BY DEF NoneFrom, Splits
<1>3. \A o, t : Placed(o, t)' <=> Placed(o, t)
  BY <1>2 DEF Placed
<1>4. LastIsReachable' <=> LastIsReachable
  BY DEF LastIsReachable
<1> QED BY <1>1, <1>2, <1>3, <1>4

(***************************************************************************)
(* A search starts with the whole file between its bounds.                 *)
(***************************************************************************)
LEMMA StartsNarrowing ==
  ASSUME FileSorted, NEW t, Search(t), UNCHANGED <<index, size>>
  PROVE  Narrowing'
BY PlacesStay DEF FileSorted, Search, Narrowing

(***************************************************************************)
(* A probe of the binary search discards only records on the side of the   *)
(* middle where the target cannot be.                                      *)
(***************************************************************************)
LEMMA ProbeComplete ==
  ASSUME IndexInv, LastIsReachable, CompleteInv, Probe
  PROVE  CompleteInv'
<1> DEFINE h == Middle
<1>1. /\ Narrowing /\ Serving /\ pc = "loop" /\ FileSorted /\ CacheRight
      /\ i \in Nat /\ j \in Nat /\ i < j /\ j <= size /\ size \in Nat /\ target \in Nat \ {NoKey}
      /\ it' = it /\ call' = call /\ target' = target
      /\ it \in [cur : Nat, end : Nat, out : Seq(Nat), done : BOOLEAN]
  BY DEF IndexInv, SearchTyped, FileSorted, CompleteInv, Probe, Narrowing
<1>2. h \in Nat /\ i <= h /\ h < j
  BY <1>1 DEF Middle
<1>3. UNCHANGED <<index, size>>
  BY DEF Probe
<1>4. Serving'
  BY <1>1, <1>3, PlacesStay DEF Serving
<1>5. ASSUME From(h) = {} PROVE NoneFrom(target)
  BY <1>1, <1>5, MiddleReads
<1>6. KeyAt(h) = RecordKey(h)
  BY <1>1, KeyAtIsRead
<1>7. CASE AtEOF(h)
  <2>1. pc' = "result" /\ res'.off = size /\ res'.found = FALSE
    BY <1>7 DEF Probe, Result
  <2>2. NoneFrom(target)
    BY <1>5, <1>7 DEF AtEOF
  <2>3. Placed(size, target)
    BY <2>2, <1>1 DEF Placed, Splits, NoneFrom, FileSorted
  <2>4. target \notin IndexKeys
    BY <2>2, <1>1 DEF NoneFrom, IndexKeys, FileSorted
  <2>5. Placed(res.off, target)' /\ ~(target \in IndexKeys)'
    BY <2>1, <2>3, <2>4, <1>1, <1>3, PlacesStay
  <2> QED BY <2>1, <2>5, <1>1, <1>4 DEF CompleteInv
<1>8. CASE ~AtEOF(h)
  <2>1. Narrow(h) /\ pc' = "loop"
    BY <1>1, <1>8 DEF Probe, Narrow
  <2>2. Narrowing'
    <3>1. \A y \in From(h) : y \in DOMAIN index
      BY DEF From
    <3>2. \A y \in DOMAIN index : y \in Nat /\ index[y] \in Nat /\ y < size
      BY <1>1 DEF FileSorted
    <3>3. /\ \A x \in DOMAIN index : (x < i => index[x] < target) /\ (x >= j => index[x] >= target)
          /\ NoneFrom(target) => j = size
          /\ ~NoneFrom(target) => i = 0 \/ \E y \in From(i - 1) : index[y] < target
      BY <1>1 DEF Narrowing
    <3>4. CASE From(h) = {}
      <4>1. NoneFrom(target) /\ RecordKey(h) = NoKey
        BY <3>4, <1>5 DEF RecordKey
      <4>2. i' = h + 1 /\ j' = j
        BY <4>1, <2>1, <1>1, <1>6 DEF Narrow, NoKey
      <4>3. \A x \in DOMAIN index :
              (x < h + 1 => index[x] < target) /\ (x >= j => index[x] >= target)
        BY <4>1, <3>3 DEF NoneFrom
      <4> QED BY <4>1, <4>2, <4>3, <3>3, <1>1, <1>2, <1>3, PlacesStay DEF Narrowing
    <3>5. CASE From(h) # {}
      <4>1. RecordKey(h) = index[SeekNext(h)] /\ SeekNext(h) \in From(h)
        BY <3>5, <1>1, <1>2, SeekNextIsFirst DEF RecordKey, IsFirst
      <4>2. RecordKey(h) # NoKey
        BY <4>1, <3>1, <1>1 DEF FileSorted
      <4>3. /\ RecordKey(h) \in Nat
            /\ \A y \in DOMAIN index : y <= h => index[y] <= RecordKey(h)
            /\ \A y \in From(h) : index[y] >= RecordKey(h)
        BY <4>2, <1>1, <1>2, ProbeBounds
      <4>4. CASE RecordKey(h) < target
        <5>1. i' = h + 1 /\ j' = j
          BY <4>4, <2>1, <1>6 DEF Narrow
        <5>2. \A x \in DOMAIN index : x < h + 1 => index[x] < target
          BY <4>3, <4>4, <3>2, <1>1, <1>2
        <5>3. \E y \in From((h + 1) - 1) : index[y] < target
          <6>1. (h + 1) - 1 = h
            BY <1>2
          <6> QED BY <6>1, <4>1, <4>4
        <5>4. i' <= j' /\ j' <= size'
          BY <5>1, <1>1, <1>2, <1>3
        <5> QED BY <5>1, <5>2, <5>3, <5>4, <3>3, <1>1, <1>3, PlacesStay DEF Narrowing
      <4>5. CASE ~(RecordKey(h) < target)
        <5>1. i' = i /\ j' = h
          BY <4>5, <2>1, <1>6 DEF Narrow
        <5>2. \A x \in DOMAIN index : x >= h => index[x] >= target
          BY <4>3, <4>5, <3>2, <1>1, <1>2 DEF From
        <5>3. ~NoneFrom(target)
          BY <4>1, <4>5, <3>1 DEF NoneFrom
        <5>4. i' <= j' /\ j' <= size'
          BY <5>1, <1>1, <1>2, <1>3
        <5> QED BY <5>1, <5>2, <5>3, <5>4, <3>3, <1>1, <1>3, PlacesStay DEF Narrowing
      <4> QED BY <4>4, <4>5
    <3> QED BY <3>4, <3>5
  <2> QED BY <2>1, <2>2, <1>1, <1>4 DEF CompleteInv
<1> QED BY <1>7, <1>8

(***************************************************************************)
(* The bounds meet at the place of the target, and the record read there   *)
(* is that of the target if there is one.                                  *)
(***************************************************************************)
LEMMA ArriveComplete ==
  ASSUME IndexInv, LastIsReachable, CompleteInv, Arrive
  PROVE  CompleteInv'
<1>1. /\ Narrowing /\ Serving /\ pc = "loop" /\ FileSorted /\ CacheRight
      /\ i \in Nat /\ j \in Nat /\ i = j /\ j <= size /\ size \in Nat /\ target \in Nat \ {NoKey}
      /\ it' = it /\ call' = call /\ target' = target /\ pc' = "result"
      /\ it \in [cur : Nat, end : Nat, out : Seq(Nat), done : BOOLEAN]
  BY DEF IndexInv, SearchTyped, FileSorted, CompleteInv, Arrive, Narrowing, Result
<1>2. UNCHANGED <<index, size>>
  BY DEF Arrive
<1>3. Serving'
  BY <1>1, <1>2, PlacesStay DEF Serving
<1>4. \A y \in DOMAIN index : y \in Nat /\ index[y] \in Nat /\ y < size
  BY <1>1 DEF FileSorted
<1>5. /\ \A x \in DOMAIN index : (x < i => index[x] < target) /\ (x >= i => index[x] >= target)
      /\ NoneFrom(target) => i = size
      /\ ~NoneFrom(target) => i = 0 \/ \E y \in From(i - 1) : index[y] < target
  BY <1>1 DEF Narrowing
<1>6. KeyAt(i) = RecordKey(i)
  BY <1>1, KeyAtIsRead
<1>7. Placed(res.off, target)'
  <2>1. CASE AtEOF(i)
    <3>1. res'.off = size
      BY <2>1 DEF Arrive, Result
    <3>2. NoneFrom(target)
      BY <2>1, <1>1, <1>4, <1>5 DEF AtEOF, From, NoneFrom
    <3>3. Placed(size, target)
      BY <3>2, <1>1, <1>4 DEF Placed, Splits, NoneFrom
    <3> QED BY <3>1, <3>3, <1>1, <1>2, PlacesStay
  <2>2. CASE ~AtEOF(i)
    <3>1. res'.off = i
      BY <2>2 DEF Arrive, Result
    <3>2. i # 0 /\ ~NoneFrom(target) => i - 1 \in DOMAIN index
      <4> SUFFICES ASSUME i # 0, ~NoneFrom(target) PROVE i - 1 \in DOMAIN index
        OBVIOUS
      <4>1. PICK y \in From(i - 1) : index[y] < target
        BY <1>5
      <4>2. y \in DOMAIN index /\ y >= i - 1 /\ ~(y >= i)
        BY <4>1, <1>1, <1>4, <1>5 DEF From
      <4>3. y = i - 1
        BY <4>2, <1>1, <1>4
      <4> QED BY <4>2, <4>3
    <3>3. Placed(i, target)
      BY <3>2, <1>1, <1>5 DEF Placed, Splits
    <3> QED BY <3>1, <3>3, <1>1, <1>2, PlacesStay
  <2> QED BY <2>1, <2>2
<1>8. res'.found <=> target \in IndexKeys
  <2>1. ASSUME res'.found PROVE target \in IndexKeys
    <3>1. IndexInv'
      BY ArriveKeeps
    <3> QED BY <2>1, <3>1, <1>1, <1>2, PlacesStay DEF IndexInv, FoundIsRight
  <2>2. ASSUME target \in IndexKeys PROVE res'.found
    <3>1. PICK x \in DOMAIN index : index[x] = target
      BY <2>2 DEF IndexKeys
    <3>2. x \in From(i) /\ i < size
      BY <3>1, <1>1, <1>4, <1>5 DEF From
    <3>3. SeekNext(i) \in From(i) /\ SeekNext(i) <= x
      BY <3>2, <1>1, SeekNextIsFirst DEF IsFirst
    <3>4. SeekNext(i) \in DOMAIN index /\ SeekNext(i) >= i
      BY <3>3 DEF From
    <3>5. index[SeekNext(i)] = target
      <4>1. \A y, z \in DOMAIN index : y < z => index[y] < index[z]
        BY <1>1 DEF FileSorted
      <4>2. index[SeekNext(i)] >= target /\ index[SeekNext(i)] \in Nat /\ SeekNext(i) \in Nat
        BY <3>4, <1>4, <1>5
      <4>3. x \in Nat /\ (SeekNext(i) = x \/ SeekNext(i) < x)
        BY <3>3, <4>2, <1>4
      <4>4. SeekNext(i) < x => index[SeekNext(i)] < target
        BY <4>1, <3>1, <3>4
      <4> QED BY <4>2, <4>3, <4>4, <3>1, <1>1
    <3>6. RecordKey(i) = target
      BY <3>2, <3>5 DEF RecordKey
    <3>7. Matches /\ ~AtEOF(i)
      BY <3>2, <3>6, <1>6 DEF Matches, AtEOF
    <3> QED BY <3>7 DEF Arrive, Result
  <2> QED BY <2>1, <2>2
<1> QED BY <1>1, <1>2, <1>3, <1>7, <1>8, PlacesStay DEF CompleteInv

(***************************************************************************)
(* The place of a larger key is not in front of that of a smaller one.     *)
(***************************************************************************)
LEMMA PlacesOrdered ==
  ASSUME FileSorted, NEW a \in Nat, NEW b \in Nat, a <= b, NEW o, NEW p, Placed(o, a), Placed(p, b)
  PROVE  o <= p
<1>1. /\ size \in Nat /\ o \in 0..size /\ p \in 0..size
      /\ \A y \in DOMAIN index : y \in Nat /\ index[y] \in Nat
  BY DEF FileSorted, Placed
<1>2. CASE NoneFrom(b)
  BY <1>1, <1>2 DEF Placed
<1>3. CASE ~NoneFrom(b)
  <2>1. ~NoneFrom(a)
    BY <1>1, <1>3 DEF NoneFrom
  <2>2. CASE o = 0
    BY <2>2, <1>1
  <2>3. CASE o # 0
    <3>1. o - 1 \in DOMAIN index
      BY <2>1, <2>3 DEF Placed
    <3>2. index[o - 1] < a
      BY <3>1, <1>1 DEF Placed, Splits
    <3>3. ~(o - 1 >= p)
      BY <3>1, <3>2, <1>1 DEF Placed, Splits
    <3> QED BY <3>3, <1>1
  <2> QED BY <2>2, <2>3
<1> QED BY <1>2, <1>3

(***************************************************************************)
(* An iterator that starts at the place of the lower key has nothing of    *)
(* the range in front of it.                                               *)
(***************************************************************************)
LEMMA NothingPassed ==
  ASSUME FileSorted, call.lower \in Nat, it.cur \in Nat, Splits(it.cur, call.lower), it.out = <<>>
  PROVE  /\ it.out \in Seq(Nat) /\ Ascending(it.out, Passed)
         /\ \A x \in From(it.cur) : index[x] >= call.lower
         /\ ~\E x \in DOMAIN index : x < it.cur /\ index[x] >= call.lower
<1>1. \A x \in DOMAIN index : x \in Nat /\ index[x] \in Nat
  BY DEF FileSorted
<1>2. ~\E x \in DOMAIN index : x < it.cur /\ index[x] >= call.lower
  BY <1>1 DEF Splits
<1>3. \A x \in From(it.cur) : index[x] >= call.lower
  BY DEF Splits, From
<1>4. Passed = {}
  BY <1>2 DEF Passed
<1>5. it.out \in Seq(Nat) /\ Ascending(it.out, {})
  BY DEF Ascending
<1> QED BY <1>2, <1>3, <1>4, <1>5

(***************************************************************************)
(* A larger key at the end keeps the order.                                *)
(***************************************************************************)
LEMMA AscendingAppend ==
  ASSUME NEW s \in Seq(Nat), NEW S, NEW v \in Nat, Ascending(s, S), \A k \in S : k < v
  PROVE  Append(s, v) \in Seq(Nat) /\ Ascending(Append(s, v), S \cup {v})
<1> DEFINE t == Append(s, v)
           len == Len(s)
<1>1. /\ t \in Seq(Nat) /\ Len(t) = len + 1 /\ t[len + 1] = v /\ len \in Nat
      /\ DOMAIN s = 1..len /\ DOMAIN t = 1..(len + 1) /\ \A n \in 1..len : t[n] = s[n]
  OBVIOUS
<1>2. /\ {s[n] : n \in 1..len} = S
      /\ \A n \in 1..(len - 1) : s[n] < s[n + 1]
  BY <1>1 DEF Ascending
<1> HIDE DEF t, len
<1>3. {t[n] : n \in 1..(len + 1)} = S \cup {v}
  <2>1. \A n \in 1..(len + 1) : n \in 1..len \/ n = len + 1
    BY <1>1
  <2>2. \A n \in 1..len : n \in 1..(len + 1)
    BY <1>1
  <2>3. len + 1 \in 1..(len + 1)
    BY <1>1
  <2> QED BY <2>1, <2>2, <2>3, <1>1, <1>2, Zenon
<1>4. \A n \in 1..len : t[n] < t[n + 1]
  <2> SUFFICES ASSUME NEW n \in 1..len PROVE t[n] < t[n + 1]
    OBVIOUS
  <2>1. CASE n = len
    <3>1. s[n] \in S
      BY <1>2
    <3> QED BY <3>1, <2>1, <1>1
  <2>2. CASE n # len
    <3>1. n \in 1..(len - 1) /\ n + 1 \in 1..len
      BY <2>2, <1>1
    <3> QED BY <3>1, <1>1, <1>2
  <2> QED BY <2>1, <2>2
<1>5. (len + 1) - 1 = len
  BY <1>1
<1> QED BY <1>1, <1>3, <1>4, <1>5 DEF Ascending, t

(***************************************************************************)
(* The calls and the results of their searches.                            *)
(***************************************************************************)
LEMMA BeginComplete ==
  ASSUME IndexInv, CompleteInv, NEW op \in {"Get", "StartingAt", "Between"},
         NEW lower \in Nat, NEW higher \in Nat, lower <= higher, Begin(op, lower, higher)
  PROVE  CompleteInv'
<1>1. Narrowing'
  BY StartsNarrowing DEF IndexInv, Begin
<1>2. /\ pc' = "loop" /\ target' = lower
      /\ call' = [op |-> op, lower |-> lower, higher |-> higher]
      /\ it' = [cur |-> 0, end |-> 0, out |-> <<>>, done |-> TRUE]
  BY DEF Begin, Search
<1>3. Serving'
  BY <1>2 DEF Serving
<1>4. it' \in [cur : Nat, end : Nat, out : Seq(Nat), done : BOOLEAN]
  BY <1>2
<1> QED BY <1>1, <1>2, <1>3, <1>4 DEF CompleteInv

(***************************************************************************)
(* IteratorBetween searches for its higher key once it has the lower one.  *)
(***************************************************************************)
LEMMA LowerFoundComplete ==
  ASSUME IndexInv, CompleteInv, LowerFound
  PROVE  CompleteInv'
<1>1. Narrowing'
  BY StartsNarrowing DEF IndexInv, LowerFound
<1>2. /\ it \in [cur : Nat, end : Nat, out : Seq(Nat), done : BOOLEAN]
      /\ Placed(res.off, target) /\ Serving /\ size \in Nat /\ pc = "result"
      /\ call.op = "Between" /\ UNCHANGED <<index, size>>
  BY DEF LowerFound, CompleteInv, IndexInv, FileSorted
<1>3. /\ pc' = "loop" /\ target' = call.higher /\ it'.cur = res.off
      /\ it' \in [cur : Nat, end : Nat, out : Seq(Nat), done : BOOLEAN]
  BY <1>2 DEF LowerFound, Search, Placed
<1>4. /\ call'.op = "BetweenHigher" /\ call'.lower = call.lower /\ call'.higher = call.higher
  BY DEF LowerFound
<1>5. Serving'
  BY <1>2, <1>3, <1>4, PlacesStay DEF Serving
<1> QED BY <1>1, <1>3, <1>5 DEF CompleteInv

(***************************************************************************)
(* IteratorStartingAt opens at the offset its search found, with all       *)
(* records from there on ahead.                                            *)
(***************************************************************************)
LEMMA StartFoundComplete ==
  ASSUME IndexInv, CompleteInv, StartFound
  PROVE  CompleteInv'
<1>1. /\ Placed(res.off, target) /\ Serving /\ size \in Nat /\ pc = "result"
      /\ call.op = "StartingAt" /\ UNCHANGED <<index, size, call>>
  BY DEF StartFound, CompleteInv, IndexInv, FileSorted
<1>2. /\ pc' = "iterate" /\ it'.cur = res.off /\ it'.end = size /\ it'.out = <<>>
      /\ it' \in [cur : Nat, end : Nat, out : Seq(Nat), done : BOOLEAN]
  BY <1>1 DEF StartFound, NewIterator, Placed
<1>3. (FileSorted /\ call.lower \in Nat /\ it.cur \in Nat /\ Splits(it.cur, call.lower)
       /\ it.out = <<>>)'
  BY <1>1, <1>2, FileStays, PlacesStay DEF IndexInv, Serving, Placed
<1>4. (/\ it.out \in Seq(Nat) /\ Ascending(it.out, Passed)
       /\ \A x \in From(it.cur) : index[x] >= call.lower)'
  BY <1>3, NothingPassed, PTL
<1>5. Scanning'
  BY <1>1, <1>2, <1>4 DEF Scanning, Serving
<1> QED BY <1>2, <1>5 DEF CompleteInv

(***************************************************************************)
(* IteratorBetween opens with all records between its two offsets ahead.   *)
(***************************************************************************)
LEMMA HigherFoundComplete ==
  ASSUME IndexInv, CompleteInv, HigherFound
  PROVE  CompleteInv'
<1>1. /\ Placed(res.off, call.higher) /\ Placed(it.cur, call.lower) /\ Serving /\ size \in Nat
      /\ pc = "result" /\ call.op = "BetweenHigher" /\ UNCHANGED <<index, size, call>>
  BY DEF HigherFound, CompleteInv, IndexInv, FileSorted, Serving
<1>2. res.off \in Nat /\ it.cur \in Nat
  BY <1>1 DEF Placed
<1>3. /\ pc' = "iterate" /\ it'.cur = it.cur /\ it'.end = res.off /\ it'.out = <<>>
      /\ it' \in [cur : Nat, end : Nat, out : Seq(Nat), done : BOOLEAN]
  BY <1>2 DEF HigherFound, NewIterator
<1>4. (FileSorted /\ call.lower \in Nat /\ it.cur \in Nat /\ Splits(it.cur, call.lower)
       /\ it.out = <<>>)'
  BY <1>1, <1>2, <1>3, FileStays, PlacesStay DEF IndexInv, Serving, Placed
<1>5. (/\ it.out \in Seq(Nat) /\ Ascending(it.out, Passed)
       /\ \A x \in From(it.cur) : index[x] >= call.lower
       /\ ~\E x \in DOMAIN index : x < it.cur /\ index[x] >= call.lower)'
  BY <1>4, NothingPassed, PTL
<1>6. ~(it'.cur > it'.end)
  <2>1. it.cur <= res.off
    BY <1>1, PlacesOrdered DEF Serving, IndexInv
  <2> QED BY <2>1, <1>2, <1>3
<1>7. Splits(it.end, call.higher)'
  BY <1>1, <1>3, PlacesStay DEF Placed
<1>8. Scanning'
  BY <1>1, <1>2, <1>3, <1>5, <1>6, <1>7 DEF Scanning, Serving
<1> QED BY <1>3, <1>8 DEF CompleteInv

(***************************************************************************)
(* Next returns the first record that is left; if that is not in front of  *)
(* the end of the range it is the first from there on.                     *)
(***************************************************************************)
LEMMA IteratorNextComplete ==
  ASSUME IndexInv, CompleteInv, IteratorNext
  PROVE  CompleteInv'
<1> DEFINE x == SeekNext(it.cur)
<1>1. /\ Scanning /\ FileSorted /\ pc = "iterate" /\ pc' = "iterate" /\ ~Exhausted
      /\ it \in [cur : Nat, end : Nat, out : Seq(Nat), done : BOOLEAN]
      /\ UNCHANGED <<index, size, call>>
      /\ it' = [it EXCEPT !.cur = x + 1, !.out = Append(it.out, index[x])]
  BY DEF CompleteInv, IndexInv, IteratorNext
<1>2. \A y \in DOMAIN index : y \in Nat /\ index[y] \in Nat
  BY <1>1 DEF FileSorted
<1>3. /\ it.cur \in Nat /\ it.end \in Nat /\ it.cur <= it.end /\ IsFirst(x, it.cur)
  BY <1>1, SeekNextIsFirst DEF Exhausted
<1>4. /\ x \in DOMAIN index /\ x \in Nat /\ x >= it.cur /\ index[x] \in Nat
      /\ \A y \in DOMAIN index : y >= it.cur => x <= y
  BY <1>2, <1>3 DEF IsFirst, From
<1> HIDE DEF x
<1>5. index[x] >= call.lower /\ call.lower \in Nat
  BY <1>1, <1>3 DEF Scanning, IsFirst
<1>6. /\ it'.cur = x + 1 /\ it'.end = it.end /\ it'.out = Append(it.out, index[x])
      /\ it' \in [cur : Nat, end : Nat, out : Seq(Nat), done : BOOLEAN]
  <2>1. x + 1 \in Nat /\ Append(it.out, index[x]) \in Seq(Nat)
    BY <1>1, <1>4
  <2> QED BY <2>1, <1>1, Zenon
<1>7. \A y \in DOMAIN index : y < x + 1 <=> y < it.cur \/ y = x
  BY <1>2, <1>3, <1>4
<1>8. Passed' = Passed \cup {index[x]}
  <2>1. Passed' = {index[y] : y \in {z \in DOMAIN index : z < x + 1 /\ index[z] >= call.lower}}
    BY <1>1, <1>6 DEF Passed
  <2>2. {z \in DOMAIN index : z < x + 1 /\ index[z] >= call.lower}
          = {z \in DOMAIN index : z < it.cur /\ index[z] >= call.lower} \cup {x}
    BY <1>4, <1>5, <1>7
  <2> QED BY <2>1, <2>2 DEF Passed
<1>9. \A k \in Passed : k < index[x]
  <2> SUFFICES ASSUME NEW y \in DOMAIN index, y < it.cur PROVE index[y] < index[x]
    BY DEF Passed
  <2>1. y < x
    BY <1>2, <1>3, <1>4
  <2> QED BY <2>1, <1>1, <1>4 DEF FileSorted
<1>10. it'.out \in Seq(Nat) /\ Ascending(it'.out, Passed')
  BY <1>1, <1>4, <1>6, <1>8, <1>9, AscendingAppend DEF Scanning
<1>11. \A y \in From(x + 1) : index[y] >= call.lower
  <2> SUFFICES ASSUME NEW y \in DOMAIN index, y >= x + 1 PROVE index[y] >= call.lower
    BY DEF From
  <2>1. y \in From(it.cur)
    BY <1>2, <1>3, <1>4 DEF From
  <2> QED BY <2>1, <1>1 DEF Scanning
<1>12. ASSUME call.op = "BetweenHigher"
       PROVE  /\ \A y \in DOMAIN index : y < x + 1 /\ index[y] >= call.lower
                                           => y < it.end \/ IsFirst(y, it.end)
              /\ x + 1 > it.end => \E y \in From(it.end) : y < x + 1
  <2>1. x < it.end \/ IsFirst(x, it.end)
    <3> SUFFICES ASSUME x >= it.end PROVE IsFirst(x, it.end)
      BY <1>3, <1>4
    <3>1. x \in From(it.end)
      BY <1>4 DEF From
    <3>2. \A y \in From(it.end) : x <= y
      BY <1>2, <1>3, <1>4 DEF From
    <3> QED BY <3>1, <3>2 DEF IsFirst
  <2>2. \A y \in DOMAIN index : y < it.cur /\ index[y] >= call.lower
                                  => y < it.end \/ IsFirst(y, it.end)
    BY <1>1, <1>12 DEF Scanning
  <2>3. x + 1 > it.end => x \in From(it.end)
    BY <1>3, <1>4 DEF From
  <2>4. x < x + 1
    BY <1>4
  <2> QED BY <2>1, <2>2, <2>3, <2>4, <1>7
<1>13. Scanning'
  <2>1. (\A o : From(o)' = From(o)) /\ (\A o, t : Splits(o, t)' <=> Splits(o, t))
    BY <1>1, PlacesStay
  <2>2. Ascending(it.out, Passed)'
    BY <1>10 DEF Ascending
  <2>3. \A y \in DOMAIN index : IsFirst(y, it.end)' <=> IsFirst(y, it.end)
    BY <1>6, <2>1 DEF IsFirst
  <2>4. call.op = "BetweenHigher" =>
          /\ it'.end \in Nat /\ Splits(it.end, call.higher)'
          /\ \A y \in DOMAIN index' :
               y < it'.cur /\ index'[y] >= call'.lower => y < it'.end \/ IsFirst(y, it.end)'
          /\ it'.cur > it'.end => \E y \in From(it.end)' : y < it'.cur
    BY <2>1, <2>3, <1>1, <1>6, <1>12 DEF Scanning
  <2>5. \A y \in From(it.cur)' : index'[y] >= call'.lower
    BY <2>1, <1>1, <1>6, <1>11
  <2> QED BY <2>2, <2>4, <2>5, <1>1, <1>6, <1>10 DEF Scanning
<1> QED BY <1>1, <1>6, <1>13 DEF CompleteInv

(***************************************************************************)
(* Other steps leave the iterator where it is.                             *)
(***************************************************************************)
LEMMA ScanStays ==
  ASSUME Scanning, UNCHANGED <<index, size, call>>,
         it'.cur = it.cur, it'.end = it.end, it'.out = it.out
  PROVE  Scanning' /\ Exhausted' = Exhausted
<1>1. (\A o : From(o)' = From(o)) /\ (\A o, t : Splits(o, t)' <=> Splits(o, t))
  BY PlacesStay
<1>2. Ascending(it.out, Passed)'
  BY Zenon DEF Scanning, Ascending, Passed
<1>3. \A y \in DOMAIN index : IsFirst(y, it.end)' <=> IsFirst(y, it.end)
  BY <1>1, ZenonT(30) DEF IsFirst
<1>4. Scanning'
  BY <1>1, <1>2, <1>3 DEF Scanning
<1> QED BY <1>1, <1>4 DEF Exhausted

(***************************************************************************)
(* Next answers Done when no record of the range is left.                  *)
(***************************************************************************)
LEMMA DoneComplete ==
  ASSUME IndexInv, CompleteInv, Done
  PROVE  CompleteInv'
<1>1. /\ Scanning /\ Exhausted /\ pc' = "idle" /\ UNCHANGED <<index, size, call>>
      /\ it \in [cur : Nat, end : Nat, out : Seq(Nat), done : BOOLEAN]
      /\ it' = [it EXCEPT !.done = TRUE]
  BY DEF CompleteInv, Done
<1>2. /\ it'.cur = it.cur /\ it'.end = it.end /\ it'.out = it.out
      /\ it' \in [cur : Nat, end : Nat, out : Seq(Nat), done : BOOLEAN]
  BY <1>1, Zenon
<1>3. Scanning' /\ Exhausted'
  BY <1>1, <1>2, ScanStays
<1> QED BY <1>1, <1>2, <1>3 DEF CompleteInv

(***************************************************************************)
(* A step that changes nothing keeps the search complete.                  *)
(***************************************************************************)
LEMMA CallStays ==
  ASSUME CompleteInv, UNCHANGED vars
  PROVE  CompleteInv'
<1>1. /\ UNCHANGED <<index, size, call>> /\ it' = it /\ pc' = pc
      /\ UNCHANGED <<i, j, target, res>>
  BY DEF vars
<1>2. pc = "iterate" => Scanning'
  BY <1>1, ScanStays DEF CompleteInv
<1>3. pc = "idle" /\ call.op \in {"StartingAt", "BetweenHigher"} => Scanning' /\ Exhausted'
  BY <1>1, ScanStays DEF CompleteInv
<1>4. pc = "loop" => Narrowing'
  BY <1>1, PlacesStay DEF CompleteInv, Narrowing
<1>5. pc \in {"loop", "result"} => Serving'
  BY <1>1, PlacesStay DEF CompleteInv, Serving
<1>6. pc = "result" => Placed(res.off, target)' /\ (res'.found <=> target' \in IndexKeys')
  BY <1>1, PlacesStay DEF CompleteInv
<1> QED BY <1>1, <1>2, <1>3, <1>4, <1>5, <1>6 DEF CompleteInv

(***************************************************************************)
(* Nothing is under way when the index is opened.                          *)
(***************************************************************************)
LEMMA CompleteInit == Init => CompleteIfReachable
<1> SUFFICES ASSUME Init PROVE CompleteInv
  BY DEF CompleteIfReachable
<1>1. it \in [cur : Nat, end : Nat, out : Seq(Nat), done : BOOLEAN]
  BY DEF Init
<1> QED BY <1>1 DEF Init, CompleteInv

(***************************************************************************)
(* Every step keeps the search complete while the last record can be       *)
(* reached.                                                                *)
(***************************************************************************)
LEMMA CompleteNext == IndexInv /\ CompleteIfReachable /\ [Next]_vars => CompleteIfReachable'
<1> SUFFICES ASSUME IndexInv, CompleteIfReachable, [Next]_vars, LastIsReachable'
             PROVE  CompleteInv'
  BY DEF CompleteIfReachable
<1>1. UNCHANGED <<index, size>>
  BY Zenon DEF Next, Calls, Steps, Get, IteratorStartingAt, IteratorBetween, Begin, Probe, Arrive,
         Returned, StartFound, LowerFound, HigherFound, IteratorNext, Done, vars
<1>2. LastIsReachable /\ CompleteInv
  BY <1>1, PlacesStay DEF CompleteIfReachable
<1>3. CASE Calls
  <2>1. PICK op \in {"Get", "StartingAt", "Between"}, lower \in Targets, higher \in Targets :
          Begin(op, lower, higher) /\ lower <= higher
    BY <1>3, DiskIndexAssumption DEF Calls, Get, IteratorStartingAt, IteratorBetween
  <2>2. lower \in Nat /\ higher \in Nat
    BY DiskIndexAssumption
  <2> QED BY <2>1, <2>2, <1>2, BeginComplete
<1>4. CASE Returned
  BY <1>2, <1>4 DEF Returned, CompleteInv
<1>5. CASE UNCHANGED vars
  BY <1>2, <1>5, CallStays
<1> QED BY <1>2, <1>3, <1>4, <1>5, ProbeComplete, ArriveComplete, LowerFoundComplete,
           StartFoundComplete, HigherFoundComplete, IteratorNextComplete, DoneComplete
        DEF Next, Steps

(***************************************************************************)
(* What a finished scan of a range has returned.                           *)
(***************************************************************************)
LEMMA ScannedFrom ==
  ASSUME FileSorted, it.cur \in Nat, Scanning, Exhausted, call.op = "StartingAt"
  PROVE  Ascending(it.out, {k \in IndexKeys : k >= call.lower})
<1>1. \A x \in DOMAIN index : x < it.cur
  BY DEF FileSorted, Scanning, Exhausted, From
<1>2. Passed = {k \in IndexKeys : k >= call.lower}
  BY <1>1 DEF Passed, IndexKeys
<1> QED BY <1>2 DEF Scanning

(***************************************************************************)
(* A finished scan between two keys ends with the first key that is not    *)
(* below the upper one.                                                    *)
(***************************************************************************)
UpToFirst(lower, higher) ==
  {k \in IndexKeys : k >= lower /\ \A m \in IndexKeys : m >= higher => k <= m}

(***************************************************************************)
(* IteratorBetween: a finished scan has returned the keys of the index     *)
(* from the lower one on, up to the first that is not below the upper one. *)
(***************************************************************************)
LEMMA ScannedUpTo ==
  ASSUME FileSorted, it.cur \in Nat, Scanning, Exhausted, call.op = "BetweenHigher"
  PROVE  Ascending(it.out, UpToFirst(call.lower, call.higher))
<1> DEFINE range == UpToFirst(call.lower, call.higher)
           front == {index[x] : x \in {y \in DOMAIN index : y < it.end /\ index[y] >= call.lower}}
<1>1. /\ \A x \in DOMAIN index : x \in Nat /\ index[x] \in Nat
      /\ \A x, y \in DOMAIN index : x < y => index[x] < index[y]
      /\ it.end \in Nat /\ call.lower \in Nat /\ call.higher \in Nat /\ call.lower <= call.higher
      /\ \A x \in DOMAIN index : x < it.end => index[x] < call.higher
      /\ \A x \in DOMAIN index : x >= it.end => index[x] >= call.higher
      /\ \A x \in DOMAIN index :
           x < it.cur /\ index[x] >= call.lower => x < it.end \/ IsFirst(x, it.end)
      /\ it.cur > it.end => \E x \in From(it.end) : x < it.cur
      /\ Ascending(it.out, Passed)
  BY DEF FileSorted, Scanning, Splits
<1>2. CASE From(it.end) = {}
  <2>1. \A x \in DOMAIN index : x < it.end
    BY <1>1, <1>2 DEF From
  <2>2. ~(it.cur > it.end)
    BY <1>1, <1>2
  <2>3. From(it.cur) = {}
    BY <2>2 DEF Exhausted
  <2>4. \A x \in DOMAIN index : x < it.cur
    BY <2>3, <1>1 DEF From
  <2>5. Passed = range
    BY <2>1, <2>4, <1>1 DEF Passed, UpToFirst, IndexKeys
  <2> QED BY <2>5, <1>1
<1>3. CASE From(it.end) # {}
  <2>1. it.cur > it.end
    BY <1>1, <1>3 DEF Exhausted, From
  <2>2. PICK y \in From(it.end) : y < it.cur
    BY <2>1, <1>1
  <2>3. y \in DOMAIN index /\ y >= it.end /\ index[y] >= call.higher /\ index[y] >= call.lower
    BY <2>2, <1>1 DEF From
  <2>4. IsFirst(y, it.end)
    BY <2>2, <2>3, <1>1
  <2>5. \A z \in DOMAIN index : z >= it.end => y <= z
    BY <2>4 DEF IsFirst, From
  <2>6. \A z \in DOMAIN index : z < it.cur /\ index[z] >= call.lower => z < it.end \/ z = y
    <3> SUFFICES ASSUME NEW z \in DOMAIN index, IsFirst(z, it.end) PROVE z = y
      BY <1>1
    <3>1. z <= y /\ y <= z
      BY <2>4 DEF IsFirst
    <3> QED BY <3>1, <2>3, <1>1
  <2>7. \A z \in DOMAIN index : z < it.end => z < it.cur
    BY <2>1, <1>1
  <2>8. Passed = front \cup {index[y]}
    BY <2>2, <2>3, <2>6, <2>7 DEF Passed
  <2>9. \A z \in DOMAIN index : z >= it.end => z = y \/ index[z] > index[y]
    BY <2>3, <2>5, <1>1
  <2>10. \A z \in DOMAIN index : z < it.end \/ z >= it.end
    BY <1>1
  <2>11. range = front \cup {index[y]}
    BY <2>3, <2>9, <2>10, <1>1 DEF UpToFirst, IndexKeys
  <2> QED BY <2>8, <2>11, <1>1
<1> QED BY <1>2, <1>3

(***************************************************************************)
(* IteratorBetween, in terms of the range, when its upper end is a key of  *)
(* the index or there is no key above it.                                  *)
(***************************************************************************)
LEMMA ScannedBetween ==
  ASSUME FileSorted, it.cur \in Nat, Scanning, Exhausted, call.op = "BetweenHigher",
         call.higher \in IndexKeys \/ Above(call.higher) = {}
  PROVE  Ascending(it.out, KeysBetween(call.lower, call.higher))
<1>1. /\ call.lower \in Nat /\ call.higher \in Nat /\ call.lower <= call.higher
      /\ \A k \in IndexKeys : k \in Nat
  BY DEF FileSorted, Scanning, IndexKeys
<1>2. UpToFirst(call.lower, call.higher) = KeysBetween(call.lower, call.higher)
  BY <1>1 DEF UpToFirst, KeysBetween, Above
<1> QED BY <1>2, ScannedUpTo

(***************************************************************************)
(* In every file a lookup finds every key there is or has run behind the   *)
(* last record.  Where it cannot run there, lookups find every key, and    *)
(* scans return every key of their range, in order and once, and no other, *)
(* whatever earlier searches left in the cache: also the end of the file   *)
(* that is cached as an empty record.                                      *)
(***************************************************************************)
THEOREM IndexIsComplete == Spec => []IndexComplete
<1>1. IndexInv /\ CompleteIfReachable => IndexComplete
  <2> SUFFICES ASSUME IndexInv, CompleteInv, LastIsReachable
               PROVE  /\ pc = "result" => (res.found <=> target \in IndexKeys)
                      /\ Scanned("StartingAt") =>
                           Ascending(it.out, {k \in IndexKeys : k >= call.lower})
                      /\ Scanned("BetweenHigher")
                         /\ (call.higher \in IndexKeys \/ Above(call.higher) = {}) =>
                           Ascending(it.out, KeysBetween(call.lower, call.higher))
    BY DEF CompleteIfReachable, IndexComplete, IndexInv, MissedAtEnd
  <2>1. FileSorted /\ it.cur \in Nat
    BY DEF IndexInv, CompleteInv
  <2>2. pc = "result" => (res.found <=> target \in IndexKeys)
    BY DEF CompleteInv
  <2>3. Scanned("StartingAt") => Ascending(it.out, {k \in IndexKeys : k >= call.lower})
    BY <2>1, ScannedFrom DEF CompleteInv, Scanned
  <2>4. ASSUME Scanned("BetweenHigher"), call.higher \in IndexKeys \/ Above(call.higher) = {}
        PROVE  Ascending(it.out, KeysBetween(call.lower, call.higher))
    <3>1. Scanning /\ Exhausted /\ call.op = "BetweenHigher"
      BY <2>4 DEF CompleteInv, Scanned
    <3> QED BY <2>1, <2>4, <3>1, ScannedBetween
  <2> QED BY <2>2, <2>3, <2>4
<1> QED BY <1>1, IndexInvInit, IndexInvNext, CompleteInit, CompleteNext, PTL DEF Spec
-----------------------------------------------------------------------------
(***************************************************************************)
(* The slice index.  In an ascending sequence every key is below all that  *)
(* come after it.                                                          *)
(***************************************************************************)
LEMMA AscendingBelow ==
  ASSUME NEW s \in Seq(Nat), NEW S, Ascending(s, S), NEW m \in DOMAIN s, NEW n \in DOMAIN s, m < n
  PROVE  s[m] < s[n]
<1> DEFINE T == {x \in DOMAIN s : m < x /\ ~(s[m] < s[x])}
<1>1. /\ DOMAIN s = 1..Len(s) /\ Len(s) \in Nat /\ \A x \in DOMAIN s : s[x] \in Nat
      /\ \A x \in 1..(Len(s) - 1) : s[x] < s[x + 1]
  BY SMTT(20) DEF Ascending
<1> SUFFICES ASSUME T # {} PROVE FALSE
  OBVIOUS
<1>2. T \in SUBSET Nat
  BY <1>1
<1>3. PICK x \in T : \A y \in T : x <= y
  BY <1>2, LeastNatural
<1>4. x - 1 \in 1..(Len(s) - 1) /\ x - 1 \in DOMAIN s /\ m <= x - 1 /\ x - 1 \notin T
  BY <1>1, <1>3
<1>5. s[x - 1] < s[x]
  BY <1>1, <1>4
<1>6. m = x - 1 \/ s[m] < s[x - 1]
  BY <1>1, <1>4
<1>7. x \in DOMAIN s /\ ~(s[m] < s[x])
  BY <1>3
<1>8. s[m] \in Nat /\ s[x - 1] \in Nat /\ s[x] \in Nat
  BY <1>1, <1>4, <1>7
<1> QED BY <1>5, <1>6, <1>7, <1>8

(***************************************************************************)
(* The keys of a set can be put in ascending order in one way only: a      *)
(* sequence has in each place what the other one has there.                *)
(***************************************************************************)
LEMMA SamePlace ==
  ASSUME NEW s \in Seq(Nat), NEW t \in Seq(Nat), NEW S, Ascending(s, S), Ascending(t, S),
         NEW p \in DOMAIN s
  PROVE  p \in DOMAIN t /\ s[p] = t[p]
<1> DEFINE T == {x \in DOMAIN s : ~(x \in DOMAIN t /\ s[x] = t[x])}
<1>1. /\ DOMAIN s = 1..Len(s) /\ Len(s) \in Nat /\ \A x \in DOMAIN s : s[x] \in Nat
      /\ DOMAIN t = 1..Len(t) /\ Len(t) \in Nat /\ \A x \in DOMAIN t : t[x] \in Nat
  OBVIOUS
<1>2. {s[x] : x \in DOMAIN s} = S /\ {t[x] : x \in DOMAIN t} = S
  BY DEF Ascending
<1>3. \A x, y \in DOMAIN s : x < y => s[x] < s[y]
  BY AscendingBelow
<1>4. \A x, y \in DOMAIN t : x < y => t[x] < t[y]
  BY AscendingBelow
<1> SUFFICES ASSUME T # {} PROVE FALSE
  OBVIOUS
<1>5. T \in SUBSET Nat
  BY <1>1
<1>6. PICK n \in T : \A y \in T : n <= y
  BY <1>5, LeastNatural
<1>7. n \in DOMAIN s /\ n \in Nat /\ ~(n \in DOMAIN t /\ s[n] = t[n])
  BY <1>1, <1>6
<1>8. ASSUME NEW x \in Nat, x \in DOMAIN s \/ x \in DOMAIN t, x < n
      PROVE  x \in DOMAIN s /\ x \in DOMAIN t /\ s[x] = t[x]
  <2>1. x \in DOMAIN s
    BY <1>1, <1>7, <1>8
  <2>2. x \notin T
    BY <1>6, <1>7, <1>8
  <2> QED BY <2>1, <2>2
<1>9. PICK m \in DOMAIN t : t[m] = s[n]
  BY <1>2, <1>7
<1>10. m \in Nat /\ s[n] \in Nat
  BY <1>1, <1>7
<1>11. ~(m < n)
  <2> SUFFICES ASSUME m < n PROVE FALSE
    OBVIOUS
  <2>1. m \in DOMAIN s /\ s[m] = t[m]
    BY <1>8, <1>10
  <2>2. s[m] < s[n]
    BY <1>3, <1>7, <2>1
  <2> QED BY <1>9, <1>10, <2>1, <2>2
<1>12. n < m
  BY <1>7, <1>9, <1>10, <1>11
<1>13. n \in DOMAIN t
  BY <1>1, <1>7, <1>12
<1>14. t[n] < s[n] /\ t[n] \in Nat
  BY <1>1, <1>4, <1>9, <1>12, <1>13
<1>15. PICK l \in DOMAIN s : s[l] = t[n]
  BY <1>2, <1>13
<1>16. l \in Nat
  BY <1>1
<1>17. ~(n < l)
  <2> SUFFICES ASSUME n < l PROVE FALSE
    OBVIOUS
  <2>1. s[n] < s[l]
    BY <1>3, <1>7
  <2> QED BY <1>10, <1>14, <1>15, <2>1
<1>18. n # l
  BY <1>10, <1>14, <1>15
<1>19. l < n
  BY <1>7, <1>16, <1>17, <1>18
<1>20. l \in DOMAIN t /\ s[l] = t[l]
  BY <1>8, <1>16, <1>19
<1>21. t[l] < t[n]
  BY <1>4, <1>13, <1>19, <1>20
<1> QED BY <1>14, <1>15, <1>20, <1>21

(***************************************************************************)
(* Two sequences with the same keys in ascending order are equal.          *)
(***************************************************************************)
LEMMA AscendingOnce ==
  ASSUME NEW s \in Seq(Nat), NEW t \in Seq(Nat), NEW S, Ascending(s, S), Ascending(t, S)
  PROVE  s = t
<1>1. \A p \in DOMAIN s : p \in DOMAIN t /\ s[p] = t[p]
  BY SamePlace
<1>2. \A p \in DOMAIN t : p \in DOMAIN s
  BY SamePlace
<1>3. DOMAIN s = DOMAIN t
  BY <1>1, <1>2
<1>4. s = [p \in DOMAIN s |-> s[p]] /\ t = [p \in DOMAIN t |-> t[p]]
  OBVIOUS
<1> QED BY <1>1, <1>3, <1>4

(***************************************************************************)
(* Load: the last record before an offset, if there is one.                *)
(***************************************************************************)
LEMMA LastIsLast ==
  ASSUME FileSorted, NEW o \in Nat, RecordsBefore(o) # {}
  PROVE  /\ LastBefore(o) \in DOMAIN index /\ LastBefore(o) \in Nat /\ LastBefore(o) < o
         /\ \A y \in RecordsBefore(o) : y <= LastBefore(o)
<1> DEFINE B == RecordsBefore(o)
           T == {x \in Nat : \E y \in B : x = o - y}
<1>1. \A y \in B : y \in DOMAIN index /\ y \in Nat /\ y < o
  BY DEF FileSorted, RecordsBefore
<1>2. T # {} /\ T \in SUBSET Nat
  <2>1. PICK y \in B : TRUE
    OBVIOUS
  <2>2. o - y \in T
    BY <1>1, <2>1
  <2> QED BY <2>2
<1>3. PICK x \in T : \A y \in T : x <= y
  BY <1>2, LeastNatural
<1>4. PICK z \in B : x = o - z
  BY <1>3
<1>5. \A y \in B : z >= y
  BY <1>1, <1>3, <1>4
<1>6. LastBefore(o) = CHOOSE l \in B : \A y \in B : l >= y
  BY DEF LastBefore, Max
<1> HIDE DEF B
<1>7. LastBefore(o) \in B /\ \A y \in B : LastBefore(o) >= y
  BY <1>4, <1>5, <1>6
<1> QED BY <1>1, <1>7 DEF B

(***************************************************************************)
(* The loop of Load reads something at every offset.                       *)
(***************************************************************************)
ReadAt(f, o) ==
  IF RecordsBefore(o) = {} THEN <<>> ELSE Append(f[LastBefore(o)], index[LastBefore(o)])

Reads(f, m) == f = [o \in 0..m |-> ReadAt(f, o)]

(***************************************************************************)
(* For every size of the file there is something that the loop reads.      *)
(***************************************************************************)
LEMMA ReadsOn ==
  ASSUME FileSorted, NEW m \in Nat
  PROVE  \E f : Reads(f, m)
<1> DEFINE T == {x \in Nat : ~\E f : Reads(f, x)}
<1> SUFFICES ASSUME T # {} PROVE FALSE
  OBVIOUS
<1>1. PICK n \in T : \A y \in T : n <= y
  BY LeastNatural
<1>2. CASE n = 0
  <2>1. RecordsBefore(0) = {}
    BY DEF FileSorted, RecordsBefore
  <2>2. Reads([o \in 0..0 |-> <<>>], 0)
    BY <2>1 DEF Reads, ReadAt
  <2> QED BY <1>1, <1>2, <2>2
<1>3. CASE n # 0
  <2>1. n \in Nat /\ n - 1 \in Nat /\ n - 1 \notin T
    BY <1>1, <1>3
  <2>2. PICK f : Reads(f, n - 1)
    BY <2>1
  <2> DEFINE g == [o \in 0..n |-> IF o < n THEN f[o] ELSE ReadAt(f, n)]
  <2>3. \A o \in 0..(n - 1) : f[o] = ReadAt(f, o)
    BY <2>2 DEF Reads
  <2>4. \A o \in 0..(n - 1) : g[o] = f[o]
    BY <2>1
  <2>5. g[n] = ReadAt(f, n)
    BY <2>1
  <2>6. g = [o \in 0..n |-> g[o]]
    OBVIOUS
  <2> HIDE DEF g
  <2>7. ASSUME NEW o \in 0..n
        PROVE  ReadAt(g, o) = ReadAt(f, o)
    <3>1. CASE RecordsBefore(o) = {}
      BY <3>1 DEF ReadAt
    <3>2. CASE RecordsBefore(o) # {}
      <4>1. LastBefore(o) \in Nat /\ LastBefore(o) < o
        BY <3>2, LastIsLast
      <4>2. g[LastBefore(o)] = f[LastBefore(o)]
        BY <2>1, <2>4, <4>1
      <4> QED BY <4>2 DEF ReadAt
    <3> QED BY <3>1, <3>2
  <2>8. ASSUME NEW o \in 0..n
        PROVE  g[o] = ReadAt(g, o)
    <3>1. CASE o = n
      BY <2>5, <2>7, <3>1
    <3>2. CASE o # n
      <4>1. o \in 0..(n - 1)
        BY <2>1, <3>2
      <4> QED BY <2>3, <2>4, <2>7, <4>1
    <3> QED BY <3>1, <3>2
  <2>9. Reads(g, n)
    BY <2>6, <2>8 DEF Reads
  <2> QED BY <1>1, <2>9
<1> QED BY <1>2, <1>3

(***************************************************************************)
(* Load has the keys of the file in ascending order.                       *)
(***************************************************************************)
KeysBefore(o) == {index[x] : x \in RecordsBefore(o)}

(***************************************************************************)
(* Load: the slice has all keys of the file, in ascending order.           *)
(***************************************************************************)
LEMMA LoadedAscends ==
  ASSUME FileSorted
  PROVE  Loaded \in Seq(Nat) /\ Ascending(Loaded, IndexKeys)
<1>1. /\ size \in Nat /\ \A x \in DOMAIN index : x \in Nat /\ x < size /\ index[x] \in Nat
      /\ \A x, y \in DOMAIN index : x < y => index[x] < index[y]
  BY DEF FileSorted
<1>2. Reads(Read, size)
  <2>1. \E f : Reads(f, size)
    BY <1>1, ReadsOn
  <2>2. Read = CHOOSE f : Reads(f, size)
    BY DEF Read, Reads, ReadAt
  <2> QED BY <2>1, <2>2
<1>3. \A o \in 0..size : Read[o] = ReadAt(Read, o)
  BY <1>1, <1>2 DEF Reads
<1> DEFINE Good(o) == Read[o] \in Seq(Nat) /\ Ascending(Read[o], KeysBefore(o))
           T == {o \in 0..size : ~Good(o)}
<1>4. T = {}
  <2> SUFFICES ASSUME T # {} PROVE FALSE
    OBVIOUS
  <2>1. T \in SUBSET Nat
    BY <1>1
  <2>2. PICK n \in T : \A y \in T : n <= y
    BY <2>1, LeastNatural
  <2>3. CASE RecordsBefore(n) = {}
    <3>1. <<>> \in Seq(Nat) /\ KeysBefore(n) = {} /\ Ascending(<<>>, {})
      BY <1>1, <2>3 DEF KeysBefore, Ascending
    <3>2. Read[n] = <<>>
      BY <1>3, <2>2, <2>3 DEF ReadAt
    <3> QED BY <2>2, <3>1, <3>2
  <2>4. CASE RecordsBefore(n) # {}
    <3> DEFINE l == LastBefore(n)
    <3>1. /\ l \in DOMAIN index /\ l \in Nat /\ l < n /\ \A y \in RecordsBefore(n) : y <= l
          /\ n \in Nat /\ n \in 0..size
      BY <1>1, <2>2, <2>4, LastIsLast
    <3> HIDE DEF l
    <3>2. l \in 0..size /\ l \notin T
      BY <1>1, <2>2, <3>1
    <3>3. Good(l)
      BY <3>2
    <3>4. Read[n] = Append(Read[l], index[l]) /\ index[l] \in Nat
      BY <1>1, <1>3, <2>4, <3>1 DEF ReadAt, l
    <3>5. RecordsBefore(n) = RecordsBefore(l) \cup {l}
      BY <1>1, <3>1 DEF RecordsBefore
    <3>6. KeysBefore(n) = KeysBefore(l) \cup {index[l]}
      BY <3>5 DEF KeysBefore
    <3>7. \A k \in KeysBefore(l) : k < index[l]
      <4>1. \A x \in RecordsBefore(l) : x \in DOMAIN index /\ x < l
        BY DEF RecordsBefore
      <4> QED BY <1>1, <3>1, <4>1 DEF KeysBefore
    <3>8. Ascending(Append(Read[l], index[l]), KeysBefore(l) \cup {index[l]})
      BY <3>3, <3>4, <3>7, AscendingAppend, Zenon
    <3>9. Append(Read[l], index[l]) \in Seq(Nat)
      BY <3>3, <3>4
    <3> QED BY <2>2, <3>4, <3>6, <3>8, <3>9, Zenon
  <2> QED BY <2>3, <2>4
<1>5. Good(size)
  BY <1>1, <1>4
<1>6. KeysBefore(size) = IndexKeys
  BY <1>1 DEF KeysBefore, RecordsBefore, IndexKeys
<1> QED BY <1>5, <1>6 DEF Loaded

(***************************************************************************)
(* The search in the slice ends where it should.                           *)
(***************************************************************************)
LEMMA SearchIndexSplits ==
  ASSUME FileSorted, NEW key \in Nat
  PROVE  /\ SearchIndex(key) \in 0..Len(Loaded)
         /\ \A m \in DOMAIN Loaded : Loaded[m] < key <=> m <= SearchIndex(key)
<1> DEFINE T == {m \in DOMAIN Loaded : Loaded[m] >= key}
           Fits(n) == \A m \in DOMAIN Loaded : Loaded[m] < key <=> m <= n
<1>1. /\ DOMAIN Loaded = 1..Len(Loaded) /\ Len(Loaded) \in Nat
      /\ \A m \in DOMAIN Loaded : Loaded[m] \in Nat
  BY LoadedAscends
<1>2. \A m, n \in DOMAIN Loaded : m < n => Loaded[m] < Loaded[n]
  BY LoadedAscends, AscendingBelow
<1>3. \E n \in 0..Len(Loaded) : Fits(n)
  <2>1. CASE T = {}
    <3>1. Fits(Len(Loaded)) /\ Len(Loaded) \in 0..Len(Loaded)
      BY <1>1, <2>1
    <3> QED BY <3>1
  <2>2. CASE T # {}
    <3>1. T \in SUBSET Nat
      BY <1>1
    <3>2. PICK n \in T : \A y \in T : n <= y
      BY <2>2, <3>1, LeastNatural
    <3>3. n \in DOMAIN Loaded /\ Loaded[n] >= key /\ n - 1 \in 0..Len(Loaded)
      BY <1>1, <3>2
    <3>4. Fits(n - 1)
      <4> SUFFICES ASSUME NEW m \in DOMAIN Loaded PROVE Loaded[m] < key <=> m <= n - 1
        OBVIOUS
      <4>1. CASE m <= n - 1
        BY <1>1, <3>2, <3>3, <4>1
      <4>2. CASE m = n
        BY <1>1, <3>3, <4>2
      <4>3. CASE m > n
        BY <1>1, <1>2, <3>3, <4>3
      <4> QED BY <1>1, <3>3, <4>1, <4>2, <4>3
    <3> QED BY <3>3, <3>4
  <2> QED BY <2>1, <2>2
<1>4. SearchIndex(key) = CHOOSE n \in 0..Len(Loaded) : Fits(n)
  BY DEF SearchIndex
<1> HIDE DEF Fits
<1>5. SearchIndex(key) \in 0..Len(Loaded) /\ Fits(SearchIndex(key))
  BY <1>3, <1>4
<1> QED BY <1>5 DEF Fits

(***************************************************************************)
(* A part of the slice is in ascending order.                              *)
(***************************************************************************)
LEMMA EntriesAscend ==
  ASSUME FileSorted, NEW a \in 0..Len(Loaded), NEW b \in a..Len(Loaded)
  PROVE  /\ Entries(a, b) \in Seq(Nat)
         /\ Ascending(Entries(a, b), {Loaded[m] : m \in (a + 1)..b})
<1> DEFINE s == Entries(a, b)
<1>1. /\ Loaded \in Seq(Nat) /\ DOMAIN Loaded = 1..Len(Loaded) /\ Len(Loaded) \in Nat
      /\ \A m \in DOMAIN Loaded : Loaded[m] \in Nat
      /\ a \in Nat /\ b \in Nat /\ a <= b /\ b <= Len(Loaded)
  BY LoadedAscends
<1>2. \A m \in 1..(Len(Loaded) - 1) : Loaded[m] < Loaded[m + 1]
  BY LoadedAscends DEF Ascending
<1>3. s = [n \in 1..(b - a) |-> Loaded[a + n]]
  BY <1>1 DEF Entries, SubSeq
<1>4. s \in Seq(Nat) /\ Len(s) = b - a /\ DOMAIN s = 1..(b - a)
  BY <1>1, <1>3
<1>5. {s[n] : n \in DOMAIN s} = {Loaded[m] : m \in (a + 1)..b}
  <2>1. \A n \in 1..(b - a) : a + n \in (a + 1)..b
    BY <1>1
  <2>2. \A m \in (a + 1)..b : m - a \in 1..(b - a) /\ a + (m - a) = m
    BY <1>1
  <2>3. \A m \in (a + 1)..b : s[m - a] = Loaded[m]
    BY <1>3, <2>2
  <2>4. \A n \in 1..(b - a) : s[n] = Loaded[a + n]
    BY <1>3
  <2> HIDE DEF s
  <2>5. \A k : (\E n \in 1..(b - a) : k = s[n]) <=> (\E m \in (a + 1)..b : k = Loaded[m])
    BY <2>1, <2>2, <2>3, <2>4
  <2> QED BY <1>4, <2>5
<1>6. \A n \in 1..(Len(s) - 1) : s[n] < s[n + 1]
  BY <1>1, <1>2, <1>3, <1>4
<1> QED BY <1>4, <1>5, <1>6 DEF Ascending

(***************************************************************************)
(* What the calls of the slice index return.                               *)
(***************************************************************************)
LEMMA SliceFinds ==
  ASSUME FileSorted, NEW key \in Nat
  PROVE  SliceContains(key) <=> key \in IndexKeys
<1>1. /\ DOMAIN Loaded = 1..Len(Loaded) /\ Len(Loaded) \in Nat
      /\ \A m \in DOMAIN Loaded : Loaded[m] \in Nat
      /\ {Loaded[m] : m \in DOMAIN Loaded} = IndexKeys
  BY LoadedAscends DEF Ascending
<1>2. \A m, n \in DOMAIN Loaded : m < n => Loaded[m] < Loaded[n]
  BY LoadedAscends, AscendingBelow
<1>3. PICK n \in 0..Len(Loaded) :
        n = SearchIndex(key) /\ \A m \in DOMAIN Loaded : Loaded[m] < key <=> m <= n
  BY SearchIndexSplits
<1>4. SliceContains(key) => key \in IndexKeys
  BY <1>1, <1>3 DEF SliceContains
<1>5. ASSUME key \in IndexKeys PROVE SliceContains(key)
  <2>1. PICK m \in DOMAIN Loaded : Loaded[m] = key
    BY <1>1, <1>5
  <2>2. m > n /\ n + 1 \in DOMAIN Loaded /\ ~(Loaded[n + 1] < key)
    BY <1>1, <1>3, <2>1
  <2>3. m = n + 1
    BY <1>1, <1>2, <1>3, <2>1, <2>2
  <2> QED BY <1>1, <1>3, <2>1, <2>3 DEF SliceContains
<1> QED BY <1>4, <1>5

(***************************************************************************)
(* IteratorStartingAt of the slice returns the keys from the given one on. *)
(***************************************************************************)
LEMMA SliceFrom ==
  ASSUME FileSorted, NEW key \in Nat
  PROVE  /\ SliceStartingAt(key) \in Seq(Nat)
         /\ Ascending(SliceStartingAt(key), {k \in IndexKeys : k >= key})
<1>1. /\ DOMAIN Loaded = 1..Len(Loaded) /\ Len(Loaded) \in Nat
      /\ \A m \in DOMAIN Loaded : Loaded[m] \in Nat
      /\ {Loaded[m] : m \in DOMAIN Loaded} = IndexKeys
  BY LoadedAscends DEF Ascending
<1>2. PICK n \in 0..Len(Loaded) :
        n = SearchIndex(key) /\ \A m \in DOMAIN Loaded : Loaded[m] < key <=> m <= n
  BY SearchIndexSplits
<1>3. Len(Loaded) \in n..Len(Loaded)
  BY <1>1
<1>4. {Loaded[m] : m \in (n + 1)..Len(Loaded)} = {k \in IndexKeys : k >= key}
  <2>1. \A m \in (n + 1)..Len(Loaded) : m \in DOMAIN Loaded /\ Loaded[m] >= key
    BY <1>1, <1>2
  <2>2. \A m \in DOMAIN Loaded : Loaded[m] >= key => m \in (n + 1)..Len(Loaded)
    BY <1>1, <1>2
  <2> QED BY <1>1, <2>1, <2>2
<1> QED BY <1>2, <1>3, <1>4, EntriesAscend DEF SliceStartingAt

(***************************************************************************)
(* IteratorBetween of the slice returns the keys from the lower one on, up *)
(* to the first that is not below the upper one.                           *)
(***************************************************************************)
LEMMA SliceUpTo ==
  ASSUME FileSorted, NEW lower \in Nat, NEW higher \in Nat, lower <= higher
  PROVE  /\ SliceBetween(lower, higher) \in Seq(Nat)
         /\ Ascending(SliceBetween(lower, higher), UpToFirst(lower, higher))
<1>1. /\ DOMAIN Loaded = 1..Len(Loaded) /\ Len(Loaded) \in Nat
      /\ \A m \in DOMAIN Loaded : Loaded[m] \in Nat
      /\ {Loaded[m] : m \in DOMAIN Loaded} = IndexKeys
  BY LoadedAscends DEF Ascending
<1>2. \A m, n \in DOMAIN Loaded : m < n => Loaded[m] < Loaded[n]
  BY LoadedAscends, AscendingBelow
<1>3. PICK a \in 0..Len(Loaded) :
        a = SearchIndex(lower) /\ \A m \in DOMAIN Loaded : Loaded[m] < lower <=> m <= a
  BY SearchIndexSplits
<1>4. PICK h \in 0..Len(Loaded) :
        h = SearchIndex(higher) /\ \A m \in DOMAIN Loaded : Loaded[m] < higher <=> m <= h
  BY SearchIndexSplits
<1>5. PICK b \in Nat : /\ b = EndIndex(higher) /\ b <= h + 1 /\ b <= Len(Loaded)
                       /\ b = h + 1 \/ b = Len(Loaded)
  <2>1. {h + 1, Len(Loaded)} \in SUBSET Nat /\ {h + 1, Len(Loaded)} # {}
    BY <1>1
  <2>2. EndIndex(higher) = Min({h + 1, Len(Loaded)})
    BY <1>4 DEF EndIndex
  <2>3. /\ Min({h + 1, Len(Loaded)}) \in {h + 1, Len(Loaded)}
        /\ \A y \in {h + 1, Len(Loaded)} : Min({h + 1, Len(Loaded)}) <= y
    BY <2>1, MinOf
  <2>4. /\ EndIndex(higher) \in Nat
        /\ EndIndex(higher) <= h + 1 /\ EndIndex(higher) <= Len(Loaded)
        /\ EndIndex(higher) = h + 1 \/ EndIndex(higher) = Len(Loaded)
    BY <2>1, <2>2, <2>3
  <2> QED BY <2>4
<1>6. a <= h
  BY <1>1, <1>3, <1>4
<1>7. b \in a..Len(Loaded)
  BY <1>1, <1>5, <1>6
<1>8. {Loaded[m] : m \in (a + 1)..b} = UpToFirst(lower, higher)
  <2>1. ASSUME NEW m \in (a + 1)..b
        PROVE  /\ m \in DOMAIN Loaded /\ Loaded[m] >= lower
               /\ \A x \in DOMAIN Loaded : Loaded[x] >= higher => Loaded[m] <= Loaded[x]
    <3>1. m \in DOMAIN Loaded /\ m <= h + 1 /\ Loaded[m] >= lower
      BY <1>1, <1>3, <1>5, <1>7
    <3>2. \A x \in DOMAIN Loaded : Loaded[x] >= higher => m <= x
      BY <1>1, <1>4, <3>1
    <3>3. \A x \in DOMAIN Loaded : m <= x => Loaded[m] <= Loaded[x]
      BY <1>1, <1>2, <3>1
    <3> QED BY <3>1, <3>2, <3>3
  <2>2. ASSUME NEW m \in DOMAIN Loaded, Loaded[m] >= lower,
               \A x \in DOMAIN Loaded : Loaded[x] >= higher => Loaded[m] <= Loaded[x]
        PROVE  m \in (a + 1)..b
    <3>1. m \in 1..Len(Loaded) /\ m >= a + 1
      BY <1>1, <1>3, <2>2
    <3>2. CASE h + 1 <= Len(Loaded)
      <4>1. h + 1 \in DOMAIN Loaded /\ Loaded[h + 1] >= higher
        BY <1>1, <1>4, <3>2
      <4>2. m <= h + 1
        BY <1>1, <1>2, <2>2, <3>1, <4>1, SMTT(20)
      <4> QED BY <1>1, <1>5, <3>1, <4>2
    <3>3. CASE h + 1 > Len(Loaded)
      BY <1>1, <1>5, <3>1, <3>3
    <3> QED BY <1>1, <3>2, <3>3
  <2> QED BY <1>1, <2>1, <2>2 DEF UpToFirst
<1> QED BY <1>3, <1>5, <1>7, <1>8, EntriesAscend DEF SliceBetween

(***************************************************************************)
(* The index on disk, in a file whose last record can be reached, and the  *)
(* slice in memory give the same answer to every call, for every file,     *)
(* cache and history of calls.                                             *)
(***************************************************************************)
THEOREM IndexesAgree == Spec => []SliceAgrees
<1>1. IndexInv /\ CompleteIfReachable => SliceAgrees
  <2> SUFFICES ASSUME IndexInv, CompleteInv, LastIsReachable PROVE SliceAgrees
    BY DEF CompleteIfReachable, SliceAgrees
  <2>1. FileSorted /\ it.cur \in Nat
    BY DEF IndexInv, CompleteInv
  <2>2. ASSUME pc = "result" PROVE res.found <=> SliceContains(target)
    <3>1. target \in Nat /\ (res.found <=> target \in IndexKeys)
      BY <2>2 DEF IndexInv, SearchTyped, CompleteInv
    <3>2. SliceContains(target) <=> target \in IndexKeys
      BY <2>1, <3>1, SliceFinds
    <3> QED BY <3>1, <3>2
  <2>3. ASSUME Scanned("StartingAt") PROVE it.out = SliceStartingAt(call.lower)
    <3>1. Scanning /\ Exhausted /\ call.op = "StartingAt"
      BY <2>3 DEF CompleteInv, Scanned
    <3>2. call.lower \in Nat /\ it.out \in Seq(Nat)
      BY <3>1 DEF Scanning
    <3> QED BY <2>1, <3>1, <3>2, ScannedFrom, SliceFrom, AscendingOnce
  <2>4. ASSUME Scanned("BetweenHigher") PROVE it.out = SliceBetween(call.lower, call.higher)
    <3>1. Scanning /\ Exhausted /\ call.op = "BetweenHigher"
      BY <2>4 DEF CompleteInv, Scanned
    <3>2. /\ call.lower \in Nat /\ call.higher \in Nat /\ call.lower <= call.higher
          /\ it.out \in Seq(Nat)
      BY <3>1 DEF Scanning
    <3> QED BY <2>1, <3>1, <3>2, ScannedUpTo, SliceUpTo, AscendingOnce
  <2> QED BY <2>2, <2>3, <2>4 DEF SliceAgrees
<1> QED BY <1>1, IndexInvInit, IndexInvNext, CompleteInit, CompleteNext, PTL DEF Spec

=============================================================================
