-------------------------- MODULE ReaderListProofs --------------------------
(***************************************************************************)
(* Proofs of the properties of ReaderList, for any number of Gets, flushes *)
(* and compactions.                                                        *)
(***************************************************************************)
EXTENDS ReaderList, WellFoundedInduction, TLAPS

Reader == [id : Nat, path : Nat, version : Nat]

L(i) == At(allSSTableReaders, i)
Indices == 1..allSSTableReaders.len

(***************************************************************************)
(* A slice does not reach beyond its array.                                *)
(***************************************************************************)
Slice == [array : Nat, len : Nat]

Valid(slice) ==
  slice.len > 0 => slice.array \in DOMAIN arrays /\ slice.len <= Len(arrays[slice.array])

TypeOK ==
  /\ arrays \in Seq(Seq(Reader)) /\ closed \in SUBSET Nat
  /\ allSSTableReaders \in Slice /\ currentReader \in Slice
  /\ allSSTableReaders.array \in 0..Len(arrays)
  /\ flushed \in Nat /\ made \in Nat /\ compactions \in Nat
  /\ compaction \in [pc : {"none", "merge", "replace", "remove"}, old : SUBSET Reader, left : SUBSET Nat]
  /\ get \in [Gets -> [pc : {"idle", "walk", "done"}, slice : Slice, i : Nat, newest : Nat, res : Nat]]

(***************************************************************************)
(* The list: readers are told apart by their ids and in the order of their *)
(* paths; those that a compaction has closed are still to be removed, and  *)
(* the others are in the order of their versions.                          *)
(***************************************************************************)
Stale == IF compaction.pc = "replace" THEN Paths(compaction.old) ELSE compaction.left

ListInv ==
  /\ Valid(allSSTableReaders) /\ closed \subseteq 1..made
  /\ \A i \in Indices : /\ L(i).id \in 1..made /\ L(i).path \in 1..flushed /\ L(i).version <= flushed
                        /\ L(i).path \notin Stale => L(i).id \notin closed
  /\ \A i, j \in Indices : i < j => /\ L(i).id # L(j).id /\ L(i).path < L(j).path
                                    /\ L(i).path \notin compaction.left /\ L(j).path \notin compaction.left
                                         => Before(L(i), L(j))
  /\ ~Locked => currentReader = allSSTableReaders

(***************************************************************************)
(* The inputs of a compaction are in the list until the result replaces    *)
(* the first, and no reader that is not an input is between two of them.   *)
(***************************************************************************)
CompactionInv ==
  /\ compaction.pc # "remove" => compaction.left = {}
  /\ compaction.pc \in {"merge", "replace"} =>
       /\ compaction.old # {} /\ \A r \in compaction.old : \E i \in Indices : L(i) = r
       /\ \A i \in Indices : L(i) \notin compaction.old =>
            \/ \A r \in compaction.old : L(i).path < r.path
            \/ \A r \in compaction.old : r.path < L(i).path
  /\ \A path \in compaction.left : \E i \in Indices : L(i).path = path

(***************************************************************************)
(* The slice of a Get under way is the front part of the list.  The        *)
(* readers it has asked had no version.                                    *)
(***************************************************************************)
Walk(g) ==
  /\ ~Locked /\ Valid(g.slice) /\ g.slice.len <= allSSTableReaders.len
  /\ \A i \in 1..g.slice.len : At(g.slice, i) = L(i) /\ L(i).version <= g.newest
  /\ g.newest = NotFound \/ \E i \in 1..g.slice.len : L(i).version = g.newest
  /\ g.i <= g.slice.len /\ g.res = NotFound
  /\ \A i \in 1..g.slice.len : i > g.i => L(i).version = NotFound

GetInv ==
  \A c \in Gets : /\ get[c].pc = "walk" => Walk(get[c])
                  /\ get[c].pc = "done" => get[c].res = get[c].newest

IInv == TypeOK /\ ListInv /\ CompactionInv /\ GetInv

(***************************************************************************)
(* Every nonempty set of naturals has a least element.                     *)
(***************************************************************************)
LEMMA LeastOf ==
  ASSUME NEW T \in SUBSET Nat, T # {}
  PROVE  \E x \in T : \A y \in T : x <= y
<1> DEFINE Less == OpToRel(<, Nat)
<1>1. \A a, b \in Nat : a < b => <<a, b>> \in Less
  BY DEF OpToRel
<1>2. IsWellFoundedOn(Less, Nat)
  BY NatLessThanWellFounded, Zenon
<1> HIDE DEF Less
<1>3. PICK x \in T : \A y \in T : ~ (<<y, x>> \in Less)
  BY <1>2, WFMin, Zenon
<1>4. \A y \in T : ~ (y < x)
  BY <1>1, <1>3, Zenon
<1> QED BY <1>4

(***************************************************************************)
(* Min of a nonempty set of numbers is its least member.                   *)
(***************************************************************************)
LEMMA MinIsLeast ==
  ASSUME NEW T \in SUBSET Nat, T # {}
  PROVE  Min(T) \in T /\ \A y \in T : Min(T) <= y
<1>1. PICK x \in T : \A y \in T : x <= y
  BY LeastOf
<1> QED BY <1>1, Zenon DEF Min

(***************************************************************************)
(* A bounded set of naturals has a greatest element.                       *)
(***************************************************************************)
LEMMA MaxIsGreatest ==
  ASSUME NEW n \in Nat, NEW T \in SUBSET (0..n), T # {}
  PROVE  Max(T) \in T /\ \A y \in T : y <= Max(T)
<1> DEFINE D == {n - x : x \in T}
<1>1. \A x \in T : x \in Nat /\ n - x \in Nat /\ n - x \in D
  OBVIOUS
<1>2. D \in SUBSET Nat /\ D # {}
  BY <1>1
<1>3. PICK d \in D : \A e \in D : d <= e
  BY <1>2, LeastOf
<1>4. PICK x \in T : d = n - x
  OBVIOUS
<1> HIDE DEF D
<1>5. \A y \in T : x >= y
  BY <1>1, <1>3, <1>4
<1>6. Max(T) \in T /\ \A y \in T : Max(T) >= y
  BY <1>5, Zenon DEF Max
<1> QED BY <1>6

(***************************************************************************)
(* What floodFill sets has no gaps.                                        *)
(***************************************************************************)
LEMMA FilledIsConvex ==
  ASSUME NEW n \in Nat, NEW a \in [1..n -> BOOLEAN],
         NEW x \in 1..n, NEW y \in 1..n, NEW z \in 1..n, x < y, y < z,
         floodFill(a)[x], floodFill(a)[z]
  PROVE  floodFill(a)[y]
<1>1. DOMAIN a = 1..n /\ Len(a) = n
  OBVIOUS
<1>2. PICK i \in 1..n : i <= x /\ a[i]
  BY <1>1 DEF floodFill
<1>3. PICK k \in 1..n : k >= z /\ a[k]
  <2>1. CASE a[z]
    BY <2>1
  <2>2. CASE ~a[z]
    <3>1. PICK j \in 1..(z - 1) : a[j] /\ NextTrue(a, j) > z /\ NextTrue(a, j) <= n
      BY <1>1, <2>2 DEF floodFill
    <3> DEFINE T == {m \in DOMAIN a : m > j /\ a[m]} \cup {Len(a) + 1}
    <3>2. T \in SUBSET Nat /\ T # {}
      BY <1>1
    <3>3. NextTrue(a, j) \in T
      BY <3>2, MinIsLeast DEF NextTrue
    <3>4. NextTrue(a, j) # n + 1
      BY <3>1
    <3> QED BY <1>1, <3>1, <3>3, <3>4
  <2> QED BY <2>1, <2>2
<1>4. CASE a[y]
  BY <1>1, <1>4 DEF floodFill
<1>5. CASE ~a[y]
  <2> DEFINE B == {m \in 1..n : m < y /\ a[m]}
  <2>1. B \in SUBSET (0..n) /\ i \in B
    BY <1>2
  <2> DEFINE b == Max(B)
  <2>2. b \in B /\ \A m \in B : m <= b
    BY <2>1, MaxIsGreatest
  <2> DEFINE T == {m \in DOMAIN a : m > b /\ a[m]} \cup {Len(a) + 1}
  <2>3. T \in SUBSET Nat /\ T # {} /\ k \in T
    BY <1>1, <1>3, <2>2
  <2>4. NextTrue(a, b) \in T /\ NextTrue(a, b) <= k
    BY <2>3, MinIsLeast DEF NextTrue
  <2>5. NextTrue(a, b) \in 1..n /\ a[NextTrue(a, b)] /\ NextTrue(a, b) > b
    BY <1>1, <1>3, <2>4
  <2> HIDE DEF B
  <2>6. b \in 1..(y - 1) /\ a[b]
    BY <2>2 DEF B
  <2> HIDE DEF b, T
  <2>7. ~(NextTrue(a, b) < y)
    <3> SUFFICES ASSUME NextTrue(a, b) < y PROVE FALSE
      OBVIOUS
    <3>1. NextTrue(a, b) \in B
      BY <2>5 DEF B
    <3> QED BY <2>2, <2>5, <2>6, <3>1
  <2>8. NextTrue(a, b) # y
    BY <1>5, <2>5
  <2>9. NextTrue(a, b) > y /\ NextTrue(a, b) <= Len(a)
    BY <1>1, <2>5, <2>7, <2>8
  <2> QED BY <1>1, <2>6, <2>9 DEF floodFill
<1> QED BY <1>4, <1>5

-----------------------------------------------------------------------------
(***************************************************************************)
(* Initially there is no reader.                                           *)
(***************************************************************************)
LEMMA InitIInv == ListInit => IInv
<1> SUFFICES ASSUME ListInit PROVE IInv
  OBVIOUS
<1>1. Indices = {} /\ ~Locked
  BY DEF ListInit, Indices, Empty, Locked, NoCompaction
<1>2. TypeOK
  BY DEF ListInit, TypeOK, Empty, NoCompaction, NoGet, Slice, NotFound
<1>3. ListInv
  BY <1>1 DEF ListInit, ListInv, Valid, Empty
<1>4. CompactionInv
  BY DEF ListInit, CompactionInv, NoCompaction
<1>5. GetInv
  BY DEF ListInit, GetInv, NoGet
<1> QED BY <1>2, <1>3, <1>4, <1>5 DEF IInv

(***************************************************************************)
(* append leaves what is there, in the list and in every slice of a Get.   *)
(***************************************************************************)
LEMMA AppendKeeps ==
  ASSUME TypeOK, Valid(allSSTableReaders), NEW reader \in Reader,
         AddReaderTo(allSSTableReaders, reader)
  PROVE  /\ arrays' \in Seq(Seq(Reader)) /\ allSSTableReaders' \in Slice
         /\ allSSTableReaders'.array \in 0..Len(arrays')
         /\ allSSTableReaders'.len = allSSTableReaders.len + 1 /\ Valid(allSSTableReaders)'
         /\ \A i \in Indices : L(i)' = L(i)
         /\ \A i : i = allSSTableReaders.len + 1 => L(i)' = reader
         /\ \A slice \in Slice : Valid(slice) /\ slice.len <= allSSTableReaders.len =>
              Valid(slice)' /\ \A i \in 1..slice.len : At(slice, i)' = At(slice, i)
<1> DEFINE S == allSSTableReaders
<1>1. S \in Slice /\ S.array \in 0..Len(arrays) /\ arrays \in Seq(Seq(Reader))
  BY DEF TypeOK
<1>2. S.len \in Nat /\ S.array \in Nat /\ S = [array |-> S.array, len |-> S.len]
  BY <1>1 DEF Slice
<1>3. CASE S.len < Capacity(S)
  <2>1. S.array \in DOMAIN arrays /\ S.len + 1 \in DOMAIN arrays[S.array]
    BY <1>1, <1>2, <1>3 DEF Capacity
  <2>2. /\ arrays' = [arrays EXCEPT ![S.array] = [arrays[S.array] EXCEPT ![S.len + 1] = reader]]
        /\ allSSTableReaders' = [array |-> S.array, len |-> S.len + 1]
    BY <1>2, <1>3 DEF AddReaderTo
  <2>3. [arrays[S.array] EXCEPT ![S.len + 1] = reader] \in Seq(Reader)
    BY <1>1, <2>1
  <2>4. /\ arrays' \in Seq(Seq(Reader)) /\ Len(arrays') = Len(arrays)
        /\ \A a \in DOMAIN arrays : Len(arrays'[a]) = Len(arrays[a])
        /\ \A a \in DOMAIN arrays : a # S.array => arrays'[a] = arrays[a]
        /\ \A n \in DOMAIN arrays[S.array] :
             arrays'[S.array][n] = IF n = S.len + 1 THEN reader ELSE arrays[S.array][n]
    <3> DEFINE changed == [arrays[S.array] EXCEPT ![S.len + 1] = reader]
    <3>1. /\ Len(changed) = Len(arrays[S.array])
          /\ \A n \in DOMAIN arrays[S.array] :
               changed[n] = IF n = S.len + 1 THEN reader ELSE arrays[S.array][n]
      BY <1>1, <2>1
    <3> HIDE DEF changed
    <3>2. arrays' = [arrays EXCEPT ![S.array] = changed] /\ changed \in Seq(Reader)
      BY <2>2, <2>3 DEF changed
    <3> HIDE DEF S
    <3> QED BY <1>1, <2>1, <3>1, <3>2
  <2> HIDE DEF S
  <2>5. Valid(allSSTableReaders)'
    BY <1>1, <1>2, <2>1, <2>2, <2>4 DEF Valid
  <2>6. /\ \A i \in Indices : L(i)' = L(i)
        /\ \A i : i = allSSTableReaders.len + 1 => L(i)' = reader
    BY <1>1, <1>2, <2>1, <2>2, <2>4 DEF L, At, Indices, S
  <2>7. ASSUME NEW slice \in Slice, Valid(slice), slice.len <= S.len
        PROVE  Valid(slice)' /\ \A i \in 1..slice.len : At(slice, i)' = At(slice, i)
    <3>1. slice.len \in Nat
      BY DEF Slice
    <3>2. Valid(slice)'
      BY <1>1, <2>4, <2>7, <3>1 DEF Valid
    <3>3. ASSUME NEW i \in 1..slice.len PROVE At(slice, i)' = At(slice, i)
      <4>1. slice.array \in DOMAIN arrays /\ i \in DOMAIN arrays[slice.array] /\ i # S.len + 1
        BY <1>1, <1>2, <2>7, <3>1 DEF Valid
      <4> QED BY <2>4, <4>1 DEF At
    <3> QED BY <3>2, <3>3
  <2> QED BY <1>1, <1>2, <2>2, <2>4, <2>5, <2>6, <2>7 DEF S, Slice
<1>4. CASE ~(S.len < Capacity(S))
  <2> DEFINE size == Max({1, 2 * S.len})
             new == [i \in 1..size |->
                       IF i <= S.len THEN At(S, i) ELSE IF i = S.len + 1 THEN reader ELSE NoReader]
  <2>1. size \in Nat /\ size >= S.len + 1
    <3>1. {1, 2 * S.len} \in SUBSET (0..(2 * S.len + 1)) /\ {1, 2 * S.len} # {} /\ 2 * S.len + 1 \in Nat
      BY <1>2
    <3> HIDE DEF S
    <3>2. Max({1, 2 * S.len}) \in {1, 2 * S.len} /\ \A y \in {1, 2 * S.len} : y <= Max({1, 2 * S.len})
      BY <3>1, MaxIsGreatest
    <3> QED BY <1>2, <3>2
  <2> HIDE DEF size
  <2>2. /\ arrays' = Append(arrays, new)
        /\ allSSTableReaders' = [array |-> Len(arrays) + 1, len |-> S.len + 1]
    BY <1>4 DEF AddReaderTo, size
  <2>3. \A i \in 1..S.len : At(S, i) \in Reader
    BY <1>1, <1>2 DEF At, Valid
  <2>4. new \in Seq(Reader) /\ Len(new) = size
    <3>1. NoReader \in Reader
      BY DEF NoReader, Reader, NotFound
    <3>2. \A i \in 1..size : new[i] \in Reader
      BY <1>2, <2>1, <2>3, <3>1
    <3>3. new = [i \in 1..size |-> new[i]]
      OBVIOUS
    <3> HIDE DEF new
    <3> QED BY <2>1, <3>2, <3>3
  <2> HIDE DEF S, new
  <2>5. /\ arrays' \in Seq(Seq(Reader)) /\ Len(arrays') = Len(arrays) + 1
        /\ arrays'[Len(arrays) + 1] = new
        /\ \A a \in DOMAIN arrays : a \in DOMAIN arrays' /\ arrays'[a] = arrays[a]
    BY <1>1, <2>2, <2>4
  <2>6. Valid(allSSTableReaders)'
    BY <1>1, <1>2, <2>1, <2>2, <2>4, <2>5 DEF Valid
  <2>7. /\ \A i \in Indices : L(i)' = L(i)
        /\ \A i : i = allSSTableReaders.len + 1 => L(i)' = reader
    <3>1. \A i \in 1..size : L(i)' = new[i]
      BY <2>2, <2>5 DEF L, At
    <3>2. \A i \in Indices : i \in 1..size /\ new[i] = L(i)
      BY <1>2, <2>1 DEF Indices, new, L, S
    <3>3. S.len + 1 \in 1..size /\ new[S.len + 1] = reader
      BY <1>2, <2>1 DEF new
    <3> QED BY <3>1, <3>2, <3>3 DEF S
  <2>8. ASSUME NEW slice \in Slice, Valid(slice)
        PROVE  Valid(slice)' /\ \A i \in 1..slice.len : At(slice, i)' = At(slice, i)
    BY <2>5, <2>8 DEF Valid, At, Slice
  <2> QED BY <1>1, <1>2, <2>2, <2>5, <2>6, <2>7, <2>8 DEF S, Slice
<1> QED BY <1>3, <1>4

(***************************************************************************)
(* addReader: the new reader is newer than all others.                     *)
(***************************************************************************)
LEMMA AddReaderStep ==
  ASSUME IInv, AddReader
  PROVE  IInv'
<1> USE DEF IInv
<1>1. PICK version \in {NotFound, flushed + 1} :
        AddReaderTo(allSSTableReaders, [id |-> made + 1, path |-> flushed + 1, version |-> version])
  BY DEF AddReader
<1> DEFINE reader == [id |-> made + 1, path |-> flushed + 1, version |-> version]
           N == allSSTableReaders.len
<1>2. /\ flushed \in Nat /\ made \in Nat /\ N \in Nat /\ version \in Nat
      /\ flushed' = flushed + 1 /\ made' = made + 1
      /\ UNCHANGED <<closed, compaction, compactions, get>> /\ currentReader' = allSSTableReaders'
      /\ ~Locked /\ ~Locked'
  BY <1>1 DEF TypeOK, AddReader, NotFound, Slice, Locked
<1>3. /\ reader \in Reader /\ reader.id = made + 1 /\ reader.path = flushed + 1
      /\ reader.version = version
  BY <1>2 DEF Reader
<1> HIDE DEF reader
<1>4. /\ arrays' \in Seq(Seq(Reader)) /\ allSSTableReaders' \in Slice
      /\ allSSTableReaders'.array \in 0..Len(arrays')
      /\ allSSTableReaders'.len = N + 1 /\ Valid(allSSTableReaders)'
      /\ \A i \in Indices : L(i)' = L(i)
      /\ \A i : i = N + 1 => L(i)' = reader
      /\ \A slice \in Slice : Valid(slice) /\ slice.len <= N =>
           Valid(slice)' /\ \A i \in 1..slice.len : At(slice, i)' = At(slice, i)
  <2>1. AddReaderTo(allSSTableReaders, reader)
    BY <1>1 DEF reader
  <2> QED BY <1>3, <2>1, AppendKeeps DEF ListInv
<1>5. compaction.left = {} /\ compaction.pc # "replace" /\ Stale = {} /\ Stale' = {}
  BY <1>2 DEF CompactionInv, Locked, Stale, TypeOK
<1>6. Indices = 1..N /\ Indices' = 1..(N + 1)
  BY <1>4 DEF Indices
<1> HIDE DEF N
<1>7. /\ \A i \in 1..N : L(i)' = L(i)
      /\ \A i \in 1..(N + 1) : i \in 1..N \/ (L(i)' = reader /\ i = N + 1)
  <2>1. \A i \in 1..(N + 1) : i \in 1..N \/ i = N + 1
    BY <1>2
  <2> QED BY <1>4, <1>6, <2>1, Zenon
<1>t. TypeOK'
  BY <1>2, <1>4 DEF TypeOK
<1>l. ListInv'
  <2>1. \A i \in 1..N : /\ L(i).id \in 1..made /\ L(i).path \in 1..flushed /\ L(i).version <= flushed
                        /\ L(i).id \notin closed /\ L(i).version \in Nat
    <3>1. \A i \in 1..N : L(i) \in Reader
      BY DEF TypeOK, ListInv, Valid, L, At, Slice, N
    <3> QED BY <1>5, <1>6, <3>1 DEF ListInv, Reader
  <2>2. closed' \subseteq 1..made'
    BY <1>2 DEF ListInv
  <2>3. \A i \in Indices' : /\ L(i)'.id \in 1..made' /\ L(i)'.path \in 1..flushed'
                            /\ L(i)'.version <= flushed' /\ L(i)'.id \notin closed'
    <3>1. /\ reader.id \in 1..made' /\ reader.path \in 1..flushed' /\ reader.version <= flushed'
          /\ reader.id \notin closed'
      BY <1>1, <1>2, <1>3 DEF ListInv, NotFound
    <3> QED BY <1>2, <1>6, <1>7, <2>1, <3>1
  <2>4. \A i, j \in 1..N : i < j => /\ L(i).id # L(j).id /\ L(i).path < L(j).path
                                    /\ Before(L(i), L(j))
    BY <1>5, <1>6 DEF ListInv
  <2>5. \A i \in 1..N : L(i).id # reader.id /\ Before(L(i), reader)
    BY <1>1, <1>2, <1>3, <2>1 DEF Before
  <2>6. ASSUME NEW i \in Indices', NEW j \in Indices', i < j
        PROVE  L(i)'.id # L(j)'.id /\ Before(L(i)', L(j)')
    <3>1. i \in 1..N
      BY <1>2, <1>6, <2>6
    <3>2. CASE j \in 1..N
      BY <1>7, <2>4, <2>6, <3>1, <3>2
    <3>3. CASE L(j)' = reader
      BY <1>7, <2>5, <3>1, <3>3
    <3> QED BY <1>6, <1>7, <3>2, <3>3
  <2>7. \A i, j \in Indices' : i < j => L(i)'.path < L(j)'.path
    BY <2>6 DEF Before
  <2> QED BY <1>2, <1>4, <2>2, <2>3, <2>6, <2>7 DEF ListInv, Before
<1>c. CompactionInv'
  <2>1. compaction.pc = "merge" =>
          /\ compaction.old # {} /\ \A r \in compaction.old : \E i \in Indices' : L(i)' = r
          /\ \A i \in Indices' : L(i)' \notin compaction.old =>
               \/ \A r \in compaction.old : L(i)'.path < r.path
               \/ \A r \in compaction.old : r.path < L(i)'.path
    <3> SUFFICES ASSUME compaction.pc = "merge"
                 PROVE  /\ compaction.old # {} /\ \A r \in compaction.old : \E i \in Indices' : L(i)' = r
                        /\ \A i \in Indices' : L(i)' \notin compaction.old =>
                             \/ \A r \in compaction.old : L(i)'.path < r.path
                             \/ \A r \in compaction.old : r.path < L(i)'.path
      OBVIOUS
    <3>1. compaction.old # {} /\ \A r \in compaction.old : \E i \in 1..N : L(i) = r
      BY <1>6 DEF CompactionInv
    <3>2. \A r \in compaction.old : r.path < reader.path
      BY <1>2, <1>3, <1>6, <3>1 DEF ListInv
    <3>3. \A r \in compaction.old : \E i \in Indices' : L(i)' = r
      BY <1>2, <1>6, <1>7, <3>1
    <3>4. ASSUME NEW i \in 1..N, L(i) \notin compaction.old
          PROVE  \/ \A r \in compaction.old : L(i).path < r.path
                 \/ \A r \in compaction.old : r.path < L(i).path
      BY <1>6, <3>4 DEF CompactionInv
    <3> QED BY <1>6, <1>7, <3>1, <3>2, <3>3, <3>4
  <2> QED BY <1>2, <1>5, <2>1 DEF CompactionInv
<1>g. GetInv'
  <2>1. ASSUME NEW c \in Gets, get[c].pc = "walk" PROVE Walk(get[c])'
    <3>0. PICK g : g = get[c]
      OBVIOUS
    <3>1. Walk(g) /\ g.slice \in Slice /\ g.slice.len \in Nat
      BY <2>1, <3>0 DEF GetInv, TypeOK, Slice
    <3>2. Valid(g.slice)' /\ \A i \in 1..g.slice.len : At(g.slice, i)' = At(g.slice, i)
      BY <1>2, <1>4, <3>1 DEF Walk, N
    <3>3. \A i \in 1..g.slice.len : i \in 1..N /\ L(i)' = L(i)
      BY <1>2, <1>7, <3>1 DEF Walk, N
    <3>4. Walk(g)'
      BY <1>2, <1>4, <3>1, <3>2, <3>3 DEF Walk, N
    <3> QED BY <1>2, <3>0, <3>4
  <2> QED BY <1>2, <2>1 DEF GetInv
<1> QED BY <1>t, <1>l, <1>c, <1>g

(***************************************************************************)
(* A step that changes no slice and no array leaves the list as it is.     *)
(***************************************************************************)
LEMMA SameList ==
  ASSUME UNCHANGED list
  PROVE  /\ Indices' = Indices /\ \A i : L(i)' = L(i)
         /\ \A slice, i : At(slice, i)' = At(slice, i)
         /\ \A slice : Valid(slice)' <=> Valid(slice)
BY DEF list, Indices, L, At, Valid

(***************************************************************************)
(* The list: its length, its places and the readers at them.               *)
(***************************************************************************)
LEMMA ListTyped ==
  ASSUME IInv
  PROVE  /\ allSSTableReaders.len \in Nat /\ Indices = 1..allSSTableReaders.len
         /\ made \in Nat /\ flushed \in Nat
         /\ \A i \in Indices : /\ L(i) \in Reader /\ L(i).version \in Nat
                               /\ L(i).path \in 1..flushed /\ L(i).id \in 1..made
<1>1. allSSTableReaders.len \in Nat /\ Indices = 1..allSSTableReaders.len
  BY DEF IInv, TypeOK, Slice, Indices
<1>2. \A i \in Indices : L(i) \in Reader
  BY <1>1 DEF IInv, TypeOK, ListInv, Valid, L, At, Slice
<1> QED BY <1>1, <1>2 DEF IInv, TypeOK, ListInv, Reader

(***************************************************************************)
(* A Get under way does not notice a step that leaves the list.            *)
(***************************************************************************)
LEMMA GetsFrame ==
  ASSUME GetInv, UNCHANGED <<list, get>>, ~Locked' \/ \A c \in Gets : get[c].pc # "walk"
  PROVE  GetInv'
<1>1. UNCHANGED list
  OBVIOUS
<1>2. ASSUME NEW c \in Gets, get[c].pc = "walk" PROVE Walk(get[c])'
  <2>1. PICK g : g = get[c] /\ g = get'[c]
    OBVIOUS
  <2>2. Walk(g)
    BY <1>2, <2>1 DEF GetInv
  <2>3. allSSTableReaders' = allSSTableReaders /\ ~Locked'
    BY <1>2 DEF list
  <2>4. Walk(g)'
    BY <1>1, <2>2, <2>3, SameList DEF Walk
  <2> QED BY <2>1, <2>4
<1> QED BY <1>2 DEF GetInv

(***************************************************************************)
(* candidateTablesForCompaction selects neighbours.                        *)
(***************************************************************************)
LEMMA SelectStep ==
  ASSUME IInv, SelectCandidates
  PROVE  IInv'
<1> DEFINE N == allSSTableReaders.len
<1>1. PICK selected \in [1..N -> BOOLEAN] :
        LET picked == {i \in DOMAIN selected : floodFill(selected)[i]}
        IN  /\ picked # {}
            /\ compaction' = [pc |-> "merge", left |-> {},
                              old |-> {At(allSSTableReaders, i) : i \in picked}]
  BY DEF SelectCandidates
<1> DEFINE picked == {i \in 1..N : floodFill(selected)[i]}
           old == {L(i) : i \in picked}
<1>2. /\ picked # {} /\ compaction' = [pc |-> "merge", left |-> {}, old |-> old]
      /\ compaction'.pc = "merge" /\ compaction'.left = {} /\ compaction'.old = old
  BY <1>1 DEF L
<1>3. /\ UNCHANGED <<list, closed, flushed, made, get>> /\ compactions' = compactions + 1
      /\ compaction.pc = "none" /\ ~Locked /\ ~Locked'
  BY <1>2 DEF SelectCandidates, Locked
<1>4. compaction.left = {} /\ Stale = {} /\ Stale' = {}
  BY <1>2, <1>3 DEF IInv, CompactionInv, Stale
<1>5. /\ Indices' = Indices /\ \A i : L(i)' = L(i)
      /\ \A slice : Valid(slice)' <=> Valid(slice)
  BY <1>3, SameList
<1>6. N \in Nat /\ Indices = 1..N /\ \A i \in Indices : L(i) \in Reader /\ L(i).path \in Nat
  BY ListTyped DEF Reader
<1>t. TypeOK'
  <2>1. old \in SUBSET Reader
    BY <1>6
  <2> QED BY <1>2, <1>3, <2>1 DEF IInv, TypeOK, list
<1>l. ListInv'
  <2>1. allSSTableReaders' = allSSTableReaders /\ currentReader' = currentReader
    BY <1>3 DEF list
  <2>2. UNCHANGED <<made, flushed, closed>>
    BY <1>3
  <2> QED BY <1>2, <1>3, <1>4, <1>5, <2>1, <2>2 DEF IInv, ListInv
<1>c. CompactionInv'
  <2>1. old # {} /\ \A r \in old : \E i \in Indices : L(i) = r
    BY <1>2, <1>6
  <2>2. ASSUME NEW i \in Indices, L(i) \notin old
        PROVE  (\A r \in old : L(i).path < r.path) \/ (\A r \in old : r.path < L(i).path)
    <3>1. i \in 1..N /\ i \notin picked
      BY <1>6, <2>2
    <3>2. ASSUME NEW x \in picked, NEW z \in picked, x < i, i < z PROVE FALSE
      BY <1>6, <3>1, <3>2, FilledIsConvex
    <3>3. \/ \A x \in picked : i < x
          \/ \A x \in picked : x < i
      BY <1>6, <3>1, <3>2
    <3>4. \A x, y \in Indices : x < y => L(x).path < L(y).path
      BY DEF IInv, ListInv
    <3> QED BY <1>6, <3>1, <3>3, <3>4
  <2> HIDE DEF old
  <2> QED BY <1>2, <1>5, <2>1, <2>2 DEF CompactionInv
<1>g. GetInv'
  BY <1>3, GetsFrame DEF IInv
<1> QED BY <1>t, <1>l, <1>c, <1>g DEF IInv

(***************************************************************************)
(* reflectCompactionResult closes readers when no Get is under way.        *)
(***************************************************************************)
LEMMA ReflectStep ==
  ASSUME IInv, ReflectCompactionResult
  PROVE  IInv'
<1>1. /\ UNCHANGED <<list, flushed, made, compactions, get>>
      /\ \A c \in Gets : get[c].pc # "walk"
      /\ closed' = closed \cup {r.id : r \in compaction.old}
      /\ compaction.pc = "merge" /\ compaction' = [compaction EXCEPT !.pc = "replace"]
  BY DEF ReflectCompactionResult
<1>2. /\ compaction'.pc = "replace" /\ compaction'.old = compaction.old
      /\ compaction'.left = {} /\ compaction.left = {} /\ Locked' /\ ~Locked
      /\ Stale' = Paths(compaction.old) /\ Stale = {}
  BY <1>1 DEF IInv, TypeOK, CompactionInv, Locked, Stale
<1>3. /\ Indices' = Indices /\ \A i : L(i)' = L(i)
      /\ \A slice : Valid(slice)' <=> Valid(slice)
  BY <1>1, SameList
<1>4. compaction.old # {} /\ \A r \in compaction.old : \E i \in Indices : L(i) = r
  BY <1>1 DEF IInv, CompactionInv
<1>t. TypeOK'
  <2>1. closed' \in SUBSET Nat
    BY <1>1 DEF IInv, TypeOK, Reader
  <2> QED BY <1>1, <1>2, <2>1, SMTT(20) DEF IInv, TypeOK, list
<1>l. ListInv'
  <2>1. closed' \subseteq 1..made'
    BY <1>1, <1>4 DEF IInv, ListInv
  <2>2. ASSUME NEW i \in Indices, L(i).path \notin Paths(compaction.old)
        PROVE  L(i).id \notin closed'
    <3>1. L(i) \notin compaction.old /\ L(i).id \notin closed
      BY <1>2, <2>2 DEF Paths, IInv, ListInv
    <3>2. ASSUME NEW r \in compaction.old PROVE r.id # L(i).id
      <4>1. PICK j \in Indices : L(j) = r
        BY <1>4
      <4>2. i # j
        BY <3>1, <4>1
      <4> QED BY <4>1, <4>2, ListTyped DEF IInv, ListInv
    <3> QED BY <1>1, <3>1, <3>2
  <2>3. /\ Valid(allSSTableReaders)' /\ UNCHANGED <<made, flushed>>
        /\ \A i \in Indices : L(i).id \in 1..made /\ L(i).path \in 1..flushed /\ L(i).version <= flushed
        /\ \A i, j \in Indices : i < j => /\ L(i).id # L(j).id /\ L(i).path < L(j).path
                                          /\ Before(L(i), L(j))
    BY <1>1, <1>2, <1>3 DEF IInv, ListInv, list
  <2> QED BY <1>2, <1>3, <2>1, <2>2, <2>3 DEF ListInv
<1>c. CompactionInv'
  BY <1>1, <1>2, <1>3 DEF IInv, CompactionInv
<1>g. GetInv'
  BY <1>1, GetsFrame DEF IInv
<1> QED BY <1>t, <1>l, <1>c, <1>g DEF IInv

(***************************************************************************)
(* Paths tell the readers of the list apart, so indexOfReader finds the    *)
(* one that is asked for.                                                  *)
(***************************************************************************)
LEMMA IndexFound ==
  ASSUME IInv, NEW k \in Indices
  PROVE  indexOfReader(allSSTableReaders, L(k).path) = k
<1>1. \A i \in Indices : L(i).path = L(k).path => i = k
  BY ListTyped DEF IInv, ListInv
<1> QED BY <1>1 DEF indexOfReader, L, Indices

(***************************************************************************)
(* The result of a merge has no version only if no input has one, and else *)
(* that of an input.                                                       *)
(***************************************************************************)
LEMMA MergedFromInputs ==
  ASSUME NEW n \in Nat, NEW old \in SUBSET Reader, \A r \in old : r.path <= n
  PROVE  Merged(old) # NotFound => \E r \in old : Merged(old) = r.version
<1> DEFINE holding == {r \in old : r.version # NotFound}
<1>1. CASE holding = {}
  BY <1>1 DEF Merged
<1>2. CASE holding # {}
  <2>1. Paths(holding) \in SUBSET (0..n) /\ Paths(holding) # {}
    BY <1>2 DEF Paths, Reader
  <2> HIDE DEF holding
  <2>2. Max(Paths(holding)) \in Paths(holding)
    BY <2>1, MaxIsGreatest
  <2>3. \E r \in holding : r.path = Max(Paths(holding))
    BY <2>2 DEF Paths
  <2>4. (CHOOSE r \in holding : r.path = Max(Paths(holding))) \in holding
    BY <2>3
  <2> QED BY <1>2, <2>4 DEF Merged, holding
<1> QED BY <1>1, <1>2

(***************************************************************************)
(* The result takes the place of the first input: because the inputs are   *)
(* neighbours, its version is in order with those of the other tables.     *)
(***************************************************************************)
LEMMA ReplaceStep ==
  ASSUME IInv, ReplaceReader
  PROVE  IInv'
<1> DEFINE S == allSSTableReaders
           old == compaction.old
           first == Min(Paths(old))
           replacedReader == [id |-> made + 1, path |-> first, version |-> Merged(old)]
<1>1. /\ compaction.pc = "replace" /\ UNCHANGED <<allSSTableReaders, currentReader, closed, flushed, compactions, get>>
      /\ arrays' = [arrays EXCEPT ![S.array][indexOfReader(S, first)] = replacedReader]
      /\ compaction' = [compaction EXCEPT !.pc = "remove", !.left = Paths(old) \ {first}]
      /\ made' = made + 1
  BY DEF ReplaceReader
<1>2. /\ compaction'.pc = "remove" /\ compaction'.left = Paths(old) \ {first}
      /\ compaction'.old = old /\ compaction.left = {} /\ Locked /\ Locked'
      /\ Stale = Paths(old) /\ Stale' = Paths(old) \ {first}
  BY <1>1 DEF IInv, TypeOK, CompactionInv, Locked, Stale
<1>3. /\ old \in SUBSET Reader /\ old # {} /\ \A r \in old : \E i \in Indices : L(i) = r
      /\ \A i \in Indices : L(i) \notin old =>
           (\A r \in old : L(i).path < r.path) \/ (\A r \in old : r.path < L(i).path)
  BY <1>1 DEF IInv, TypeOK, CompactionInv
<1>4. /\ made \in Nat /\ flushed \in Nat /\ Indices = 1..S.len /\ S.len \in Nat
      /\ \A i \in Indices : /\ L(i) \in Reader /\ L(i).version \in Nat
                            /\ L(i).path \in 1..flushed /\ L(i).id \in 1..made
  BY ListTyped
<1>5. first \in Paths(old) /\ Paths(old) \in SUBSET Nat
  <2>1. Paths(old) \in SUBSET Nat /\ Paths(old) # {}
    BY <1>3 DEF Paths, Reader
  <2> HIDE DEF old
  <2> QED BY <2>1, MinIsLeast
<1> HIDE DEF first
<1>6. PICK k \in Indices : L(k) \in old /\ L(k).path = first
  BY <1>3, <1>5 DEF Paths
<1>7. indexOfReader(S, first) = k
  BY <1>6, IndexFound
<1>8. /\ Merged(old) \in Nat /\ Merged(old) <= flushed
      /\ Merged(old) # NotFound => \E r \in old : Merged(old) = r.version
  <2>1. \A r \in old : r.path <= flushed /\ r.version <= flushed /\ r.version \in Nat
    BY <1>3, <1>4 DEF IInv, ListInv
  <2> HIDE DEF old
  <2>2. Merged(old) # NotFound => \E r \in old : Merged(old) = r.version
    BY <1>3, <1>4, <2>1, MergedFromInputs
  <2> QED BY <1>4, <2>1, <2>2 DEF NotFound
<1>9. /\ replacedReader \in Reader /\ replacedReader.id = made + 1
      /\ replacedReader.path = first /\ replacedReader.version = Merged(old)
  BY <1>4, <1>5, <1>8 DEF Reader
<1> HIDE DEF replacedReader, old
<1>10. /\ arrays' \in Seq(Seq(Reader)) /\ Len(arrays') = Len(arrays) /\ Valid(S)'
       /\ \A i \in Indices : L(i)' = IF i = k THEN replacedReader ELSE L(i)
  <2>1. S.array \in DOMAIN arrays /\ k \in DOMAIN arrays[S.array] /\ S.len <= Len(arrays[S.array])
    BY <1>4 DEF IInv, TypeOK, ListInv, Valid
  <2> DEFINE changed == [arrays[S.array] EXCEPT ![k] = replacedReader]
  <2>2. arrays \in Seq(Seq(Reader)) /\ arrays[S.array] \in Seq(Reader)
    BY <2>1 DEF IInv, TypeOK
  <2>3. /\ changed \in Seq(Reader) /\ Len(changed) = Len(arrays[S.array])
        /\ \A i \in DOMAIN arrays[S.array] :
             changed[i] = IF i = k THEN replacedReader ELSE arrays[S.array][i]
    BY <1>9, <2>1, <2>2
  <2>4. arrays' = [arrays EXCEPT ![S.array] = changed]
    BY <1>1, <1>7
  <2> HIDE DEF changed
  <2>5. /\ arrays' \in Seq(Seq(Reader)) /\ Len(arrays') = Len(arrays) /\ arrays'[S.array] = changed
    BY <2>1, <2>2, <2>3, <2>4
  <2>6. \A i \in Indices : i \in DOMAIN arrays[S.array] /\ L(i) = arrays[S.array][i] /\ L(i)' = changed[i]
    BY <1>1, <1>4, <2>1, <2>2, <2>5, SMTT(20) DEF L, At
  <2> QED BY <1>1, <2>1, <2>2, <2>3, <2>5, <2>6 DEF Valid
<1>11. Indices' = Indices /\ \A i \in Indices : L(i)'.path = L(i).path
  BY <1>1, <1>6, <1>9, <1>10 DEF Indices
<1>t. TypeOK'
  <2>1. compaction' = [pc |-> "remove", old |-> compaction.old, left |-> Paths(old) \ {first}]
    BY <1>1 DEF IInv, TypeOK, old
  <2>2. Paths(old) \ {first} \in SUBSET Nat
    BY <1>5
  <2>3. compaction' \in [pc : {"none", "merge", "replace", "remove"}, old : SUBSET Reader, left : SUBSET Nat]
    BY <2>1, <2>2 DEF IInv, TypeOK
  <2> QED BY <1>1, <1>4, <1>10, <2>3 DEF IInv, TypeOK
<1>12. \A i \in Indices : L(i).path \in Paths(old) <=> L(i) \in old
  <2>1. ASSUME NEW i \in Indices, NEW r \in old, L(i).path = r.path PROVE L(i) \in old
    <3>1. PICK j \in Indices : L(j) = r
      BY <1>3
    <3>2. L(i).path = L(j).path /\ i \in Nat /\ j \in Nat
      BY <1>4, <2>1, <3>1
    <3>3. \A m, n \in Indices : m < n => L(m).path < L(n).path
      BY DEF IInv, ListInv
    <3>4. i = j
      BY <1>4, <3>1, <3>2, <3>3
    <3> QED BY <3>1, <3>4
  <2> QED BY <2>1 DEF Paths
<1>13. \A i, j \in Indices : i < j =>
         L(i).id # L(j).id /\ L(i).path < L(j).path /\ Before(L(i), L(j))
  BY <1>2 DEF IInv, ListInv
<1>l. ListInv'
  <2>1. ASSUME NEW i \in Indices
        PROVE  /\ L(i)'.id \in 1..made' /\ L(i)'.path \in 1..flushed' /\ L(i)'.version <= flushed'
               /\ L(i)'.path \notin Stale' => L(i)'.id \notin closed'
    <3>1. CASE i = k
      <4>1. made + 1 \notin closed
        BY <1>4 DEF IInv, ListInv
      <4>2. L(i)' = replacedReader
        BY <1>10, <3>1
      <4>3. first \in 1..flushed
        BY <1>4, <1>6
      <4>4. made + 1 \in 1..made' /\ closed' = closed /\ flushed' = flushed
        BY <1>1, <1>4
      <4> QED BY <1>8, <1>9, <4>1, <4>2, <4>3, <4>4
    <3>2. CASE i # k
      <4>1. L(i)' = L(i) /\ L(i).path # first
        BY <1>4, <1>6, <1>10, <1>13, <3>2
      <4>2. L(i).path \notin Stale' => L(i).id \notin closed
        BY <1>2, <4>1 DEF IInv, ListInv
      <4>3. L(i).version <= flushed
        BY DEF IInv, ListInv
      <4> QED BY <1>1, <1>4, <4>1, <4>2, <4>3
    <3> QED BY <3>1, <3>2
  <2>2. ASSUME NEW i \in Indices, NEW j \in Indices, i < j
        PROVE  L(i)'.id # L(j)'.id /\ L(i)'.path < L(j)'.path
    BY <1>4, <1>9, <1>10, <1>11, <1>13, <2>2
  <2>3. ASSUME NEW i \in Indices, NEW j \in Indices, i < j,
               L(i).path \notin compaction'.left, L(j).path \notin compaction'.left
        PROVE  L(i)'.version < L(j)'.version \/ L(j)'.version = NotFound
    <3>1. \A m \in Indices : m # k /\ L(m).path \notin compaction'.left =>
            L(m).path # first /\ L(m) \notin old /\ L(m)' = L(m)
      <4> SUFFICES ASSUME NEW m \in Indices, m # k, L(m).path \notin compaction'.left
                   PROVE  L(m).path # first /\ L(m) \notin old /\ L(m)' = L(m)
        OBVIOUS
      <4>1. L(m).path # first
        BY <1>4, <1>6, <1>13
      <4>2. L(m).path \notin Paths(old)
        BY <1>2, <4>1
      <4> QED BY <1>10, <1>12, <4>1, <4>2
    <3>2. CASE i # k /\ j # k
      BY <1>13, <2>3, <3>1, <3>2 DEF Before
    <3>3. CASE j = k
      <4>0. L(i) \notin old /\ L(i).path < L(k).path /\ L(i)' = L(i)
        BY <1>4, <1>13, <2>3, <3>1, <3>3
      <4>1. \A r \in old : L(i).path < r.path
        <5>1. (\A r \in old : L(i).path < r.path) \/ (\A r \in old : r.path < L(i).path)
          BY <1>3, <4>0, Zenon
        <5>2. ~(L(k).path < L(i).path)
          BY <1>4, <4>0
        <5> QED BY <1>6, <5>1, <5>2, Zenon
      <4>2. \A r \in old : L(i).version < r.version \/ r.version = NotFound
        <5>1. ASSUME NEW r \in old PROVE L(i).version < r.version \/ r.version = NotFound
          <6>1. PICK m \in Indices : L(m) = r
            BY <1>3
          <6>2. i < m
            BY <1>4, <1>13, <4>1, <6>1
          <6> QED BY <1>13, <6>1, <6>2 DEF Before
        <5> QED BY <5>1
      <4>3. L(j)'.version = Merged(old)
        BY <1>9, <1>10, <3>3
      <4> QED BY <1>8, <4>0, <4>2, <4>3
    <3>4. CASE i = k
      <4>0. L(j) \notin old /\ L(k).path < L(j).path /\ L(j)' = L(j)
        BY <1>4, <1>13, <2>3, <3>1, <3>4
      <4>1. \A r \in old : r.path < L(j).path
        <5>1. (\A r \in old : L(j).path < r.path) \/ (\A r \in old : r.path < L(j).path)
          BY <1>3, <4>0, Zenon
        <5>2. ~(L(j).path < L(k).path)
          BY <1>4, <4>0
        <5> QED BY <1>6, <5>1, <5>2, Zenon
      <4>2. \A r \in old : r.version < L(j).version \/ L(j).version = NotFound
        <5>1. ASSUME NEW r \in old PROVE r.version < L(j).version \/ L(j).version = NotFound
          <6>1. PICK m \in Indices : L(m) = r
            BY <1>3
          <6>2. m < j
            BY <1>4, <1>13, <4>1, <6>1
          <6> QED BY <1>13, <6>1, <6>2 DEF Before
        <5> QED BY <5>1
      <4>3. L(i)'.version = Merged(old)
        BY <1>9, <1>10, <3>4
      <4>4. L(j).version \in Nat
        BY <1>4
      <4> QED BY <1>8, <4>0, <4>2, <4>3, <4>4 DEF NotFound
    <3> QED BY <3>2, <3>3, <3>4
  <2>4. closed' \subseteq 1..made'
    BY <1>1, <1>4 DEF IInv, ListInv
  <2> QED BY <1>2, <1>10, <1>11, <2>1, <2>2, <2>3, <2>4 DEF ListInv, Before
<1>c. CompactionInv'
  <2>1. ASSUME NEW path \in compaction'.left PROVE \E i \in Indices' : L(i)'.path = path
    <3>1. path \in Paths(old)
      BY <1>2, <2>1
    <3>2. \E i \in Indices : L(i).path = path
      BY <1>3, <3>1 DEF Paths
    <3> QED BY <1>11, <3>2
  <2> QED BY <1>2, <2>1 DEF CompactionInv
<1>g. GetInv'
  BY <1>1, <1>2 DEF IInv, GetInv, Walk
<1> QED BY <1>t, <1>l, <1>c, <1>g DEF IInv

(***************************************************************************)
(* removeReaderAt: the list without one reader that a compaction closed.   *)
(***************************************************************************)
LEMMA RemoveStep ==
  ASSUME IInv, RemoveReader
  PROVE  IInv'
<1> DEFINE S == allSSTableReaders
           path == Min(compaction.left)
           Old(n) == IF n >= indexOfReader(S, path) THEN n + 1 ELSE n
<1>1. /\ compaction.pc = "remove" /\ compaction.left # {}
      /\ UNCHANGED <<currentReader, closed, flushed, made, compactions, get>>
      /\ arrays' = [arrays EXCEPT ![S.array] = RemovedAt(S, indexOfReader(S, path))]
      /\ allSSTableReaders' = [S EXCEPT !.len = S.len - 1]
      /\ compaction' = [compaction EXCEPT !.left = compaction.left \ {path}]
  BY DEF RemoveReader
<1>2. /\ compaction' = [pc |-> "remove", old |-> compaction.old, left |-> compaction.left \ {path}]
      /\ compaction'.pc = "remove" /\ compaction'.left = compaction.left \ {path}
      /\ Locked /\ Locked' /\ Stale = compaction.left /\ Stale' = compaction.left \ {path}
  BY <1>1 DEF IInv, TypeOK, Locked, Stale
<1>3. /\ made \in Nat /\ flushed \in Nat /\ Indices = 1..S.len /\ S.len \in Nat
      /\ \A i \in Indices : L(i).path \in 1..flushed /\ L(i).id \in 1..made
  BY ListTyped
<1>4. path \in compaction.left
  BY <1>1, MinIsLeast DEF IInv, TypeOK
<1> HIDE DEF path
<1>5. PICK k \in Indices : L(k).path = path
  BY <1>4 DEF IInv, CompactionInv
<1>6. indexOfReader(S, path) = k
  BY <1>5, IndexFound
<1>7. \A i, j \in Indices : i < j => L(i).id # L(j).id /\ L(i).path < L(j).path
  BY DEF IInv, ListInv
<1>8. /\ allSSTableReaders' = [array |-> S.array, len |-> S.len - 1] /\ S.len - 1 \in Nat
      /\ Indices' = 1..(S.len - 1)
  BY <1>1, <1>3 DEF IInv, TypeOK, Slice, Indices
<1>9. \A n \in Indices' : Old(n) \in Indices /\ Old(n) # k
  BY <1>3, <1>5, <1>6, <1>8
<1>10. \A m, n \in Indices' : m < n => Old(m) < Old(n)
  BY <1>3, <1>5, <1>6, <1>8
<1>11. /\ arrays' \in Seq(Seq(Reader)) /\ Len(arrays') = Len(arrays) /\ Valid(S)'
       /\ \A n \in Indices' : L(n)' = L(Old(n))
  <2>1. S.array \in DOMAIN arrays /\ S.len <= Len(arrays[S.array])
    BY <1>3, <1>5 DEF IInv, TypeOK, ListInv, Valid
  <2> DEFINE removed == RemovedAt(S, k)
  <2>2. arrays \in Seq(Seq(Reader)) /\ arrays[S.array] \in Seq(Reader)
    BY <2>1 DEF IInv, TypeOK
  <2>3. /\ DOMAIN removed = DOMAIN arrays[S.array]
        /\ \A n \in DOMAIN arrays[S.array] :
             removed[n] = IF n >= k /\ n < S.len THEN arrays[S.array][n + 1] ELSE arrays[S.array][n]
    BY DEF RemovedAt, At
  <2>4. removed = [n \in DOMAIN arrays[S.array] |-> removed[n]]
    BY DEF RemovedAt
  <2> HIDE DEF removed
  <2>5. PICK A \in Seq(Reader) : A = arrays[S.array]
    BY <2>2
  <2>6. removed \in Seq(Reader) /\ Len(removed) = Len(arrays[S.array])
    <3>1. DOMAIN A = 1..Len(A) /\ Len(A) \in Nat /\ \A n \in 1..Len(A) : A[n] \in Reader
      OBVIOUS
    <3>2. \A n \in 1..Len(A) : n >= k /\ n < S.len => n + 1 \in 1..Len(A)
      BY <1>3, <2>1, <2>5, <3>1
    <3>3. \A n \in 1..Len(A) : removed[n] \in Reader
      BY <2>3, <2>5, <3>1, <3>2
    <3>4. removed \in [1..Len(A) -> Reader]
      BY <2>4, <2>5, <3>1, <3>3
    <3> QED BY <2>5, <3>1, <3>4
  <2>7. arrays' = [arrays EXCEPT ![S.array] = removed]
    BY <1>1, <1>6 DEF removed
  <2>8. /\ arrays' \in Seq(Seq(Reader)) /\ Len(arrays') = Len(arrays) /\ arrays'[S.array] = removed
    BY <2>1, <2>2, <2>6, <2>7
  <2>9. \A n \in Indices' : L(n)' = removed[n]
    BY <1>8, <2>8 DEF L, At
  <2>10. \A n \in Indices' : n \in DOMAIN arrays[S.array] /\ n < S.len
    BY <1>3, <1>8, <2>1, <2>2
  <2>11. \A n \in Indices' : removed[n] = L(Old(n))
    BY <1>3, <1>5, <1>6, <1>8, <2>3, <2>10, SMTT(20) DEF L, At
  <2>12. Valid(S)'
    BY <1>3, <1>8, <2>1, <2>2, <2>6, <2>8 DEF Valid
  <2> QED BY <2>8, <2>9, <2>11, <2>12
<1>t. TypeOK'
  <2>1. compaction' \in [pc : {"none", "merge", "replace", "remove"}, old : SUBSET Reader, left : SUBSET Nat]
    BY <1>2 DEF IInv, TypeOK
  <2> QED BY <1>1, <1>8, <1>11, <2>1 DEF IInv, TypeOK, Slice
<1> HIDE DEF Old
<1>12. \A n \in Indices' : L(n)'.path # path
  BY <1>3, <1>5, <1>7, <1>9, <1>11
<1>l. ListInv'
  <2>1. ASSUME NEW n \in Indices'
        PROVE  /\ L(n)'.id \in 1..made' /\ L(n)'.path \in 1..flushed' /\ L(n)'.version <= flushed'
               /\ L(n)'.path \notin Stale' => L(n)'.id \notin closed'
    <3>1. PICK i \in Indices : L(n)' = L(i)
      BY <1>9, <1>11
    <3>2. L(i).path \notin Stale' => L(i).path \notin Stale
      BY <1>2, <1>12, <3>1
    <3> QED BY <1>1, <3>1, <3>2 DEF IInv, ListInv
  <2>2. ASSUME NEW m \in Indices', NEW n \in Indices', m < n
        PROVE  /\ L(m)'.id # L(n)'.id /\ L(m)'.path < L(n)'.path
               /\ L(m)'.path \notin compaction'.left /\ L(n)'.path \notin compaction'.left
                    => Before(L(m)', L(n)')
    <3>1. PICK i \in Indices, j \in Indices : i < j /\ L(m)' = L(i) /\ L(n)' = L(j)
      BY <1>9, <1>10, <1>11, <2>2
    <3>2. /\ L(i).path \notin compaction'.left => L(i).path \notin compaction.left
          /\ L(j).path \notin compaction'.left => L(j).path \notin compaction.left
      BY <1>2, <1>12, <3>1
    <3> QED BY <3>1, <3>2 DEF IInv, ListInv
  <2>3. closed' \subseteq 1..made'
    BY <1>1 DEF IInv, ListInv
  <2> QED BY <1>2, <1>11, <2>1, <2>2, <2>3 DEF ListInv, Before
<1>c. CompactionInv'
  <2>1. ASSUME NEW p \in compaction'.left PROVE \E n \in Indices' : L(n)'.path = p
    <3>1. p \in compaction.left /\ p # path
      BY <1>2, <2>1
    <3>2. PICK i \in Indices : L(i).path = p
      BY <3>1 DEF IInv, CompactionInv
    <3>3. i # k
      BY <1>5, <3>1, <3>2
    <3>4. \E n \in Indices' : Old(n) = i
      <4>1. CASE i < k
        BY <1>3, <1>5, <1>6, <1>8, <4>1 DEF Old
      <4>2. CASE i > k
        <5>1. i - 1 \in Indices' /\ Old(i - 1) = i
          BY <1>3, <1>5, <1>6, <1>8, <4>2 DEF Old
        <5> QED BY <5>1
      <4> QED BY <1>3, <3>3, <4>1, <4>2
    <3> QED BY <1>11, <3>2, <3>4
  <2> QED BY <1>2, <2>1 DEF CompactionInv
<1>g. GetInv'
  BY <1>1, <1>2 DEF IInv, GetInv, Walk
<1> QED BY <1>t, <1>l, <1>c, <1>g DEF IInv

(***************************************************************************)
(* reflectCompactionResult ends: the reader that Gets use is the list      *)
(* again, and no reader in it is closed.                                   *)
(***************************************************************************)
LEMMA ReflectEndStep ==
  ASSUME IInv, ReflectEnd
  PROVE  IInv'
<1>1. /\ compaction.pc = "remove" /\ compaction.left = {} /\ compaction' = NoCompaction
      /\ currentReader' = allSSTableReaders
      /\ UNCHANGED <<arrays, allSSTableReaders, closed, flushed, made, compactions, get>>
  BY DEF ReflectEnd
<1>2. /\ Locked /\ ~Locked' /\ compaction'.pc = "none" /\ compaction'.left = {} /\ Stale = {} /\ Stale' = {}
  BY <1>1 DEF NoCompaction, Locked, Stale
<1>3. Indices' = Indices /\ \A i \in Indices : L(i)' = L(i)
  BY <1>1 DEF Indices, L, At
<1>t. TypeOK'
  BY <1>1 DEF IInv, TypeOK, NoCompaction
<1>l. ListInv'
  BY <1>1, <1>2, <1>3 DEF IInv, ListInv, Valid, Before
<1>c. CompactionInv'
  BY <1>2 DEF CompactionInv
<1>g. GetInv'
  BY <1>1, <1>2 DEF IInv, GetInv, Walk
<1> QED BY <1>t, <1>l, <1>c, <1>g DEF IInv

(***************************************************************************)
(* What a step of one Get leaves alone.                                    *)
(***************************************************************************)
LEMMA OneGet ==
  ASSUME IInv, NEW c \in Gets, NEW g, get' = [get EXCEPT ![c] = g],
         g \in [pc : {"idle", "walk", "done"}, slice : Slice, i : Nat, newest : Nat, res : Nat],
         g.pc = "walk" => Walk(g), g.pc = "done" => g.res = g.newest,
         UNCHANGED <<list, closed, flushed, compaction, made, compactions>>
  PROVE  IInv'
<1>1. UNCHANGED <<arrays, allSSTableReaders, currentReader, closed, flushed, compaction, made, compactions>>
  BY DEF list
<1>2. /\ Indices' = Indices /\ Locked' = Locked /\ Stale' = Stale /\ \A i : L(i)' = L(i)
      /\ \A s : Valid(s)' = Valid(s)
  BY <1>1 DEF Indices, Locked, Stale, L, At, Valid
<1>3. \A h : Walk(h)' = Walk(h)
  BY <1>1, <1>2 DEF Walk, At
<1>t. TypeOK'
  BY <1>1 DEF IInv, TypeOK
<1>l. ListInv'
  BY <1>1, <1>2 DEF IInv, ListInv, Before
<1>c. CompactionInv'
  BY <1>1, <1>2 DEF IInv, CompactionInv
<1>g. GetInv'
  <2>1. SUFFICES ASSUME NEW d \in Gets
                 PROVE  /\ get'[d].pc = "walk" => Walk(get[d])'
                        /\ get'[d].pc = "done" => get'[d].res = get'[d].newest
    BY DEF GetInv
  <2>2. PICK h : h = get'[d]
    OBVIOUS
  <2>3. (h.pc = "walk" => Walk(h)) /\ (h.pc = "done" => h.res = h.newest)
    BY <2>2 DEF IInv, TypeOK, GetInv
  <2>4. Walk(h)' <=> Walk(get[d])'
    BY <2>2 DEF Walk, At, Valid
  <2> QED BY <1>3, <2>2, <2>3, <2>4
<1> QED BY <1>t, <1>l, <1>c, <1>g DEF IInv

(***************************************************************************)
(* GetBytes takes the lock: its slice is the list, and the version it      *)
(* should return is the greatest in it.                                    *)
(***************************************************************************)
LEMMA GetBeginStep ==
  ASSUME IInv, NEW c \in Gets, GetBegin(c)
  PROVE  IInv'
<1> DEFINE S == allSSTableReaders
           V == {NotFound} \cup {L(i).version : i \in Indices}
<1>1. /\ ~Locked /\ UNCHANGED <<list, closed, flushed, compaction, made, compactions>>
      /\ get' = [get EXCEPT ![c] = [pc |-> "walk", slice |-> currentReader, i |-> currentReader.len,
                                    newest |-> NewestVersion, res |-> NotFound]]
  BY DEF GetBegin
<1>2. currentReader = S
  BY <1>1 DEF IInv, ListInv
<1>3. /\ flushed \in Nat /\ Indices = 1..S.len /\ S.len \in Nat /\ S \in Slice
      /\ \A i \in Indices : L(i).version \in Nat /\ L(i).version <= flushed
  BY ListTyped DEF IInv, TypeOK, ListInv
<1>4. V \in SUBSET (0..flushed) /\ V # {}
  BY <1>3 DEF NotFound
<1>5. NewestVersion = Max(V)
  BY <1>3 DEF NewestVersion, L
<1> HIDE DEF V
<1>6. NewestVersion \in V /\ \A v \in V : v <= NewestVersion
  BY <1>3, <1>4, <1>5, MaxIsGreatest
<1>7. /\ NewestVersion \in Nat /\ \A i \in Indices : L(i).version <= NewestVersion
      /\ NewestVersion = NotFound \/ \E i \in Indices : L(i).version = NewestVersion
  BY <1>4, <1>6 DEF V
<1>8. PICK g : g = [pc |-> "walk", slice |-> S, i |-> S.len, newest |-> NewestVersion, res |-> NotFound]
  OBVIOUS
<1>9. g \in [pc : {"idle", "walk", "done"}, slice : Slice, i : Nat, newest : Nat, res : Nat]
  BY <1>3, <1>7, <1>8 DEF NotFound
<1>10. g.pc = "walk" /\ g.slice = S /\ g.i = S.len /\ g.newest = NewestVersion /\ g.res = NotFound
  BY <1>8
<1>11. Walk(g)
  BY <1>1, <1>3, <1>7, <1>10, SMTT(20) DEF Walk, L, IInv, ListInv
<1>12. get' = [get EXCEPT ![c] = g]
  BY <1>1, <1>2, <1>8
<1> QED BY <1>1, <1>9, <1>10, <1>11, <1>12, OneGet

(***************************************************************************)
(* SuperSSTableReader.Get asks one reader: because the list is in order,   *)
(* the first that holds a version holds the newest.                        *)
(***************************************************************************)
LEMMA GetStepStep ==
  ASSUME IInv, NEW c \in Gets, GetStep(c)
  PROVE  IInv'
<1> DEFINE version == At(get[c].slice, get[c].i).version
<1>1. PICK g : g = get[c]
  OBVIOUS
<1>2. /\ g \in [pc : {"idle", "walk", "done"}, slice : Slice, i : Nat, newest : Nat, res : Nat]
      /\ g.pc = "walk" /\ g.i > 0 /\ Walk(g)
  BY <1>1 DEF IInv, TypeOK, GetInv, GetStep
<1>3. /\ g.i \in Nat /\ g.newest \in Nat /\ g.slice \in Slice /\ g.slice.len \in Nat
      /\ g.slice.len <= allSSTableReaders.len /\ g.i \in 1..g.slice.len /\ g.i - 1 \in Nat
  BY <1>2 DEF Walk, Slice
<1>4. /\ Indices = 1..allSSTableReaders.len /\ allSSTableReaders.len \in Nat
      /\ \A i \in Indices : L(i).version \in Nat
  BY ListTyped
<1>5. g.i \in Indices /\ version = L(g.i).version /\ version \in Nat /\ version <= g.newest
  BY <1>1, <1>2, <1>3, <1>4 DEF Walk
<1> DEFINE pc == IF version = NotFound THEN g.pc ELSE "done"
           next == [g EXCEPT !.i = g.i - 1, !.res = version, !.pc = pc]
<1>6. get' = [get EXCEPT ![c] = next]
  BY <1>1 DEF GetStep
<1> HIDE DEF version
<1>7. pc = (IF version = NotFound THEN "walk" ELSE "done") /\ pc \in {"idle", "walk", "done"}
  BY <1>2
<1> HIDE DEF pc
<1>8. PICK h : h = next
  OBVIOUS
<1>9. /\ h \in [pc : {"idle", "walk", "done"}, slice : Slice, i : Nat, newest : Nat, res : Nat]
      /\ h.pc = pc /\ h.slice = g.slice /\ h.i = g.i - 1 /\ h.newest = g.newest /\ h.res = version
  BY <1>2, <1>3, <1>5, <1>7, <1>8
<1>10. ASSUME version = NotFound PROVE Walk(h)
  <2>1. \A i \in 1..g.slice.len : i > g.i - 1 => i = g.i \/ i > g.i
    BY <1>3
  <2>2. \A i \in 1..g.slice.len : i > g.i - 1 => L(i).version = NotFound
    BY <1>2, <1>5, <1>10, <2>1 DEF Walk
  <2>3. g.i - 1 <= g.slice.len
    BY <1>3
  <2> QED BY <1>2, <1>9, <1>10, <2>2, <2>3 DEF Walk
<1>11. ASSUME version # NotFound PROVE version = g.newest
  <2>1. g.newest # NotFound
    BY <1>3, <1>5, <1>11 DEF NotFound
  <2>2. PICK j \in 1..g.slice.len : L(j).version = g.newest
    BY <1>2, <2>1 DEF Walk
  <2>3. ~(j > g.i)
    BY <1>2, <2>1, <2>2 DEF Walk
  <2>4. ASSUME j < g.i PROVE FALSE
    <3>1. compaction.left = {}
      BY <1>2 DEF IInv, TypeOK, CompactionInv, Walk, Locked
    <3>2. Before(L(j), L(g.i))
      BY <1>3, <1>4, <1>5, <2>4, <3>1, SMTT(20) DEF IInv, ListInv
    <3>3. L(j).version < L(g.i).version
      BY <1>5, <1>11, <3>2 DEF Before
    <3> QED BY <1>3, <1>5, <2>2, <3>3
  <2>5. j = g.i
    BY <1>3, <2>3, <2>4
  <2> QED BY <1>5, <2>2, <2>5
<1>12. UNCHANGED <<list, closed, flushed, compaction, made, compactions>>
  BY DEF GetStep
<1>13. (h.pc = "walk" => Walk(h)) /\ (h.pc = "done" => h.res = h.newest)
  BY <1>7, <1>9, <1>10, <1>11
<1> HIDE DEF next
<1> QED BY <1>6, <1>8, <1>9, <1>12, <1>13, OneGet

(***************************************************************************)
(* Every reader has been asked: none holds a version.                      *)
(***************************************************************************)
LEMMA GetNotFoundStep ==
  ASSUME IInv, NEW c \in Gets, GetNotFound(c)
  PROVE  IInv'
<1>1. PICK g : g = get[c]
  OBVIOUS
<1>2. /\ g \in [pc : {"idle", "walk", "done"}, slice : Slice, i : Nat, newest : Nat, res : Nat]
      /\ g.pc = "walk" /\ g.i = 0 /\ Walk(g)
  BY <1>1 DEF IInv, TypeOK, GetInv, GetNotFound
<1>3. g.newest = NotFound /\ g.res = NotFound
  BY <1>2 DEF Walk
<1> DEFINE next == [g EXCEPT !.pc = "done"]
<1>4. /\ next \in [pc : {"idle", "walk", "done"}, slice : Slice, i : Nat, newest : Nat, res : Nat]
      /\ next.pc = "done" /\ next.res = next.newest
  BY <1>2, <1>3
<1>5. get' = [get EXCEPT ![c] = next]
  BY <1>1 DEF GetNotFound
<1>6. UNCHANGED <<list, closed, flushed, compaction, made, compactions>>
  BY DEF GetNotFound
<1> HIDE DEF next
<1> QED BY <1>4, <1>5, <1>6, OneGet

(***************************************************************************)
(* A Get returns and gives the lock back.                                  *)
(***************************************************************************)
LEMMA GetReturnStep ==
  ASSUME IInv, NEW c \in Gets, GetReturn(c)
  PROVE  IInv'
<1>1. /\ NoGet \in [pc : {"idle", "walk", "done"}, slice : Slice, i : Nat, newest : Nat, res : Nat]
      /\ NoGet.pc = "idle"
  BY DEF NoGet, Slice, NotFound, Empty
<1>2. /\ get' = [get EXCEPT ![c] = NoGet]
      /\ UNCHANGED <<list, closed, flushed, compaction, made, compactions>>
  BY DEF GetReturn
<1> QED BY <1>1, <1>2, OneGet

(***************************************************************************)
(* The inductive invariant of the list, the compaction and the Gets.       *)
(***************************************************************************)
THEOREM IInvariance == ListSpec => []IInv
<1>1. ListInit => IInv
  BY InitIInv
<1>2. IInv /\ [ListNext]_listVars => IInv'
  <2> SUFFICES ASSUME IInv, [ListNext]_listVars PROVE IInv'
    OBVIOUS
  <2>1. CASE AddReader
    BY <2>1, AddReaderStep
  <2>2. CASE SelectCandidates
    BY <2>2, SelectStep
  <2>3. CASE ReflectCompactionResult
    BY <2>3, ReflectStep
  <2>4. CASE ReplaceReader
    BY <2>4, ReplaceStep
  <2>5. CASE RemoveReader
    BY <2>5, RemoveStep
  <2>6. CASE ReflectEnd
    BY <2>6, ReflectEndStep
  <2>7. ASSUME NEW c \in Gets, GetBegin(c) \/ GetStep(c) \/ GetNotFound(c) \/ GetReturn(c)
        PROVE  IInv'
    BY <2>7, GetBeginStep, GetStepStep, GetNotFoundStep, GetReturnStep
  <2>8. CASE UNCHANGED listVars
    <3>1. /\ UNCHANGED <<list, closed, flushed, compaction, made, compactions, get>>
          /\ UNCHANGED <<arrays, allSSTableReaders, currentReader>>
      BY <2>8 DEF listVars, list
    <3>2. /\ Indices' = Indices /\ Locked' = Locked /\ Stale' = Stale /\ \A i : L(i)' = L(i)
          /\ \A s : Valid(s)' = Valid(s)
      BY <3>1 DEF Indices, Locked, Stale, L, At, Valid
    <3>3. TypeOK'
      BY <3>1 DEF IInv, TypeOK
    <3>4. ListInv'
      BY <3>1, <3>2, SMTT(30) DEF IInv, ListInv, Before
    <3>5. CompactionInv'
      BY <3>1, <3>2, Zenon DEF IInv, CompactionInv
    <3>6. GetInv'
      BY <3>1, <3>2 DEF IInv, GetInv, Walk, At, Valid
    <3> QED BY <3>3, <3>4, <3>5, <3>6 DEF IInv
  <2> QED BY <2>1, <2>2, <2>3, <2>4, <2>5, <2>6, <2>7, <2>8 DEF ListNext
<1> QED BY <1>1, <1>2, PTL DEF ListSpec

(***************************************************************************)
(* A Get under way never comes to a reader that is closed, or to a place   *)
(* of the array that has none.                                             *)
(***************************************************************************)
THEOREM GetsReadOpen == ListSpec => []GetReadsOpen
<1>1. IInv => GetReadsOpen
  <2> SUFFICES ASSUME IInv, NEW c \in Gets, get[c].pc = "walk", NEW i \in 1..get[c].i
               PROVE  At(get[c].slice, i).id \notin closed \cup {NoReader.id}
    BY DEF GetReadsOpen
  <2>1. PICK g : g = get[c]
    OBVIOUS
  <2>2. Walk(g) /\ g.i \in Nat /\ g.slice.len \in Nat
    BY <2>1 DEF IInv, TypeOK, GetInv, Slice
  <2>3. i \in 1..g.slice.len /\ i \in Indices /\ At(g.slice, i) = L(i)
    BY <2>1, <2>2, ListTyped DEF Walk
  <2>4. Stale = {}
    BY <2>2 DEF Walk, Locked, Stale, IInv, TypeOK, CompactionInv
  <2>5. L(i).id \in 1..made /\ L(i).id \notin closed
    BY <2>3, <2>4 DEF IInv, ListInv
  <2> QED BY <2>1, <2>3, <2>5 DEF NoReader
<1> QED BY <1>1, IInvariance, PTL

(***************************************************************************)
(* A Get returns the newest version there was when it took the lock.       *)
(***************************************************************************)
THEOREM GetIsNewest == ListSpec => []GetNewest
<1>1. IInv => GetNewest
  BY DEF IInv, GetInv, GetNewest
<1> QED BY <1>1, IInvariance, PTL

(***************************************************************************)
(* Whenever the manager's lock is free, the list is in the order of the    *)
(* paths and a later reader never holds an older version.                  *)
(***************************************************************************)
THEOREM ListIsOrdered == ListSpec => []LineageOrdered
<1>1. IInv => LineageOrdered
  <2>1. IInv /\ ~Locked => compaction.left = {}
    BY DEF IInv, TypeOK, CompactionInv, Locked
  <2> QED BY <2>1 DEF IInv, ListInv, LineageOrdered, L, Indices
<1> QED BY <1>1, IInvariance, PTL

(***************************************************************************)
(* reflectCompactionResult looks for the inputs of its compaction in a     *)
(* list that it changes between two lookups.  Each is there, and at one    *)
(* place only: the errors "couldn't find sstable in current readers",      *)
(* after which the inputs are closed and the list still has them, cannot   *)
(* happen.                                                                 *)
(***************************************************************************)
InputsFound ==
  Locked => \A path \in Stale : \E i \in Indices : \A j \in Indices : L(j).path = path <=> j = i

(***************************************************************************)
(* Under the lock reflectCompactionResult finds every input that it still  *)
(* looks for, at one place of the list.                                    *)
(***************************************************************************)
THEOREM InputsAreFound == ListSpec => []InputsFound
<1>1. IInv => InputsFound
  <2> SUFFICES ASSUME IInv, NEW path \in Stale
               PROVE  \E i \in Indices : \A j \in Indices : L(j).path = path <=> j = i
    BY DEF InputsFound
  <2>1. PICK i \in Indices : L(i).path = path
    <3>1. CASE compaction.pc = "replace"
      BY <3>1 DEF Stale, Paths, IInv, CompactionInv
    <3>2. CASE compaction.pc # "replace"
      BY <3>2 DEF Stale, IInv, CompactionInv
    <3> QED BY <3>1, <3>2
  <2>2. \A j \in Indices : L(j).path = path => j = i
    BY <2>1, ListTyped DEF IInv, ListInv
  <2> QED BY <2>1, <2>2
<1> QED BY <1>1, IInvariance, PTL

=============================================================================
