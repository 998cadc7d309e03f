------------------------------ MODULE DBLemmas ------------------------------
(***************************************************************************)
(* The lemmas that the proofs about the single actions share: which table  *)
(* answers for a key, which WAL record stands, what a compaction keeps,    *)
(* facts about collections by number (tables by generation, WAL files),    *)
(* what an action that leaves a part of the state alone keeps, and that    *)
(* memory and directory agree whenever Inv holds.                          *)
(***************************************************************************)
EXTENDS DBInvariant, TLAPS

(***************************************************************************)
(* Max and Min of a finite nonempty set of numbers are what they say.      *)
(***************************************************************************)
LEMMA MaxOfNumbers ==
  ASSUME NEW T \in SUBSET Nat, FiniteNumbers(T), T # {}
  PROVE  Max(T) \in T /\ \A y \in T : y <= Max(T)
<1>1. PICK x \in T : \A y \in T : x >= y
  BY DEF FiniteNumbers
<1>2. Max(T) \in T /\ \A y \in T : Max(T) >= y
  BY <1>1, Zenon DEF Max
<1> QED BY <1>2

(***************************************************************************)
(* Min of a finite nonempty set of numbers is its least member.            *)
(***************************************************************************)
LEMMA MinOfNumbers ==
  ASSUME NEW T, FiniteNumbers(T), T # {}
  PROVE  Min(T) \in T /\ \A y \in T : Min(T) <= y
<1>1. PICK x \in T : \A y \in T : x <= y
  BY DEF FiniteNumbers
<1> QED BY <1>1, Zenon DEF Min

(***************************************************************************)
(* Finite sets of numbers: the empty one, a part of one, one and another   *)
(* number.                                                                 *)
(***************************************************************************)
LEMMA NoNumbers == FiniteNumbers({})
BY DEF FiniteNumbers

(***************************************************************************)
(* A part of a finite set of numbers is finite.                            *)
(***************************************************************************)
LEMMA FewerNumbers ==
  ASSUME NEW S, FiniteNumbers(S), NEW T \in SUBSET S
  PROVE  FiniteNumbers(T)
BY Zenon DEF FiniteNumbers

(***************************************************************************)
(* A finite set of numbers stays finite with one number more.              *)
(***************************************************************************)
LEMMA AnotherNumber ==
  ASSUME NEW S \in SUBSET Nat, FiniteNumbers(S), NEW n \in Nat
  PROVE  FiniteNumbers(S \cup {n})
<1> SUFFICES ASSUME NEW T \in SUBSET (S \cup {n}), T # {}
             PROVE  \E lo, hi \in T : \A m \in T : lo <= m /\ m <= hi
  BY Zenon DEF FiniteNumbers
<1>2. CASE T \ {n} = {}
  <2>1. T = {n}
    BY <1>2, Zenon
  <2> QED BY <2>1
<1>3. CASE T \ {n} # {}
  <2>1. T \ {n} \in SUBSET S
    OBVIOUS
  <2>2. PICK lo \in T \ {n}, hi \in T \ {n} : \A m \in T \ {n} : lo <= m /\ m <= hi
    BY <1>3, Zenon DEF FiniteNumbers
  <2>3. /\ lo \in Nat /\ hi \in Nat /\ \A m \in T : m \in Nat
        /\ \A m \in T : m = n \/ (lo <= m /\ m <= hi)
    BY <2>2
  <2>4. lo <= hi
    BY <2>2
  <2>5. CASE n \notin T
    BY <2>2, <2>5
  <2>6. CASE n \in T /\ n < lo
    <3>1. \A m \in T : n <= m /\ m <= hi
      BY <2>3, <2>6
    <3> QED BY <2>6, <3>1
  <2>7. CASE n \in T /\ n > hi
    <3>1. \A m \in T : lo <= m /\ m <= n
      BY <2>3, <2>7
    <3> QED BY <2>7, <3>1
  <2>8. CASE n \in T /\ lo <= n /\ n <= hi
    <3>1. \A m \in T : lo <= m /\ m <= hi
      BY <2>3, <2>8
    <3> QED BY <3>1
  <2> QED BY <2>5, <2>6, <2>7, <2>8
<1> QED BY <1>3
-----------------------------------------------------------------------------
(***************************************************************************)
(* SuperSSTableReader.Get: the table that answers is the one no newer      *)
(* table answers before.                                                   *)
(***************************************************************************)
LEMMA NewestNone ==
  ASSUME NEW f, NEW k, \A g \in DOMAIN f : CellIn(f[g], k) = Absent
  PROVE  Newest(f, k) = Absent
BY DEF Newest, TablesWith

(***************************************************************************)
(* SuperSSTableReader.Get answers from the newest table with the key ...   *)
(***************************************************************************)
LEMMA NewestAt ==
  ASSUME NEW f, NEW k, DOMAIN f \in SUBSET Nat, NEW g \in DOMAIN f,
         CellIn(f[g], k) # Absent,
         \A h \in DOMAIN f : h > g => CellIn(f[h], k) = Absent
  PROVE  Newest(f, k) = CellIn(f[g], k)
<1>1. g \in TablesWith(f, k) /\ \A h \in TablesWith(f, k) : g >= h
  BY DEF TablesWith
<1>2. \A x \in TablesWith(f, k) :
        (\A h \in TablesWith(f, k) : x >= h) => x = g
  BY DEF TablesWith
<1>3. Max(TablesWith(f, k)) = g
  BY <1>2 DEF Max
<1> QED BY <1>1, <1>3 DEF Newest

(***************************************************************************)
(* ... and there is one, or no table has the key.                          *)
(***************************************************************************)
LEMMA NewestCases ==
  ASSUME NEW f, NEW k, DOMAIN f \in SUBSET Nat, FiniteNumbers(DOMAIN f)
  PROVE  \/ /\ \A g \in DOMAIN f : CellIn(f[g], k) = Absent
            /\ Newest(f, k) = Absent
         \/ \E g \in DOMAIN f :
              /\ CellIn(f[g], k) # Absent
              /\ \A h \in DOMAIN f : h > g => CellIn(f[h], k) = Absent
              /\ Newest(f, k) = CellIn(f[g], k)
<1>1. CASE TablesWith(f, k) = {}
  BY <1>1 DEF TablesWith, Newest
<1>2. CASE TablesWith(f, k) # {}
  <2>1. TablesWith(f, k) \in SUBSET Nat /\ FiniteNumbers(TablesWith(f, k))
    BY FewerNumbers DEF TablesWith
  <2> DEFINE m == Max(TablesWith(f, k))
  <2>2. m \in TablesWith(f, k) /\ \A y \in TablesWith(f, k) : y <= m
    BY <1>2, <2>1, MaxOfNumbers
  <2> HIDE DEF m
  <2>3. \A h \in DOMAIN f : h > m => CellIn(f[h], k) = Absent
    BY <2>2 DEF TablesWith
  <2>4. Newest(f, k) = CellIn(f[m], k)
    BY <1>2 DEF Newest, m
  <2> QED BY <2>2, <2>4 DEF TablesWith
<1> QED BY <1>1, <1>2
-----------------------------------------------------------------------------
(***************************************************************************)
(* Replay: the file that answers for a key is the last one that mentions   *)
(* it.                                                                     *)
(***************************************************************************)
LEMMA ReplayedNone ==
  ASSUME NEW w, NEW k \in Keys, \A n \in DOMAIN w : FileCell(w[n], k) = Absent
  PROVE  Replayed(w)[k] = Absent
BY DEF Replayed, FilesWith

(***************************************************************************)
(* The replay of a key ends with the last file that has it ...             *)
(***************************************************************************)
LEMMA ReplayedAt ==
  ASSUME NEW w, NEW k \in Keys, DOMAIN w \in SUBSET Nat, NEW n \in DOMAIN w,
         FileCell(w[n], k) # Absent,
         \A m \in DOMAIN w : m > n => FileCell(w[m], k) = Absent
  PROVE  Replayed(w)[k] = FileCell(w[n], k)
<1>1. n \in FilesWith(w, k) /\ \A m \in FilesWith(w, k) : n >= m
  BY DEF FilesWith
<1>2. \A x \in FilesWith(w, k) : (\A m \in FilesWith(w, k) : x >= m) => x = n
  BY DEF FilesWith
<1>3. Max(FilesWith(w, k)) = n
  BY <1>2 DEF Max
<1> QED BY <1>1, <1>3 DEF Replayed

(***************************************************************************)
(* ... and there is one, or no file has the key.                           *)
(***************************************************************************)
LEMMA ReplayedCases ==
  ASSUME NEW w, NEW k \in Keys, DOMAIN w \in SUBSET Nat, FiniteNumbers(DOMAIN w)
  PROVE  \/ /\ \A n \in DOMAIN w : FileCell(w[n], k) = Absent
            /\ Replayed(w)[k] = Absent
         \/ \E n \in DOMAIN w :
              /\ FileCell(w[n], k) # Absent
              /\ \A m \in DOMAIN w : m > n => FileCell(w[m], k) = Absent
              /\ Replayed(w)[k] = FileCell(w[n], k)
<1>1. CASE FilesWith(w, k) = {}
  BY <1>1 DEF FilesWith, Replayed
<1>2. CASE FilesWith(w, k) # {}
  <2>1. FilesWith(w, k) \in SUBSET Nat /\ FiniteNumbers(FilesWith(w, k))
    BY FewerNumbers DEF FilesWith
  <2> DEFINE x == Max(FilesWith(w, k))
  <2>2. x \in FilesWith(w, k) /\ \A y \in FilesWith(w, k) : y <= x
    BY <1>2, <2>1, MaxOfNumbers
  <2> HIDE DEF x
  <2>3. \A m \in DOMAIN w : m > x => FileCell(w[m], k) = Absent
    BY <2>2 DEF FilesWith
  <2>4. Replayed(w)[k] = FileCell(w[x], k)
    BY <1>2 DEF Replayed, x
  <2> QED BY <2>2, <2>4 DEF FilesWith
<1> QED BY <1>1, <1>2

(***************************************************************************)
(* A new WAL file says nothing; a record appended to a file stands for its *)
(* key and leaves the other keys alone.                                    *)
(***************************************************************************)
LEMMA FileCellEmpty == \A k : FileCell(<<>>, k) = Absent
BY DEF FileCell, RecordsOf

(***************************************************************************)
(* An empty file, and one with a record more, are log files.               *)
(***************************************************************************)
LEMMA NewLogFile == <<>> \in LogFile
<1>1. <<>> \in Seq(Mutation) /\ DOMAIN <<>> = {}
  OBVIOUS
<1> QED BY NoNumbers DEF LogFile

(***************************************************************************)
(* AppendRecord: a log file with one record more is a log file.            *)
(***************************************************************************)
LEMMA LongerLogFile ==
  ASSUME NEW s \in LogFile, NEW m \in Mutation
  PROVE  Append(s, m) \in LogFile /\ Len(Append(s, m)) = Len(s) + 1
<1>1. s \in Seq(Mutation) /\ FiniteNumbers(DOMAIN s)
  BY DEF LogFile
<1>2. /\ Append(s, m) \in Seq(Mutation) /\ Len(Append(s, m)) = Len(s) + 1
      /\ DOMAIN Append(s, m) = DOMAIN s \cup {Len(s) + 1} /\ Len(s) + 1 \in Nat
  BY <1>1
<1>3. FiniteNumbers(DOMAIN Append(s, m))
  BY <1>1, AnotherNumber
<1> QED BY <1>2, <1>3, Zenon DEF LogFile

(***************************************************************************)
(* A file says a value, a tombstone or nothing about a key.                *)
(***************************************************************************)
LEMMA FileCellType ==
  ASSUME NEW s \in LogFile, NEW k
  PROVE  FileCell(s, k) \in MemCell
<1>1. CASE RecordsOf(s, k) = {}
  BY <1>1 DEF FileCell, MemCell
<1>2. CASE RecordsOf(s, k) # {}
  <2>1. RecordsOf(s, k) \in SUBSET Nat /\ FiniteNumbers(RecordsOf(s, k))
    BY FewerNumbers DEF RecordsOf, LogFile
  <2>2. Max(RecordsOf(s, k)) \in RecordsOf(s, k)
    BY <1>2, <2>1, MaxOfNumbers
  <2>3. s[Max(RecordsOf(s, k))] \in Mutation
    BY <2>2 DEF RecordsOf, LogFile
  <2> QED BY <2>3 DEF FileCell, Mutation, MemCell
<1> QED BY <1>1, <1>2

(***************************************************************************)
(* The last record of a key stands: what Append does to a file.            *)
(***************************************************************************)
LEMMA FileCellAppend ==
  ASSUME NEW s \in LogFile, NEW m \in Mutation, NEW k
  PROVE  FileCell(Append(s, m), k) = IF m.key = k THEN m.cell ELSE FileCell(s, k)
<1> DEFINE t == Append(s, m)
<1>0. s \in Seq(Mutation)
  BY DEF LogFile
<1>1. DOMAIN t = 1..(Len(s) + 1) /\ DOMAIN s = 1..Len(s)
  OBVIOUS
<1>2. \A i \in 1..Len(s) : t[i] = s[i]
  OBVIOUS
<1>3. t[Len(s) + 1] = m /\ Len(s) \in Nat
  OBVIOUS
<1> HIDE DEF t
<1>4. CASE m.key = k
  <2>1. Len(s) + 1 \in RecordsOf(t, k) /\ \A i \in RecordsOf(t, k) : Len(s) + 1 >= i
    BY <1>1, <1>3, <1>4 DEF RecordsOf
  <2>2. \A x \in RecordsOf(t, k) :
          (\A i \in RecordsOf(t, k) : x >= i) => x = Len(s) + 1
    BY <1>3, <2>1 DEF RecordsOf
  <2>3. Max(RecordsOf(t, k)) = Len(s) + 1
    BY <2>2 DEF Max
  <2>4. FileCell(t, k) = m.cell
    BY <2>1, <2>3, <1>3 DEF FileCell
  <2> QED BY <2>4, <1>4 DEF t
<1>5. CASE m.key # k
  <2>1. RecordsOf(t, k) = RecordsOf(s, k)
    BY <1>1, <1>2, <1>3, <1>5 DEF RecordsOf
  <2>2. CASE RecordsOf(s, k) = {}
    BY <2>1, <2>2, <1>5 DEF FileCell, t
  <2>3. CASE RecordsOf(s, k) # {}
    <3>1. RecordsOf(s, k) \in SUBSET Nat /\ FiniteNumbers(RecordsOf(s, k))
      BY FewerNumbers DEF RecordsOf, LogFile
    <3>2. Max(RecordsOf(s, k)) \in RecordsOf(s, k)
      BY <2>3, <3>1, MaxOfNumbers
    <3>3. t[Max(RecordsOf(s, k))] = s[Max(RecordsOf(s, k))]
      BY <1>2, <3>2 DEF RecordsOf
    <3>4. FileCell(t, k) = FileCell(s, k)
      BY <2>1, <3>3 DEF FileCell
    <3> QED BY <3>4, <1>5 DEF t
  <2> QED BY <2>2, <2>3
<1> QED BY <1>4, <1>5

(***************************************************************************)
(* A replayed log is a memstore.                                           *)
(***************************************************************************)
LEMMA ReplayedType ==
  ASSUME NEW w, DOMAIN w \in SUBSET Nat, FiniteNumbers(DOMAIN w),
         \A n \in DOMAIN w : w[n] \in LogFile
  PROVE  Replayed(w) \in Memstore
<1>1. \A k \in Keys : Replayed(w)[k] \in MemCell
  BY ReplayedCases, FileCellType DEF MemCell
<1>2. Replayed(w) = [k \in Keys |-> Replayed(w)[k]]
  BY DEF Replayed
<1> QED BY <1>1, <1>2 DEF Memstore
-----------------------------------------------------------------------------
(***************************************************************************)
(* MergeCompact keeps, for every key, the value its inputs have together,  *)
(* provided that all of them can be read.                                  *)
(***************************************************************************)
Readable(f) == \A g \in DOMAIN f : f[g].stage \in {"headers", "complete"}

(***************************************************************************)
(* MergeCompact of readable tables gives every key the value of the newest *)
(* table that has it.                                                      *)
(***************************************************************************)
LEMMA MergeKeepsNewest ==
  ASSUME NEW f, DOMAIN f \in SUBSET Nat, FiniteNumbers(DOMAIN f),
         \A g \in DOMAIN f : f[g] \in Table, Readable(f), NEW k \in Keys
  PROVE  MergeCompact(f)[k] = ValueOf(Newest(f, k))
<1>1. Unreadable(f) = {}
  BY DEF Unreadable, Readable
<1>2. ScannedWith(f, k) = TablesWith(f, k)
  BY DEF ScannedWith, TablesWith, Scannable, Readable, CellIn
<1>3. CASE TablesWith(f, k) = {}
  BY <1>2, <1>3 DEF MergeCompact, Newest, ValueOf
<1>4. CASE TablesWith(f, k) # {}
  <2>1. TablesWith(f, k) \in SUBSET Nat /\ FiniteNumbers(TablesWith(f, k))
    BY FewerNumbers DEF TablesWith
  <2>2. Max(TablesWith(f, k)) \in TablesWith(f, k)
    BY <1>4, <2>1, MaxOfNumbers
  <2>3. CellIn(f[Max(TablesWith(f, k))], k) = f[Max(TablesWith(f, k))].cells[k]
    BY <1>2, <2>2 DEF ScannedWith, Scannable, CellIn
  <2>4. MergeCompact(f)[k] = ValueOf(f[Max(TablesWith(f, k))].cells[k])
    BY <1>1, <1>2, <1>4 DEF MergeCompact
  <2> QED BY <1>4, <2>3, <2>4 DEF Newest
<1> QED BY <1>3, <1>4

(***************************************************************************)
(* The result of MergeCompact can be written as a table.                   *)
(***************************************************************************)
LEMMA MergeType ==
  ASSUME NEW f, DOMAIN f \in SUBSET Nat, FiniteNumbers(DOMAIN f),
         \A g \in DOMAIN f : f[g] \in Table
  PROVE  MergeCompact(f) \in Memstore
<1> SUFFICES ASSUME NEW k \in Keys PROVE MergeCompact(f)[k] \in MemCell
  BY DEF MergeCompact, Memstore
<1>1. CASE ScannedWith(f, k) = {}
  BY <1>1 DEF MergeCompact, MemCell
<1>2. CASE ScannedWith(f, k) # {}
  <2>1. ScannedWith(f, k) \in SUBSET Nat /\ FiniteNumbers(ScannedWith(f, k))
    BY FewerNumbers DEF ScannedWith, Scannable
  <2> DEFINE m == Max(ScannedWith(f, k))
  <2>2. m \in ScannedWith(f, k)
    BY <1>2, <2>1, MaxOfNumbers
  <2>3. f[m] \in Table
    BY <2>2 DEF ScannedWith, Scannable
  <2>4. f[m].cells[k] \in MemCell
    BY <2>3 DEF Table, Memstore
  <2>5. MergeCompact(f)[k] \in {Absent, ValueOf(f[m].cells[k])}
    BY DEF MergeCompact
  <2> QED BY <2>4, <2>5 DEF ValueOf, MemCell
<1> QED BY <1>1, <1>2
-----------------------------------------------------------------------------
(***************************************************************************)
(* Adding, replacing and removing one table or one file.                   *)
(***************************************************************************)
LEMMA EmptyNumbered ==
  ASSUME NEW S PROVE NumberedBy(<<>>, S) /\ DOMAIN <<>> = {}
BY NoNumbers DEF NumberedBy

(***************************************************************************)
(* Adding or replacing one entry of a numbered map.                        *)
(***************************************************************************)
LEMMA WithDomain ==
  ASSUME NEW f, NEW n, NEW x
  PROVE  /\ DOMAIN With(f, n, x) = DOMAIN f \cup {n}
         /\ With(f, n, x)[n] = x
         /\ \A m \in DOMAIN f : m # n => With(f, n, x)[m] = f[m]
BY DEF With

(***************************************************************************)
(* The result of With is again a map numbered by naturals.                 *)
(***************************************************************************)
LEMMA WithNumbered ==
  ASSUME NEW S, NEW f, NumberedBy(f, S), NEW n \in Nat, NEW x \in S
  PROVE  NumberedBy(With(f, n, x), S)
<1>1. FiniteNumbers(DOMAIN f \cup {n})
  BY AnotherNumber DEF NumberedBy
<1> QED BY <1>1 DEF NumberedBy, With

(***************************************************************************)
(* Removing entries of a numbered map.                                     *)
(***************************************************************************)
LEMMA RestrictedTo ==
  ASSUME NEW f, NEW D
  PROVE  DOMAIN Restrict(f, D) = D /\ \A m \in D : Restrict(f, D)[m] = f[m]
BY DEF Restrict

(***************************************************************************)
(* The result of Restrict is again a map numbered by naturals.             *)
(***************************************************************************)
LEMMA RestrictNumbered ==
  ASSUME NEW S, NEW f, NumberedBy(f, S), NEW D \in SUBSET DOMAIN f
  PROVE  NumberedBy(Restrict(f, D), S)
<1>1. FiniteNumbers(D)
  BY FewerNumbers DEF NumberedBy
<1> QED BY <1>1 DEF NumberedBy, Restrict

(***************************************************************************)
(* Two collections in which the same tables know a key, and say the same   *)
(* of it, answer alike; the same for WAL files.                            *)
(***************************************************************************)
LEMMA NewestSame ==
  ASSUME NEW f, NEW h, NEW k, DOMAIN f \in SUBSET Nat, FiniteNumbers(DOMAIN f),
         \A g \in DOMAIN f : CellIn(f[g], k) # Absent =>
            g \in DOMAIN h /\ CellIn(h[g], k) = CellIn(f[g], k),
         \A g \in DOMAIN h : CellIn(h[g], k) # Absent =>
            g \in DOMAIN f /\ CellIn(h[g], k) = CellIn(f[g], k)
  PROVE  Newest(f, k) = Newest(h, k)
<1>1. TablesWith(f, k) = TablesWith(h, k)
  BY DEF TablesWith
<1>2. CASE TablesWith(f, k) = {}
  BY <1>1, <1>2 DEF Newest
<1>3. CASE TablesWith(f, k) # {}
  <2>1. TablesWith(f, k) \in SUBSET Nat /\ FiniteNumbers(TablesWith(f, k))
    BY FewerNumbers DEF TablesWith
  <2>2. Max(TablesWith(f, k)) \in TablesWith(f, k)
    BY <1>3, <2>1, MaxOfNumbers
  <2> QED BY <1>3, <2>2 DEF Newest, TablesWith
<1> QED BY <1>2, <1>3

(***************************************************************************)
(* Two logs whose files agree on a key replay to the same cell.            *)
(***************************************************************************)
LEMMA ReplayedSame ==
  ASSUME NEW f, NEW h, NEW k \in Keys, DOMAIN f \in SUBSET Nat, FiniteNumbers(DOMAIN f),
         \A n \in DOMAIN f : FileCell(f[n], k) # Absent =>
            n \in DOMAIN h /\ FileCell(h[n], k) = FileCell(f[n], k),
         \A n \in DOMAIN h : FileCell(h[n], k) # Absent =>
            n \in DOMAIN f /\ FileCell(h[n], k) = FileCell(f[n], k)
  PROVE  Replayed(f)[k] = Replayed(h)[k]
<1>1. FilesWith(f, k) = FilesWith(h, k)
  BY DEF FilesWith
<1>2. CASE FilesWith(f, k) = {}
  BY <1>1, <1>2, Zenon DEF Replayed
<1>3. CASE FilesWith(f, k) # {}
  <2>1. FilesWith(f, k) \in SUBSET Nat /\ FiniteNumbers(FilesWith(f, k))
    BY FewerNumbers DEF FilesWith
  <2>2. Max(FilesWith(f, k)) \in FilesWith(f, k)
    BY <1>3, <2>1, MaxOfNumbers
  <2> QED BY <2>2 DEF Replayed, FilesWith
<1> QED BY <1>2, <1>3

(***************************************************************************)
(* A complete table r that stands for the tables P, all of them older than *)
(* the rest, answers when no table of the rest does.                       *)
(***************************************************************************)
LEMMA NewestReplaced ==
  ASSUME NEW f, NumberedBy(f, Table), NEW P \in SUBSET Nat, NEW r \in Nat,
         \A n \in DOMAIN f \ P : r < n /\ \A p \in P : p < n,
         NEW h, NumberedBy(h, Table), DOMAIN h = (DOMAIN f \ P) \cup {r},
         \A n \in DOMAIN f \ P : h[n] = f[n],
         h[r].stage = "complete", NEW k \in Keys
  PROVE  \/ /\ \E n \in DOMAIN f \ P : CellIn(f[n], k) # Absent
            /\ Newest(h, k) = Newest(f, k)
         \/ /\ \A n \in DOMAIN f \ P : CellIn(f[n], k) = Absent
            /\ Newest(h, k) = h[r].cells[k]
<1>0. /\ DOMAIN h \in SUBSET Nat /\ FiniteNumbers(DOMAIN h)
      /\ DOMAIN f \in SUBSET Nat /\ FiniteNumbers(DOMAIN f)
  BY DEF NumberedBy
<1>1. CASE \E n \in DOMAIN f \ P : CellIn(f[n], k) # Absent
  <2>1. PICK n \in DOMAIN f \ P : CellIn(f[n], k) # Absent
    BY <1>1
  <2>2. PICK g \in DOMAIN f :
          /\ CellIn(f[g], k) # Absent
          /\ \A m \in DOMAIN f : m > g => CellIn(f[m], k) = Absent
          /\ Newest(f, k) = CellIn(f[g], k)
    BY <1>0, <2>1, NewestCases
  <2>3. g \notin P
    BY <1>0, <2>1, <2>2
  <2>4. \A m \in DOMAIN h : m > g => CellIn(h[m], k) = Absent
    BY <1>0, <2>2, <2>3
  <2>5. Newest(h, k) = CellIn(h[g], k)
    BY <1>0, <2>2, <2>3, NewestAt
  <2> QED BY <2>2, <2>3, <2>5
<1>2. CASE \A n \in DOMAIN f \ P : CellIn(f[n], k) = Absent
  <2>1. CellIn(h[r], k) = h[r].cells[k]
    BY DEF CellIn
  <2>2. \A m \in DOMAIN h : m # r => CellIn(h[m], k) = Absent
    BY <1>2
  <2>3. CASE CellIn(h[r], k) = Absent
    BY <2>1, <2>2, <2>3, NewestNone
  <2>4. CASE CellIn(h[r], k) # Absent
    <3>1. \A m \in DOMAIN h : m > r => CellIn(h[m], k) = Absent
      BY <2>2
    <3>2. Newest(h, k) = CellIn(h[r], k)
      BY <1>0, <2>4, <3>1, NewestAt
    <3> QED BY <1>2, <2>1, <3>2
  <2> QED BY <2>3, <2>4
<1> QED BY <1>1, <1>2

(***************************************************************************)
(* When r has the value of the newest of P, the stack keeps its value.     *)
(***************************************************************************)
LEMMA NewestKept ==
  ASSUME NEW f, NumberedBy(f, Table), NEW P \in SUBSET Nat, NEW r \in Nat,
         \A n \in DOMAIN f \ P : r < n /\ \A p \in P : p < n,
         NEW h, NumberedBy(h, Table), DOMAIN h = (DOMAIN f \ P) \cup {r},
         \A n \in DOMAIN f \ P : h[n] = f[n],
         h[r].stage = "complete", NEW k \in Keys,
         \A g \in P \cap DOMAIN f :
           /\ CellIn(f[g], k) # Absent
           /\ \A m \in P \cap DOMAIN f : g < m => CellIn(f[m], k) = Absent
           => ValueOf(h[r].cells[k]) = ValueOf(CellIn(f[g], k)),
         (\A g \in P \cap DOMAIN f : CellIn(f[g], k) = Absent) =>
           ValueOf(h[r].cells[k]) = Absent
  PROVE  ValueOf(Newest(h, k)) = ValueOf(Newest(f, k))
<1>0. DOMAIN f \in SUBSET Nat /\ FiniteNumbers(DOMAIN f)
  BY DEF NumberedBy
<1>1. CASE Newest(h, k) = Newest(f, k)
  BY <1>1
<1>2. CASE /\ \A n \in DOMAIN f \ P : CellIn(f[n], k) = Absent
           /\ Newest(h, k) = h[r].cells[k]
  <2>1. CASE \A g \in DOMAIN f : CellIn(f[g], k) = Absent
    <3>1. Newest(f, k) = Absent
      BY <2>1, NewestNone
    <3> QED BY <1>2, <2>1, <3>1 DEF ValueOf
  <2>2. CASE \E g \in DOMAIN f : CellIn(f[g], k) # Absent
    <3>1. PICK g \in DOMAIN f :
            /\ CellIn(f[g], k) # Absent
            /\ \A m \in DOMAIN f : m > g => CellIn(f[m], k) = Absent
            /\ Newest(f, k) = CellIn(f[g], k)
      BY <1>0, <2>2, NewestCases
    <3>2. g \in P \cap DOMAIN f
      BY <1>2, <3>1
    <3>3. \A m \in P \cap DOMAIN f : g < m => CellIn(f[m], k) = Absent
      BY <3>1
    <3> QED BY <1>2, <3>1, Zenon
  <2> QED BY <2>1, <2>2
<1> QED BY <1>1, <1>2, NewestReplaced

(***************************************************************************)
(* What a stack of tables answers is a cell, and can be decoded when all   *)
(* tables can be read.                                                     *)
(***************************************************************************)
LEMMA NewestType ==
  ASSUME NEW f, NumberedBy(f, Table), NEW k \in Keys
  PROVE  /\ Newest(f, k) \in Cell
         /\ Readable(f) => Newest(f, k) \in MemCell /\ Newest(f, k) # Garbage
<1>1. DOMAIN f \in SUBSET Nat /\ FiniteNumbers(DOMAIN f)
  BY DEF NumberedBy
<1>2. \A g \in DOMAIN f :
        /\ CellIn(f[g], k) \in Cell
        /\ Readable(f) => CellIn(f[g], k) \in MemCell
  <2> SUFFICES ASSUME NEW g \in DOMAIN f
               PROVE  /\ CellIn(f[g], k) \in Cell
                      /\ Readable(f) => CellIn(f[g], k) \in MemCell
    OBVIOUS
  <2>1. f[g].stage \in Stages /\ f[g].cells[k] \in MemCell
    BY DEF NumberedBy, Table, Memstore
  <2> QED BY <2>1 DEF CellIn, Stages, Readable, Cell, MemCell
<1>3. Absent \in MemCell /\ Absent \in Cell /\ \A x \in MemCell : x # Garbage
  BY CellAssumption DEF MemCell, Cell
<1> QED BY <1>1, <1>2, <1>3, NewestCases

(***************************************************************************)
(* A loaded DB has removed what it had to.                                 *)
(***************************************************************************)
LEMMA NothingToRemove ==
  ASSUME Inv, phase \in Loaded
  PROVE  toRemove = {} /\ toRemove \ Whole = {}
BY DEF Inv, PhaseInv, Loaded

(***************************************************************************)
(* The readers of an open DB have no half written table among them.        *)
(***************************************************************************)
LEMMA ReadersReadable ==
  ASSUME Inv, phase \in Loaded, mgrLock = "free"
  PROVE  Readable(readers)
<1>1. Reflecting = {}
  BY DEF Inv, LockInv, Reflecting
<1>2. \A g \in DOMAIN readers : g \in DOMAIN sst /\ readers[g] = sst[g]
  BY <1>1 DEF Inv, ReaderInv
<1>3. \A g \in DOMAIN readers : ~(Flushing /\ g = fl.gen)
  BY DEF Inv, TableInv
<1>4. toRemove \ Whole = {}
  BY NothingToRemove
<1> QED BY <1>2, <1>3, <1>4 DEF Inv, TableInv, Readable
-----------------------------------------------------------------------------
(***************************************************************************)
(* Each part of the type invariant speaks of its own variables only.       *)
(***************************************************************************)
LEMMA TypeFrame ==
  /\ TablesOK /\ UNCHANGED <<sst, cdir>> => TablesOK'
  /\ WalOK /\ UNCHANGED <<wal, walNum>> => WalOK'
  /\ MemoryOK /\ UNCHANGED <<phase, writeStore, readStore, generation, readers,
                            mutations, opens>> => MemoryOK'
  /\ CallsOK /\ UNCHANGED <<dbLock, readLocks, mgrLock, op>> => CallsOK'
  /\ FlusherOK /\ UNCHANGED fl => FlusherOK'
  /\ CompactorOK /\ UNCHANGED <<cp, toRemove>> => CompactorOK'
<1>1. TablesOK /\ UNCHANGED <<sst, cdir>> => TablesOK'
  BY DEF TablesOK
<1>2. WalOK /\ UNCHANGED <<wal, walNum>> => WalOK'
  BY DEF WalOK
<1>3. MemoryOK /\ UNCHANGED <<phase, writeStore, readStore, generation, readers,
                             mutations, opens>> => MemoryOK'
  BY DEF MemoryOK
<1>4. CallsOK /\ UNCHANGED <<dbLock, readLocks, mgrLock, op>> => CallsOK'
  BY DEF CallsOK
<1>5. FlusherOK /\ UNCHANGED fl => FlusherOK'
  BY DEF FlusherOK
<1>6. CompactorOK /\ UNCHANGED <<cp, toRemove>> => CompactorOK'
  BY DEF CompactorOK
<1> QED BY <1>1, <1>2, <1>3, <1>4, <1>5, <1>6

(***************************************************************************)
(* Steps that leave the tables, the compaction or the directory alone.     *)
(***************************************************************************)
LEMMA TableFrame ==
  ASSUME TableInv, ReaderInv, CompactorInv,
         UNCHANGED <<sst, cdir, readers, generation, cp, toRemove>>,
         phase' \in Loaded => phase \in Loaded, phase' = "removing" <=> phase = "removing",
         Flushing' <=> Flushing, Flushing => fl' = fl
  PROVE  TableInv' /\ ReaderInv' /\ CompactorInv'
<1>1. TableInv'
  <2>1. Whole' = Whole
    BY DEF Whole
  <2> QED BY <2>1 DEF TableInv
<1>2. ReaderInv'
  BY DEF ReaderInv, Reflecting
<1>3. CompactorInv'
  BY DEF CompactorInv, ReadersValue
<1> QED BY <1>1, <1>2, <1>3

(***************************************************************************)
(* A step that touches neither tables nor compaction keeps what is said    *)
(* about their merge.                                                      *)
(***************************************************************************)
LEMMA MergeFrame ==
  ASSUME MergeInv, MergeKeepsAll, FinishInv, UNCHANGED <<sst, cdir, toRemove, cp>>,
         phase' = "removing" <=> phase = "removing"
  PROVE  MergeInv' /\ MergeKeepsAll' /\ FinishInv'
<1>1. \A S, cells : Hides(S, cells)' <=> Hides(S, cells)
  BY DEF Hides, IsNewest
<1>2. MergeInv'
  BY <1>1 DEF MergeInv, CompactionCounts
<1>3. MergeKeepsAll'
  BY DEF MergeKeepsAll
<1>4. FinishInv'
  <2>1. Whole' = Whole
    BY DEF Whole
  <2> QED BY <1>1, <2>1 DEF FinishInv
<1> QED BY <1>2, <1>3, <1>4

(***************************************************************************)
(* A step that leaves the directory alone leaves every value alone.        *)
(***************************************************************************)
LEMMA ValueFrame ==
  ASSUME UNCHANGED <<sst, cdir, wal, toRemove>>, cp'.pc = cp.pc,
         phase' = "cleaning" <=> phase = "cleaning"
  PROVE  OnlyWritesChange
BY DEF OnlyWritesChange, DiskValue, LogFiles, FinishedTables, CompactionCounts

(***************************************************************************)
(* Steps that leave the log, the calls and the memstores alone.            *)
(***************************************************************************)
LEMMA LogFrame ==
  ASSUME CurrentInv, PendingInv, SendInv, LockstepInv,
         UNCHANGED <<wal, walNum, op, writeStore, readStore, fl, phase, mutations>>
  PROVE  CurrentInv' /\ PendingInv' /\ SendInv' /\ LockstepInv'
<1>1. (SendPending' <=> SendPending) /\ (WalPending' <=> WalPending) /\ (HasLog' <=> HasLog)
  BY DEF SendPending, WalPending, HasLog
<1>2. CurrentInv'
  <2>1. \A k \in Keys : CurrentFile(k) => CurrentFile(k)'
    BY DEF CurrentFile, Logged
  <2> QED BY <1>1, <2>1 DEF CurrentInv
<1>3. PendingInv'
  BY <1>1 DEF PendingInv
<1>4. SendInv'
  BY <1>1 DEF SendInv
<1>5. LockstepInv'
  BY <1>1 DEF LockstepInv
<1> QED BY <1>2, <1>3, <1>4, <1>5
-----------------------------------------------------------------------------
(***************************************************************************)
(* The tables a recovery ends up with.                                     *)
(***************************************************************************)
LEMMA FinishedNumbered ==
  ASSUME TypeOK, MergeInv
  PROVE  NumberedBy(FinishedTables, Table)
<1>1. CASE CompactionCounts
  <2>1. /\ cdir.flag /\ cdir.paths # {} /\ cdir.paths \in SUBSET Nat /\ FiniteNumbers(cdir.paths)
        /\ cdir.stage \in Stages /\ cdir.cells \in Memstore
    BY <1>1 DEF TypeOK, TablesOK, MergeInv, CompactionCounts
  <2>2. Replacement(cdir.paths) \in Nat
    BY <2>1, MinOfNumbers DEF Replacement
  <2>3. [stage |-> cdir.stage, cells |-> cdir.cells] \in Table
    BY <2>1 DEF Table
  <2>4. NumberedBy(Restrict(sst, DOMAIN sst \ cdir.paths), Table)
    BY RestrictNumbered DEF TypeOK, TablesOK
  <2> QED BY <1>1, <2>2, <2>3, <2>4, WithNumbered DEF FinishedTables
<1>2. CASE ~CompactionCounts
  BY <1>2, RestrictNumbered DEF FinishedTables, TypeOK, TablesOK
<1> QED BY <1>1, <1>2

(***************************************************************************)
(* When there is no compaction to finish they are the tables there are.    *)
(***************************************************************************)
LEMMA FinishedPlain ==
  ASSUME NumberedBy(sst, Table), toRemove = {}, ~CompactionCounts
  PROVE  FinishedTables = sst
BY DEF FinishedTables, Restrict, NumberedBy

(***************************************************************************)
(* A table that is no input of the compaction is one of them.              *)
(***************************************************************************)
LEMMA FinishedAt ==
  ASSUME NEW g \in DOMAIN sst, toRemove = {},
         CompactionCounts => g \notin cdir.paths /\ g # Replacement(cdir.paths)
  PROVE  g \in DOMAIN FinishedTables /\ FinishedTables[g] = sst[g]
BY DEF FinishedTables, With, Restrict

(***************************************************************************)
(* A table outside the compaction is the same table in FinishedTables.     *)
(***************************************************************************)
LEMMA FinishedTop ==
  ASSUME UNCHANGED <<cdir, cp>>, NEW G, toRemove = {}, toRemove' = {},
         CompactionCounts => G \notin cdir.paths /\ G # Replacement(cdir.paths),
         DOMAIN sst' = DOMAIN sst \cup {G},
         \A g \in DOMAIN sst : g # G => sst'[g] = sst[g]
  PROVE  /\ DOMAIN FinishedTables' = DOMAIN FinishedTables \cup {G}
         /\ FinishedTables'[G] = sst'[G]
         /\ \A g \in DOMAIN FinishedTables : g # G => FinishedTables'[g] = FinishedTables[g]
<1>1. CompactionCounts' <=> CompactionCounts
  BY DEF CompactionCounts
<1>2. CASE ~CompactionCounts
  BY <1>1, <1>2 DEF FinishedTables, Restrict
<1>3. CASE CompactionCounts
  BY <1>1, Zenon DEF FinishedTables, With, Restrict
<1> QED BY <1>2, <1>3

(***************************************************************************)
(* While the DB is loaded, a compaction with its flag is the one in        *)
(* progress, and its inputs have readers.                                  *)
(***************************************************************************)
LEMMA FlaggedInputs ==
  ASSUME Inv, phase \in Loaded, cdir.flag
  PROVE  /\ cp.pc \in Merged /\ cdir.paths = cp.paths /\ cdir.paths # {}
         /\ cdir.paths \subseteq DOMAIN readers
         /\ Replacement(cdir.paths) \in cdir.paths
<1>1. cp.pc \in Merged
  BY DEF Inv, PhaseInv, Loaded
<1>2. cdir.paths = cp.paths /\ cp.paths \subseteq DOMAIN readers /\ cp.paths # {}
  BY <1>1 DEF Inv, CompactorInv, Merged, Compacting
<1>3. cdir.paths \in SUBSET Nat /\ FiniteNumbers(cdir.paths)
  BY DEF Inv, TypeOK, TablesOK
<1> QED BY <1>1, <1>2, <1>3, MinOfNumbers DEF Replacement

(***************************************************************************)
(* An input that is the oldest one left may go: the result hides it.       *)
(***************************************************************************)
LEMMA InputRemoved ==
  ASSUME NumberedBy(sst, Table), MergeInv, CompactionCounts, cdir.paths \in SUBSET Nat,
         NEW m \in cdir.paths, \A g \in cdir.paths \cap DOMAIN sst : m <= g,
         sst' = Restrict(sst, DOMAIN sst \ {m}), cdir' = cdir, CompactionCounts'
  PROVE  NumberedBy(sst, Table)' /\ MergeInv' /\ FinishedTables' = FinishedTables
<1>1. /\ DOMAIN sst' = DOMAIN sst \ {m} /\ DOMAIN sst' \in SUBSET DOMAIN sst
      /\ \A g \in DOMAIN sst' : sst'[g] = sst[g]
  BY DEF Restrict
<1>2. NumberedBy(sst, Table)'
  <2>1. NumberedBy(Restrict(sst, DOMAIN sst \ {m}), Table)
    BY RestrictNumbered
  <2> QED BY <2>1, Zenon
<1>3. cdir.flag
  BY DEF CompactionCounts
<1>4. Hides(cdir.paths, cdir.cells)'
  <2> SUFFICES ASSUME NEW k \in Keys, NEW g \in cdir.paths, IsNewest(cdir.paths, g, k)'
               PROVE  cdir.cells[k] = ValueOf(CellIn(sst[g], k))'
    BY Zenon DEF Hides
  <2>1. /\ g \in cdir.paths \cap DOMAIN sst' /\ CellIn(sst'[g], k) # Absent
        /\ \A h \in cdir.paths \cap DOMAIN sst' : g < h => CellIn(sst'[h], k) = Absent
    BY DEF IsNewest
  <2>2. ASSUME NEW h \in cdir.paths \cap DOMAIN sst, g < h
        PROVE  CellIn(sst[h], k) = Absent
    <3>1. h # m
      BY <1>1, <2>1, <2>2
    <3> QED BY <1>1, <2>1, <2>2
  <2>3. IsNewest(cdir.paths, g, k)
    BY <1>1, <2>2, Zenon DEF IsNewest
  <2> QED BY <1>1, <1>3, <2>1, <2>3 DEF MergeInv, Hides
<1>5. MergeInv'
  BY <1>1, <1>4 DEF MergeInv
<1>6. FinishedTables' = FinishedTables
  <2>1. DOMAIN sst' \ cdir.paths = DOMAIN sst \ cdir.paths
    BY <1>1
  <2>2. Restrict(sst', DOMAIN sst' \ cdir.paths) = Restrict(sst, DOMAIN sst \ cdir.paths)
    BY DEF Restrict
  <2> QED BY <2>2 DEF FinishedTables
<1> QED BY <1>2, <1>5, <1>6
-----------------------------------------------------------------------------
(***************************************************************************)
(* Nobody uses the database unless it is open.                             *)
(***************************************************************************)
LEMMA NobodyElse ==
  ASSUME Inv, phase \notin Running, phase # "flush"
  PROVE  /\ \A c \in Clients : op[c].pc = "idle"
         /\ readLocks = {} /\ mgrLock = "free" /\ fl.pc = "off" /\ cp.pc = "off"
         /\ ~Flushing /\ ~WalPending /\ ~SendPending
<1>1. \A c \in Clients : op[c].pc = "idle"
  BY DEF Inv, LockInv, Running
<1>2. readLocks = {}
  BY <1>1 DEF Inv, LockInv, TypeOK, CallsOK
<1>3. fl.pc = "off" /\ cp.pc = "off"
  BY DEF Inv, PhaseInv, Running
<1>4. mgrLock = "free"
  BY <1>3 DEF Inv, LockInv, TypeOK, CallsOK
<1>5. ~Flushing /\ ~WalPending
  BY <1>3 DEF Flushing, WalPending, Stages
<1>6. ~SendPending
  BY <1>1 DEF SendPending, Running
<1> QED BY <1>1, <1>2, <1>3, <1>4, <1>5, <1>6

(***************************************************************************)
(* Without calls and outside the phases that use the log, nothing is said  *)
(* about it.                                                               *)
(***************************************************************************)
LEMMA QuietLog ==
  ASSUME \A c \in Clients : op'[c].pc = "idle",
         phase' \notin {"flush", "clean", "up", "closing", "draining"}
  PROVE  CurrentInv' /\ PendingInv' /\ SendInv' /\ LockstepInv' /\ ReplayInv' /\ GetInv'
BY DEF CurrentInv, PendingInv, SendInv, LockstepInv, ReplayInv, GetInv, HasLog, SendPending

(***************************************************************************)
(* Without a compaction in progress nothing is said about one.             *)
(***************************************************************************)
LEMMA NoCompactor ==
  ASSUME cp'.pc \in {"off", "idle"}
  PROVE  CompactorInv' /\ MergeKeepsAll' /\ Reflecting' = {}
BY DEF CompactorInv, MergeKeepsAll, Compacting, Merged, Closing, Stages, Reflecting

-----------------------------------------------------------------------------
(***************************************************************************)
(* The inputs before they are removed: tables on disk, readable, older     *)
(* than all others.                                                        *)
(***************************************************************************)
LEMMA Inputs ==
  ASSUME Inv, cp.pc \in Compacting \ {"removing", "renamed"}
  PROVE  /\ cp.paths # {} /\ cp.paths \in SUBSET DOMAIN sst /\ cp.paths \in SUBSET Nat
         /\ \A p \in cp.paths : sst[p].stage \in {"headers", "complete"} /\ readers[p] = sst[p]
         /\ \A g \in DOMAIN sst \ cp.paths : \A p \in cp.paths : p < g
         /\ Replacement(cp.paths) \in cp.paths
<1>1. phase \in Loaded /\ Reflecting = {}
  BY DEF Inv, PhaseInv, Running, Loaded, Compacting, Reflecting
<1>2. /\ cp.paths # {} /\ cp.paths \in SUBSET DOMAIN readers /\ cp.paths \in SUBSET Nat
      /\ \A g \in DOMAIN readers \ cp.paths : \A p \in cp.paths : p < g
  BY DEF Inv, CompactorInv, TypeOK, CompactorOK
<1>3. \A g \in DOMAIN readers : g \in DOMAIN sst /\ readers[g] = sst[g]
  BY <1>1 DEF Inv, ReaderInv
<1>4. \A g \in DOMAIN sst : g \in DOMAIN readers \/ (Flushing /\ g = fl.gen)
  BY <1>1 DEF Inv, ReaderInv
<1>5. Flushing => fl.gen \notin DOMAIN readers /\ fl.gen = generation
  BY DEF Inv, TableInv
<1>6. \A p \in cp.paths : sst[p].stage \in {"headers", "complete"}
  BY <1>1, <1>2, <1>3, <1>5, NothingToRemove DEF Inv, TableInv
<1>7. \A p \in cp.paths : p <= generation
  BY <1>1, <1>2 DEF Inv, TableInv
<1>8. \A g \in DOMAIN sst \ cp.paths : \A p \in cp.paths : p < g
  <2> SUFFICES ASSUME NEW g \in DOMAIN sst \ cp.paths, NEW p \in cp.paths PROVE p < g
    OBVIOUS
  <2>1. CASE g \in DOMAIN readers
    BY <1>2, <2>1
  <2>2. CASE Flushing /\ g = fl.gen
    <3>1. p # g /\ p <= generation /\ g = generation /\ p \in Nat /\ generation \in Nat
      BY <1>2, <1>5, <1>7, <2>2 DEF Inv, TypeOK, FlusherOK
    <3> QED BY <3>1
  <2> QED BY <1>4, <2>1, <2>2
<1>9. Replacement(cp.paths) \in cp.paths
  BY <1>2, MinOfNumbers DEF Replacement, Inv, TypeOK, CompactorOK
<1> QED BY <1>2, <1>3, <1>6, <1>8, <1>9
-----------------------------------------------------------------------------
(***************************************************************************)
(* While nobody holds the write lock, the readers say of a key what the    *)
(* directory says, unless the table in the flush knows it.                 *)
(***************************************************************************)
LEMMA TablesAgree ==
  ASSUME Inv, phase = "up", dbLock = "free", NEW k \in Keys, Flushing => fl.mem[k] = Absent
  PROVE  ValueOf(Newest(FinishedTables, k)) = ValueOf(Newest(readers, k))
<1>1. cp.pc \notin {"locked", "removing", "renamed"} /\ Reflecting = {} /\ phase \in Loaded
  BY DEF Inv, LockInv, Reflecting, Loaded
<1>2. Newest(readers, k) = Newest(sst, k)
  <2>1. \A g \in DOMAIN readers : g \in DOMAIN sst /\ readers[g] = sst[g]
    BY <1>1 DEF Inv, ReaderInv
  <2>2. ASSUME NEW g \in DOMAIN sst, CellIn(sst[g], k) # Absent PROVE g \in DOMAIN readers
    <3>1. SUFFICES ASSUME Flushing, g = fl.gen PROVE FALSE
      BY <1>1 DEF Inv, ReaderInv
    <3>2. sst[g].cells[k] = Absent /\ sst[g].stage \in Stages
      BY <3>1 DEF Inv, TableInv, TypeOK, TablesOK, NumberedBy, Table
    <3> QED BY <2>2, <3>2 DEF CellIn, Stages
  <2>3. DOMAIN readers \in SUBSET Nat /\ FiniteNumbers(DOMAIN readers)
    BY DEF Inv, TypeOK, MemoryOK, NumberedBy
  <2> QED BY <2>1, <2>2, <2>3, NewestSame
<1>3. CASE ~CompactionCounts
  <2>1. toRemove = {} /\ NumberedBy(sst, Table)
    BY <1>1, NothingToRemove DEF Inv, TypeOK, TablesOK
  <2> QED BY <1>2, <1>3, <2>1, FinishedPlain
<1>4. CASE CompactionCounts
  <2> DEFINE r == Replacement(cdir.paths)
             h == FinishedTables
             P == cdir.paths
  <2>1. cdir.flag /\ cp.pc = "complete" /\ P = cp.paths
    BY <1>1, <1>4 DEF CompactionCounts, Inv, PhaseInv, CompactorInv, Merged
  <2>2. /\ P \in SUBSET DOMAIN sst /\ P \in SUBSET Nat /\ r \in P
        /\ \A g \in DOMAIN sst \ P : \A p \in P : p < g
    BY <2>1, Inputs DEF Compacting
  <2>3. \A j \in Keys : cdir.cells[j] = ValueOf(Newest(Restrict(sst, P), j))
    BY <2>1 DEF Inv, MergeKeepsAll, Stages
  <2>4. cdir.stage = "complete" /\ Hides(P, cdir.cells)
    BY <1>4, <2>1 DEF Inv, MergeInv
  <2>5. h = With(Restrict(sst, DOMAIN sst \ P), r, [stage |-> cdir.stage, cells |-> cdir.cells])
    BY <1>4 DEF FinishedTables
  <2>6. NumberedBy(h, Table) /\ NumberedBy(sst, Table)
    BY FinishedNumbered DEF Inv, TypeOK, TablesOK
  <2>7. /\ DOMAIN h = (DOMAIN sst \ P) \cup {r} /\ h[r].stage = "complete"
        /\ h[r].cells = cdir.cells /\ \A n \in DOMAIN sst \ P : h[n] = sst[n]
    BY <2>2, <2>4, <2>5 DEF With, Restrict
  <2>8. r \in Nat /\ \A n \in DOMAIN sst \ P : r < n /\ \A p \in P : p < n
    BY <2>2
  <2> HIDE DEF h, r, P
  <2>9. ValueOf(h[r].cells[k]) = ValueOf(Newest(Restrict(sst, P), k))
    BY <2>3, <2>7 DEF ValueOf
  <2>10. DOMAIN Restrict(sst, P) = P /\ \A g \in P : Restrict(sst, P)[g] = sst[g]
    BY RestrictedTo
  <2>11. ASSUME NEW g \in P \cap DOMAIN sst, CellIn(sst[g], k) # Absent,
                \A m \in P \cap DOMAIN sst : g < m => CellIn(sst[m], k) = Absent
         PROVE  ValueOf(h[r].cells[k]) = ValueOf(CellIn(sst[g], k))
    <3>1. cdir.cells[k] = ValueOf(CellIn(sst[g], k))
      BY <2>4, <2>11 DEF Hides, IsNewest
    <3> QED BY <2>7, <3>1 DEF ValueOf
  <2>12. ASSUME \A g \in P \cap DOMAIN sst : CellIn(sst[g], k) = Absent
         PROVE  ValueOf(h[r].cells[k]) = Absent
    <3>1. \A g \in DOMAIN Restrict(sst, P) : CellIn(Restrict(sst, P)[g], k) = Absent
      BY <2>2, <2>10, <2>12
    <3>2. Newest(Restrict(sst, P), k) = Absent
      BY <3>1, NewestNone
    <3> QED BY <2>9, <3>2 DEF ValueOf
  <2>13. \A g \in P \cap DOMAIN sst :
            /\ CellIn(sst[g], k) # Absent
            /\ \A m \in P \cap DOMAIN sst : g < m => CellIn(sst[m], k) = Absent
            => ValueOf(h[r].cells[k]) = ValueOf(CellIn(sst[g], k))
    BY <2>11
  <2>14. (\A g \in P \cap DOMAIN sst : CellIn(sst[g], k) = Absent) =>
            ValueOf(h[r].cells[k]) = Absent
    BY <2>12
  <2>15. ValueOf(Newest(h, k)) = ValueOf(Newest(sst, k))
    <3>1. P \in SUBSET Nat
      BY <2>2
    <3> QED BY <2>6, <2>7, <2>8, <2>13, <2>14, <3>1, NewestKept, Zenon
  <2> QED BY <1>2, <2>15 DEF h
<1> QED BY <1>3, <1>4

(***************************************************************************)
(* The memstores over the readers are the log over the tables.             *)
(***************************************************************************)
LEMMA ValuesAgree ==
  ASSUME Inv, phase = "up", dbLock = "free", NEW k \in Keys
  PROVE  ValueOf(Over(MemValue(k), Newest(readers, k))) = DiskValue(k)
<1>1. /\ HasLog /\ LogFiles = wal /\ fl.pc # "off" /\ ~SendPending
      /\ \A c \in Clients : op[c].pc \in {"idle", "get"}
  <2>1. \A c \in Clients : c # "free"
    BY ClientsAssumption
  <2>2. \A c \in Clients : op[c].pc \in {"idle", "get"}
    BY <2>1 DEF Inv, LockInv, TypeOK, CallsOK, FlusherOK
  <2> QED BY <2>2 DEF HasLog, LogFiles, Inv, PhaseInv, SendPending
<1>2. /\ walNum \in DOMAIN wal /\ DOMAIN wal \in SUBSET Nat /\ \A n \in DOMAIN wal : n <= walNum
      /\ FileCell(wal[walNum], k) = writeStore[k]
  <2>1. CurrentFile(k) /\ \A c \in Clients : ~Logged(c, k)
    BY <1>1 DEF Inv, CurrentInv, Logged
  <2> QED BY <1>1, <2>1 DEF Inv, CurrentInv, CurrentFile, WalOK, CallsOK
<1>3. \A n \in DOMAIN wal : n = walNum \/ (WalPending /\ n = fl.wal)
  BY <1>1 DEF Inv, LockstepInv
<1>4. fl.pc # "idle" => readStore = fl.mem
  BY <1>1 DEF Inv, ReadStoreInv
<1>5. CASE writeStore[k] # Absent
  <2>1. Replayed(wal)[k] = writeStore[k]
    BY <1>2, <1>5, ReplayedAt
  <2> QED BY <1>1, <1>5, <2>1 DEF DiskValue, MemValue, Over
<1>6. CASE writeStore[k] = Absent /\ WalPending
  <2>1. /\ fl.wal \in DOMAIN wal /\ fl.wal < walNum /\ fl.mem[k] = FileCell(wal[fl.wal], k)
        /\ readStore = fl.mem
    BY <1>1, <1>4, <1>6 DEF Inv, PendingInv, WalPending, Stages
  <2>2. CASE fl.mem[k] # Absent
    <3>1. Replayed(wal)[k] = fl.mem[k]
      BY <1>2, <1>3, <1>6, <2>1, <2>2, ReplayedAt
    <3> QED BY <1>1, <1>6, <2>1, <2>2, <3>1 DEF DiskValue, MemValue, Over
  <2>3. CASE fl.mem[k] = Absent
    <3>1. Replayed(wal)[k] = Absent
      BY <1>2, <1>3, <1>6, <2>1, <2>3, ReplayedNone, Zenon
    <3>2. ValueOf(Newest(FinishedTables, k)) = ValueOf(Newest(readers, k))
      BY <2>3, TablesAgree
    <3> QED BY <1>1, <1>6, <2>1, <2>3, <3>1, <3>2 DEF DiskValue, MemValue, Over
  <2> QED BY <2>2, <2>3
<1>7. CASE writeStore[k] = Absent /\ ~WalPending
  <2>1. Replayed(wal)[k] = Absent
    BY <1>2, <1>3, <1>7, ReplayedNone
  <2>2. DiskValue(k) = ValueOf(Newest(FinishedTables, k))
    BY <1>1, <2>1 DEF DiskValue, Over
  <2>3. CASE fl.pc = "idle"
    <3>1. ValueOf(Newest(FinishedTables, k)) = ValueOf(Newest(readers, k))
      BY <2>3, TablesAgree DEF Flushing, Stages
    <3>2. readStore[k] # Absent => ValueOf(Newest(readers, k)) = ValueOf(readStore[k])
      BY <1>1, <2>3 DEF Inv, ReadStoreInv
    <3> QED BY <1>7, <2>2, <3>1, <3>2 DEF MemValue, Over
  <2>4. CASE fl.pc = "removed"
    <3>1. /\ Flushing /\ fl.gen \in DOMAIN sst /\ fl.gen \notin DOMAIN readers
          /\ sst[fl.gen].cells = fl.mem /\ sst[fl.gen].stage = "complete"
          /\ \A g \in DOMAIN sst \cup DOMAIN readers : g <= fl.gen
      BY <2>4 DEF Inv, TableInv, Flushing, Loaded
    <3>2. readStore = fl.mem
      BY <1>4, <2>4
    <3>3. CASE fl.mem[k] = Absent
      <4>1. ValueOf(Newest(FinishedTables, k)) = ValueOf(Newest(readers, k))
        BY <3>3, TablesAgree
      <4> QED BY <1>7, <2>2, <3>2, <3>3, <4>1 DEF MemValue, Over
    <3>4. CASE fl.mem[k] # Absent
      <4> DEFINE f == FinishedTables
                 G == fl.gen
      <4>1. CompactionCounts =>
              cdir.paths \in SUBSET DOMAIN readers /\ Replacement(cdir.paths) \in cdir.paths
        BY FlaggedInputs DEF CompactionCounts, Loaded
      <4>2. G \in DOMAIN f /\ f[G] = sst[G]
        <5>1. toRemove = {}
          BY NothingToRemove DEF Loaded
        <5> QED BY <3>1, <4>1, <5>1, FinishedAt
      <4>3. DOMAIN f \in SUBSET (DOMAIN sst \cup DOMAIN readers)
        BY <4>1 DEF FinishedTables, With, Restrict
      <4>4. \A g \in DOMAIN f : g <= G
        BY <3>1, <4>3
      <4>5. DOMAIN f \in SUBSET Nat
        BY FinishedNumbered DEF Inv, NumberedBy
      <4>6. CellIn(f[G], k) = fl.mem[k]
        BY <3>1, <4>2 DEF CellIn
      <4> HIDE DEF f, G
      <4>7. Newest(f, k) = fl.mem[k]
        BY <3>4, <4>2, <4>4, <4>5, <4>6, NewestAt
      <4> QED BY <1>7, <2>2, <3>2, <3>4, <4>7 DEF MemValue, Over, f
    <3> QED BY <3>3, <3>4
  <2>5. fl.pc \in {"idle", "removed"}
    BY <1>1, <1>7 DEF WalPending, Inv, TypeOK, FlusherOK
  <2> QED BY <2>3, <2>4, <2>5
<1> QED BY <1>5, <1>6, <1>7
=============================================================================
