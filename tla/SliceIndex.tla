----------------------------- MODULE SliceIndex -----------------------------
(***************************************************************************)
(* SliceKeyIndex: the index file of a table loaded into a sorted slice, on *)
(* the file that DiskIndex searches.  SimpleDB uses the slice.             *)
(***************************************************************************)
EXTENDS DiskIndex

(***************************************************************************)
(* Load reads the file from its front and appends every record: what it    *)
(* has read up to an offset, the last record before it at the end.         *)
(***************************************************************************)
RecordsBefore(o) == {x \in DOMAIN index : x < o}

LastBefore(o) == Max(RecordsBefore(o))

Read[o \in 0..size] ==
  IF RecordsBefore(o) = {} THEN <<>> ELSE Append(Read[LastBefore(o)], index[LastBefore(o)])

Loaded == Read[size]

(***************************************************************************)
(* slices.BinarySearchFunc: the number of the first entry, from zero, that *)
(* is not below the key.                                                   *)
(***************************************************************************)
SearchIndex(key) ==
  CHOOSE n \in 0..Len(Loaded) : \A m \in DOMAIN Loaded : Loaded[m] < key <=> m <= n

SliceContains(key) ==
  SearchIndex(key) < Len(Loaded) /\ Loaded[SearchIndex(key) + 1] = key

(***************************************************************************)
(* SliceKeyIndexIterator returns the entries from one number up to, and    *)
(* without, another.                                                       *)
(***************************************************************************)
Entries(currentIndex, endIndexExcl) == SubSeq(Loaded, currentIndex + 1, endIndexExcl)

SliceStartingAt(key) == Entries(SearchIndex(key), Len(Loaded))

\* Mutant of EndIndex: leaves out the key where the range ends.
EndIndexExclusive(keyHigher) == SearchIndex(keyHigher)

EndIndex(keyHigher) == Min({SearchIndex(keyHigher) + 1, Len(Loaded)})

SliceBetween(keyLower, keyHigher) == Entries(SearchIndex(keyLower), EndIndex(keyHigher))

(***************************************************************************)
(* The two implementations of SortedKeyIndex cannot be told apart: for     *)
(* every call the binary search over offsets, whatever it has cached, and  *)
(* the slice give the same answer, down to the key above a range whose     *)
(* upper end is not in the index.                                          *)
(***************************************************************************)
SliceAgrees ==
  LastIsReachable =>
    /\ pc = "result" => (res.found <=> SliceContains(target))
    /\ Scanned("StartingAt") => it.out = SliceStartingAt(call.lower)
    /\ Scanned("BetweenHigher") => it.out = SliceBetween(call.lower, call.higher)

====
