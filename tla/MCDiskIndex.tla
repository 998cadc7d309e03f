---------------------------- MODULE MCDiskIndex -----------------------------
(***************************************************************************)
(* Small index files for DiskIndex: the records of some keys, of given     *)
(* lengths, one behind the other after the header.                         *)
(***************************************************************************)
EXTENDS SliceIndex

CONSTANTS
  IndexedKeys, RecordLens, \* keys of index entries, lengths of their records
  HeaderSize,          \* bytes of the file header
  MinEntries, MaxEntries

Layout(S, lens) ==
  LET off(k) == HeaderSize + MapThenSumSet(LAMBDA x : lens[x], {x \in S : x < k})
  IN  [index |-> [o \in {off(k) : k \in S} |-> CHOOSE k \in S : off(k) = o],
       size |-> HeaderSize + MapThenSumSet(LAMBDA x : lens[x], S)]

SmallFiles ==
  UNION {{Layout(S, lens) : lens \in [S -> RecordLens]} :
           S \in {T \in SUBSET IndexedKeys : Cardinality(T) \in MinEntries..MaxEntries}}

====
