------------------------------ MODULE MemStore ------------------------------
(***************************************************************************)
(* memstore.MemStore over the skip list, which SkipList models and which   *)
(* is a function from keys to values here.  A key or a value is its        *)
(* length: what tells nil, the empty slice and longer ones apart is all    *)
(* the code looks at.                                                      *)
(***************************************************************************)
EXTENDS Integers, Functions, FiniteSetsExt

Nil == -1

Length(slice) == IF slice = Nil THEN 0 ELSE slice

NoError == "none"

NewMemStore == [skipListMap |-> [key \in {} |-> Nil], estimatedSize |-> 0]

Has(m, key) == key \in DOMAIN m.skipListMap

(* *element.value = value, or Insert of a key that is not there. *)
Stored(m, key, value, size) ==
  [skipListMap |-> [k \in DOMAIN m.skipListMap \cup {key} |->
                      IF k = key THEN value ELSE m.skipListMap[k]],
   estimatedSize |-> size]

Done(m) == [store |-> m, err |-> NoError]
Refused(m, err) == [store |-> m, err |-> err]

StoreContains(m, key) == Has(m, key) /\ m.skipListMap[key] /= Nil

StoreGet(m, key) ==
  IF ~Has(m, key) THEN [val |-> Nil, err |-> "KeyNotFound"]
  ELSE IF m.skipListMap[key] = Nil THEN [val |-> Nil, err |-> "KeyTombstoned"]
  ELSE [val |-> m.skipListMap[key], err |-> NoError]

\* Mutant of upsertInternal: counts a value that is overwritten as a new one.
upsertInternalAdding(m, key, value, errorIfKeyExist) ==
  IF key = Nil THEN Refused(m, "KeyNil")
  ELSE IF value = Nil THEN Refused(m, "ValueNil")
  ELSE IF StoreContains(m, key) /\ errorIfKeyExist THEN Refused(m, "KeyAlreadyExists")
  ELSE Done(Stored(m, key, value, m.estimatedSize + Length(key) + Length(value)))

upsertInternal(m, key, value, errorIfKeyExist) ==
  IF key = Nil THEN Refused(m, "KeyNil")
  ELSE IF value = Nil THEN Refused(m, "ValueNil")
  ELSE IF StoreContains(m, key) /\ errorIfKeyExist THEN Refused(m, "KeyAlreadyExists")
  ELSE Done(Stored(m, key, value,
         IF Has(m, key) THEN (m.estimatedSize - Length(m.skipListMap[key])) + Length(value)
         ELSE m.estimatedSize + Length(key) + Length(value)))

Add(m, key, value) == upsertInternal(m, key, value, TRUE)
Upsert(m, key, value) == upsertInternal(m, key, value, FALSE)

deleteInternal(m, key, errorIfKeyNotFound) ==
  IF Has(m, key)
  THEN Done(Stored(m, key, Nil, m.estimatedSize - Length(m.skipListMap[key])))
  ELSE IF errorIfKeyNotFound THEN Refused(m, "KeyNotFound") ELSE Done(m)

Delete(m, key) == deleteInternal(m, key, TRUE)
DeleteIfExists(m, key) == deleteInternal(m, key, FALSE)

Tombstone(m, key) ==
  Done(Stored(m, key, Nil,
         IF Has(m, key) THEN m.estimatedSize - Length(m.skipListMap[key])
         ELSE m.estimatedSize + Length(key)))

(* ~15% overhead; the rounding of float32 is left out. *)
EstimatedSizeInBytes(m) == (115 * m.estimatedSize) \div 100

(* flushMemstore with tombstones: what the table holds, nil for a tombstone. *)
FlushWithTombstones(m) == m.skipListMap

=============================================================================
