------------------------------ MODULE SkipList ------------------------------
(***************************************************************************)
(* skiplist.Map: linked nodes of random height.  A search walks down the   *)
(* levels node by node; an iterator holds the node it returns next and     *)
(* goes on while keys are inserted.                                        *)
(***************************************************************************)
EXTENDS Integers, Sequences, FiniteSets

CONSTANTS
  Keys,             \* keys that are inserted, numbers above zero
  Targets,          \* keys that are looked for
  MaxHeight,        \* maxHeight, 12 in the code
  MaxIterators      \* bound: iterators that are opened

ASSUME SkipListAssumption ==
  /\ Keys \subseteq Nat \ {0} /\ Targets \subseteq Nat \ {0}
  /\ MaxHeight \in Nat \ {0} /\ MaxIterators \in Nat

VARIABLES
  next,             \* per node (its key, or head) the next node on each level
  size,
  pc, x, level,     \* findGreaterOrEqual
  prevTable,
  op,               \* the call the search serves
  res,              \* its result
  it,               \* the iterator, with what it has returned
  before,           \* keys there were when it was opened
  iterators

search == <<pc, x, level, prevTable, op, res>>
iteration == <<it, before, iterators>>
vars == <<next, size, search, iteration>>

head == 0
nil == -1
NoKey == -1

Inserted == DOMAIN next \ {head}

NoIterator == [node |-> nil, lower |-> NoKey, keyHigher |-> NoKey, doneNext |-> FALSE,
               out |-> <<>>, done |-> FALSE]

NoCall == [call |-> "none", key |-> NoKey, keyHigher |-> NoKey]

Init ==
  /\ next = [n \in {head} |-> [l \in 1..MaxHeight |-> nil]] /\ size = 0
  /\ pc = "idle" /\ x = head /\ level = 0 /\ prevTable = <<>>
  /\ op = NoCall /\ res = NoKey
  /\ it = NoIterator /\ before = {} /\ iterators = 0

-----------------------------------------------------------------------------

(* Levels are numbered from one here, from zero in the code. *)
Find(call, key, keyHigher) ==
  /\ pc = "idle"
  /\ pc' = "find" /\ x' = head /\ level' = MaxHeight
  /\ prevTable' = [l \in 1..MaxHeight |-> nil]
  /\ op' = [call |-> call, key |-> key, keyHigher |-> keyHigher] /\ res' = NoKey
  /\ UNCHANGED <<next, size, iteration>>

\* Mutant of After: goes on at the key itself.
AfterOrAt(key, node) == node /= nil /\ key >= node

After(key, node) == node /= nil /\ key > node

\* Mutant of Forward: forgets to move on.
ForwardStays ==
  /\ pc = "find" /\ After(op.key, next[x][level])
  /\ UNCHANGED vars

(* The key is behind the next node: keep searching in this list. *)
Forward ==
  /\ pc = "find" /\ After(op.key, next[x][level])
  /\ x' = next[x][level]
  /\ UNCHANGED <<next, size, pc, level, prevTable, op, res, iteration>>

\* Mutant of Down: notes the head as the node in front.
DownFromHead ==
  /\ pc = "find" /\ ~After(op.key, next[x][level]) /\ level > 1
  /\ prevTable' = [prevTable EXCEPT ![level] = head] /\ level' = level - 1
  /\ UNCHANGED <<next, size, pc, x, op, res, iteration>>

Down ==
  /\ pc = "find" /\ ~After(op.key, next[x][level]) /\ level > 1
  /\ prevTable' = [prevTable EXCEPT ![level] = x] /\ level' = level - 1
  /\ UNCHANGED <<next, size, pc, x, op, res, iteration>>

Bottom ==
  /\ pc = "find" /\ ~After(op.key, next[x][level]) /\ level = 1
  /\ prevTable' = [prevTable EXCEPT ![1] = x] /\ pc' = "found" /\ res' = next[x][1]
  /\ UNCHANGED <<next, size, x, level, op, iteration>>

Equal == res /= nil /\ res = op.key

(* The links of a node of the given height put behind prevTable. *)
Linked(height) ==
  [n \in DOMAIN next \cup {op.key} |->
     IF n = op.key THEN [l \in 1..height |-> next[prevTable[l]][l]]
     ELSE [l \in DOMAIN next[n] |-> IF l <= height /\ prevTable[l] = n THEN op.key ELSE next[n][l]]]

(* The call has returned and its locals are gone. *)
Idle ==
  /\ pc' = "idle" /\ x' = head /\ level' = 0 /\ prevTable' = <<>>
  /\ op' = NoCall /\ res' = NoKey

(* Insert, of a key that is not in the list, as its doc requires. *)
Insert(key) == key \notin Inserted /\ Find("Insert", key, NoKey)

InsertLinks ==
  /\ pc = "found" /\ op.call = "Insert" /\ ~Equal
  /\ \E randomHeight \in 1..MaxHeight : next' = Linked(randomHeight)
  /\ size' = size + 1 /\ Idle
  /\ UNCHANGED iteration

Get(key) == Find("Get", key, NoKey)

GetReturns ==
  /\ pc = "found" /\ op.call = "Get"
  /\ res' = (IF Equal THEN res ELSE NoKey) /\ pc' = "returned"
  /\ UNCHANGED <<next, size, x, level, prevTable, op, iteration>>

Return ==
  /\ pc = "returned" /\ Idle
  /\ UNCHANGED <<next, size, iteration>>

-----------------------------------------------------------------------------

NewIterator(node, lower, keyHigher) ==
  /\ it' = [NoIterator EXCEPT !.node = node, !.lower = lower, !.keyHigher = keyHigher]
  /\ before' = Inserted /\ iterators' = iterators + 1

Iterator ==
  /\ pc = "idle" /\ iterators < MaxIterators
  /\ NewIterator(next[head][1], NoKey, NoKey)
  /\ UNCHANGED <<next, size, search>>

IteratorStartingAt(key) == iterators < MaxIterators /\ Find("StartingAt", key, NoKey)

(* keyHigher below keyLower is an error and opens nothing. *)
IteratorBetween(keyLower, keyHigher) ==
  iterators < MaxIterators /\ keyLower <= keyHigher /\ Find("Between", keyLower, keyHigher)

IteratorOpens ==
  /\ pc = "found" /\ op.call \in {"StartingAt", "Between"}
  /\ NewIterator(res, op.key, op.keyHigher) /\ Idle
  /\ UNCHANGED <<next, size>>

\* Mutant of OverHigher: ends in front of keyHigher.
OverOrAtHigher(key) == it.keyHigher /= NoKey /\ key >= it.keyHigher

OverHigher(key) == it.keyHigher /= NoKey /\ key > it.keyHigher

IteratorNext ==
  /\ pc = "idle" /\ iterators > 0 /\ it.node /= nil /\ ~it.doneNext
  /\ it' = [it EXCEPT
       !.node = next[it.node][1],
       !.doneNext = it.node = it.keyHigher,
       !.out = IF OverHigher(it.node) THEN @ ELSE Append(@, it.node),
       !.done = OverHigher(it.node)]
  /\ UNCHANGED <<next, size, search, before, iterators>>

IteratorDone ==
  /\ pc = "idle" /\ iterators > 0 /\ (it.node = nil \/ it.doneNext)
  /\ it' = [it EXCEPT !.done = TRUE]
  /\ UNCHANGED <<next, size, search, before, iterators>>

-----------------------------------------------------------------------------

Walk == Forward \/ Down \/ Bottom

Answer == InsertLinks \/ GetReturns \/ Return \/ IteratorOpens

Next ==
  \/ Walk \/ Answer
  \/ \E key \in Keys : Insert(key)
  \/ \E key \in Targets : Get(key) \/ IteratorStartingAt(key)
  \/ \E keyLower, keyHigher \in Targets : IteratorBetween(keyLower, keyHigher)
  \/ Iterator \/ IteratorNext \/ IteratorDone

Spec == Init /\ [][Next]_vars /\ WF_vars(Walk \/ Answer)

-----------------------------------------------------------------------------

(* Every level links its nodes in ascending order and leaves out none: the
   node behind one on a level is the next larger key of that height, and
   Size is the number of nodes.  It
   takes an insertion on each level through its own entry of prevTable. *)
LevelsSorted ==
  /\ size = Cardinality(Inserted)
  /\ \A n \in DOMAIN next : \A l \in DOMAIN next[n] :
       LET larger == {m \in Inserted : m > n /\ l <= Len(next[m])}
       IN IF larger = {} THEN next[n][l] = nil
          ELSE next[n][l] \in larger /\ \A m \in larger : next[n][l] <= m

(* A search ends at the smallest key that is not below the one looked for,
   whatever the heights; Get returns the key exactly when it was inserted. *)
FindsLeast ==
  /\ pc = "found" =>
       LET atLeast == {m \in Inserted : m >= op.key}
       IN IF atLeast = {} THEN res = nil
          ELSE res \in atLeast /\ \A m \in atLeast : res <= m
  /\ pc = "returned" => (res = op.key <=> op.key \in Inserted)

InRange(key) == key >= it.lower /\ (it.keyHigher = NoKey \/ key <= it.keyHigher)

(* An iterator returns keys of its range in ascending order, each once, and
   has returned every one that was there when it was opened by the time it
   says Done, although keys are inserted in front of it and behind it. *)
IteratorComplete ==
  /\ \A n \in 1..Len(it.out) : InRange(it.out[n]) /\ it.out[n] \in Inserted
  /\ \A n \in 2..Len(it.out) : it.out[n - 1] < it.out[n]
  /\ it.done => \A key \in before : InRange(key) => \E n \in 1..Len(it.out) : it.out[n] = key

(* Every search of a call comes to its end. *)
SearchEnds == pc = "find" ~> pc \in {"returned", "idle"}

=============================================================================
