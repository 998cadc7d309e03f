--------------------------- MODULE ContainerProofs --------------------------
(***************************************************************************)
(* The two containers of a memstore's pairs: the skip list that holds them *)
(* in memory and the table file they are flushed to.                       *)
(*                                                                         *)
(* The skip list keeps its levels in order, its searches find what is      *)
(* there, and an iterator misses nothing, for every set of keys, every     *)
(* height and every sequence of random heights.                            *)
(*                                                                         *)
(* A table that Close reports no error for reads back as what was written, *)
(* and a flush without an error has written everything, for every set of   *)
(* keys and values and any number of failed writes.                        *)
(***************************************************************************)
EXTENDS SkipList, SSTableFile, FiniteSetTheorems, TLAPS

(***************************************************************************)
(* The nodes: each has its links on the levels below its height, the head  *)
(* on all levels.                                                          *)
(***************************************************************************)
NodesTyped ==
  /\ head \in DOMAIN next /\ DOMAIN next \subseteq Nat /\ IsFiniteSet(DOMAIN next)
  /\ \A n \in DOMAIN next : next[n] \in Seq(Int) /\ Len(next[n]) \in 1..MaxHeight
  /\ Len(next[head]) = MaxHeight

(***************************************************************************)
(* What prevTable has to hold for a level: the last node in front of the   *)
(* key on it.                                                              *)
(***************************************************************************)
InFront(n, l) ==
  /\ n \in DOMAIN next /\ n < op.key /\ l <= Len(next[n])
  /\ next[n][l] = nil \/ next[n][l] >= op.key

SearchInv ==
  /\ pc \in {"idle", "find", "found", "returned"}
  /\ pc # "idle" =>
       /\ op.key \in Nat \ {0} /\ op.keyHigher \in Nat \cup {NoKey}
       /\ op.call \in {"Insert", "Get", "StartingAt", "Between"}
       /\ op.call = "Insert" => op.key \notin Inserted
  /\ pc \in {"find", "found"} => prevTable \in [1..MaxHeight -> Int]
  /\ pc = "find" =>
       /\ x \in DOMAIN next /\ x < op.key
       /\ level \in 1..MaxHeight /\ level <= Len(next[x])
       /\ \A l \in (level + 1)..MaxHeight : InFront(prevTable[l], l)
  /\ pc = "found" =>
       /\ \A l \in 1..MaxHeight : InFront(prevTable[l], l)
       /\ res = next[prevTable[1]][1]

(***************************************************************************)
(* An iterator stands in front of every key it still has to return.        *)
(***************************************************************************)
Returned(key) == \E n \in 1..Len(it.out) : it.out[n] = key

IteratorInv ==
  /\ it \in [node : Int, lower : Int, keyHigher : Int, doneNext : BOOLEAN, out : Seq(Int),
             done : BOOLEAN]
  /\ before \subseteq Inserted
  /\ it.node # nil => it.node \in Inserted /\ it.node >= it.lower
  /\ \A n \in 1..Len(it.out) :
       InRange(it.out[n]) /\ it.out[n] \in Inserted /\ (it.node # nil => it.out[n] < it.node)
  /\ \A n \in 2..Len(it.out) : it.out[n - 1] < it.out[n]
  /\ \A key \in before :
       InRange(key) => Returned(key) \/ (it.node # nil /\ it.node <= key /\ ~it.doneNext)
  /\ it.done => it.node = nil \/ it.doneNext \/ OverHigher(it.node)

SkipListInv == NodesTyped /\ LevelsSorted /\ SearchInv /\ FindsLeast /\ IteratorInv
-----------------------------------------------------------------------------
(***************************************************************************)
(* A function on 1..h is a sequence of that length.                        *)
(***************************************************************************)
LEMMA Levels ==
  ASSUME NEW h \in Nat, NEW f \in [1..h -> Int]
  PROVE  f \in Seq(Int) /\ Len(f) = h
OBVIOUS

(***************************************************************************)
(* What LevelsSorted says of a link.                                       *)
(***************************************************************************)
LEMMA LinkOf ==
  ASSUME NodesTyped, LevelsSorted, NEW n \in DOMAIN next, NEW l \in 1..Len(next[n])
  PROVE  /\ next[n][l] # nil =>
              /\ next[n][l] \in Inserted /\ next[n][l] \in Nat /\ n < next[n][l]
              /\ l <= Len(next[next[n][l]])
         /\ \A m \in Inserted : n < m /\ l <= Len(next[m]) => next[n][l] # nil /\ next[n][l] <= m
<1> DEFINE larger == {m \in Inserted : m > n /\ l <= Len(next[m])}
<1>1. IF larger = {} THEN next[n][l] = nil
      ELSE next[n][l] \in larger /\ \A m \in larger : next[n][l] <= m
  BY DEF LevelsSorted, NodesTyped
<1>2. \A m \in larger : m \in Nat /\ m # nil /\ m \in Inserted /\ n < m /\ l <= Len(next[m])
  BY DEF NodesTyped, Inserted, nil
<1>3. \A m \in Inserted : n < m /\ l <= Len(next[m]) => m \in larger
  BY DEF NodesTyped, Inserted
<1> HIDE DEF larger
<1> QED BY <1>1, <1>2, <1>3

(***************************************************************************)
(* A call that does not touch the nodes leaves the levels sorted, and one  *)
(* that touches neither them nor the iterator leaves it in front of what   *)
(* it has to return.                                                       *)
(***************************************************************************)
LEMMA NodesStay ==
  ASSUME NodesTyped, LevelsSorted, next' = next, size' = size
  PROVE  NodesTyped' /\ LevelsSorted'
BY Zenon DEF NodesTyped, LevelsSorted, Inserted, head

(***************************************************************************)
(* A step that leaves the nodes and the iterator alone keeps what holds of *)
(* the iterator.                                                           *)
(***************************************************************************)
LEMMA IteratorStays ==
  ASSUME IteratorInv, next' = next, UNCHANGED iteration
  PROVE  IteratorInv'
BY Zenon DEF IteratorInv, Inserted, head, iteration, InRange, OverHigher, Returned, nil, NoKey

(***************************************************************************)
(* findGreaterOrEqual starts at the head on the top level.                 *)
(***************************************************************************)
LEMMA FindStep ==
  ASSUME SkipListInv, NEW call \in {"Insert", "Get", "StartingAt", "Between"},
         NEW key \in Nat \ {0}, NEW keyHigher \in Nat \cup {NoKey}, Find(call, key, keyHigher),
         call = "Insert" => key \notin Inserted
  PROVE  SkipListInv'
<1>1. NodesTyped' /\ LevelsSorted'
  BY NodesStay DEF SkipListInv, Find
<1>2. IteratorInv'
  BY IteratorStays DEF SkipListInv, Find
<1>3. SearchInv'
  BY SkipListAssumption DEF SkipListInv, SearchInv, NodesTyped, Find, Inserted, head, InFront, nil
<1>4. FindsLeast'
  BY DEF Find, FindsLeast
<1> QED BY <1>1, <1>2, <1>3, <1>4 DEF SkipListInv

(***************************************************************************)
(* findGreaterOrEqual goes on to the next node of its level.               *)
(***************************************************************************)
LEMMA ForwardStep ==
  ASSUME SkipListInv, Forward
  PROVE  SkipListInv'
<1>1. NodesTyped' /\ LevelsSorted'
  BY NodesStay DEF SkipListInv, Forward
<1>2. IteratorInv'
  BY IteratorStays DEF SkipListInv, Forward
<1>3. /\ x' \in DOMAIN next /\ x' < op.key /\ level <= Len(next[x'])
  BY LinkOf DEF SkipListInv, SearchInv, NodesTyped, Forward, After, Inserted
<1>4. SearchInv'
  BY <1>3 DEF SkipListInv, SearchInv, Forward, Inserted, head, InFront
<1>5. FindsLeast'
  BY DEF Forward, FindsLeast
<1> QED BY <1>1, <1>2, <1>4, <1>5 DEF SkipListInv

(***************************************************************************)
(* A level is left at the last node in front of the key.                   *)
(***************************************************************************)
LEMMA LeavesLevel ==
  ASSUME SkipListInv, pc = "find", ~After(op.key, next[x][level])
  PROVE  InFront(x, level)
BY DEF SkipListInv, SearchInv, NodesTyped, InFront, After, nil

(***************************************************************************)
(* findGreaterOrEqual leaves a level for the one below.                    *)
(***************************************************************************)
LEMMA DownStep ==
  ASSUME SkipListInv, Down
  PROVE  SkipListInv'
<1>1. NodesTyped' /\ LevelsSorted'
  BY NodesStay DEF SkipListInv, Down
<1>2. IteratorInv'
  BY IteratorStays DEF SkipListInv, Down
<1>3. prevTable' \in [1..MaxHeight -> Int] /\ level' \in 1..MaxHeight /\ level' <= Len(next[x])
  <2>1. /\ x \in DOMAIN next /\ level \in 1..MaxHeight /\ level <= Len(next[x]) /\ level > 1
        /\ prevTable \in [1..MaxHeight -> Int] /\ MaxHeight \in Nat
    BY SkipListAssumption DEF SkipListInv, SearchInv, Down
  <2>2. x \in Int /\ Len(next[x]) \in Nat
    BY <2>1 DEF SkipListInv, NodesTyped
  <2> QED BY <2>1, <2>2 DEF Down
<1>4. \A l \in (level' + 1)..MaxHeight : InFront(prevTable'[l], l)
  <2>1. InFront(x, level)
    BY LeavesLevel DEF Down
  <2>2. /\ level \in 1..MaxHeight /\ MaxHeight \in Nat /\ prevTable \in [1..MaxHeight -> Int]
        /\ \A l \in (level + 1)..MaxHeight : InFront(prevTable[l], l)
    BY SkipListAssumption DEF SkipListInv, SearchInv, Down
  <2>3. level' = level - 1 /\ prevTable' = [prevTable EXCEPT ![level] = x]
    BY DEF Down
  <2> QED BY <2>1, <2>2, <2>3
<1>5. SearchInv'
  BY <1>3, <1>4 DEF SkipListInv, SearchInv, Down, Inserted, head, InFront
<1>6. FindsLeast'
  BY DEF Down, FindsLeast
<1> QED BY <1>1, <1>2, <1>5, <1>6 DEF SkipListInv

(***************************************************************************)
(* On the lowest level, which has every node, the node behind the last one *)
(* in front of the key is the smallest that is not below it.               *)
(***************************************************************************)
LEMMA BottomStep ==
  ASSUME SkipListInv, Bottom
  PROVE  SkipListInv'
<1>1. NodesTyped' /\ LevelsSorted'
  BY NodesStay DEF SkipListInv, Bottom
<1>2. IteratorInv'
  BY IteratorStays DEF SkipListInv, Bottom
<1>3. InFront(x, 1)
  BY LeavesLevel DEF Bottom
<1>4. \A l \in 1..MaxHeight : InFront(prevTable'[l], l)
  BY <1>3 DEF SkipListInv, SearchInv, Bottom
<1>5. prevTable' \in [1..MaxHeight -> Int] /\ res' = next[prevTable'[1]][1]
  BY SkipListAssumption DEF SkipListInv, SearchInv, NodesTyped, Bottom
<1>6. SearchInv'
  BY <1>4, <1>5 DEF SkipListInv, SearchInv, Bottom, Inserted, head, InFront
<1>7. /\ res' # nil => res' \in Inserted /\ res' >= op.key
      /\ \A m \in Inserted : m >= op.key => res' # nil /\ res' <= m
  <2>1. x \in DOMAIN next /\ x \in Nat /\ 1 \in 1..Len(next[x]) /\ op.key \in Nat /\ x < op.key
    BY DEF SkipListInv, SearchInv, NodesTyped, Bottom
  <2>2. \A m \in Inserted : m \in Nat /\ 1 <= Len(next[m])
    BY DEF SkipListInv, NodesTyped, Inserted
  <2>3. res' = next[x][1] /\ (next[x][1] = nil \/ next[x][1] >= op.key)
    BY <1>3 DEF Bottom, InFront
  <2>4. \A m \in Inserted : m >= op.key => x < m
    BY <2>1, <2>2
  <2> QED BY <2>1, <2>2, <2>3, <2>4, LinkOf DEF SkipListInv
<1>8. FindsLeast'
  <2>1. pc' = "found" /\ op' = op /\ next' = next
    BY DEF Bottom
  <2>2. Inserted' = Inserted
    BY <2>1 DEF Inserted, head
  <2>3. LET atLeast == {m \in Inserted : m >= op.key}
        IN IF atLeast = {} THEN res' = nil ELSE res' \in atLeast /\ \A m \in atLeast : res' <= m
    BY <1>7
  <2> QED BY <2>1, <2>2, <2>3 DEF FindsLeast, nil
<1> QED BY <1>1, <1>2, <1>6, <1>8 DEF SkipListInv

(***************************************************************************)
(* A link that leads to a larger node of the level, and to none behind     *)
(* another such node, leads to the smallest of them.                       *)
(***************************************************************************)
LEMMA SmallestLink ==
  ASSUME NEW nodes, NEW to,
         to # nil => to \in nodes,
         \A m \in nodes : to # nil /\ to <= m
  PROVE  IF nodes = {} THEN to = nil ELSE to \in nodes /\ \A m \in nodes : to <= m
OBVIOUS

(***************************************************************************)
(* Insert puts the new node behind the last smaller one on each of its     *)
(* levels; a level below it that it does not link to ends in front of it   *)
(* or leads to a node in between.                                          *)
(***************************************************************************)
LEMMA InsertLinksStep ==
  ASSUME SkipListInv, InsertLinks
  PROVE  SkipListInv'
<1> DEFINE k == op.key
<1>1. PICK h \in 1..MaxHeight : next' = Linked(h)
  BY DEF InsertLinks
<1>2. /\ k \in Nat /\ k \notin DOMAIN next /\ MaxHeight \in Nat
      /\ \A l \in 1..MaxHeight : InFront(prevTable[l], l) /\ prevTable[l] \in Int
  BY SkipListAssumption DEF SkipListInv, SearchInv, InsertLinks, Inserted, head
<1>3. /\ DOMAIN next \subseteq Nat /\ head \in DOMAIN next /\ IsFiniteSet(DOMAIN next)
      /\ \A n \in DOMAIN next : next[n] \in Seq(Int) /\ Len(next[n]) \in 1..MaxHeight
      /\ Len(next[head]) = MaxHeight
  BY DEF SkipListInv, NodesTyped
<1>4. DOMAIN next' = DOMAIN next \cup {k} /\ Inserted' = Inserted \cup {k}
  BY <1>1, <1>2, <1>3 DEF Linked, Inserted, head
<1>5. /\ next'[k] \in Seq(Int) /\ Len(next'[k]) = h
      /\ \A l \in 1..h : next'[k][l] = next[prevTable[l]][l]
  <2>1. next'[k] = [l \in 1..h |-> next[prevTable[l]][l]]
    BY <1>1, <1>2, <1>4 DEF Linked
  <2>2. \A l \in 1..h : next[prevTable[l]][l] \in Int
    <3> SUFFICES ASSUME NEW l \in 1..h PROVE next[prevTable[l]][l] \in Int
      OBVIOUS
    <3>1. l \in 1..MaxHeight
      BY <1>2
    <3>2. prevTable[l] \in DOMAIN next /\ l <= Len(next[prevTable[l]])
      BY <3>1, <1>2 DEF InFront
    <3> QED BY <3>1, <3>2, <1>3
  <2>3. h \in Nat /\ next'[k] \in [1..h -> Int]
    BY <2>1, <2>2, <1>2
  <2> QED BY <2>1, <2>3, Levels
<1>6. ASSUME NEW n \in DOMAIN next
      PROVE  /\ next'[n] \in Seq(Int) /\ Len(next'[n]) = Len(next[n])
             /\ \A l \in 1..Len(next[n]) :
                  next'[n][l] = IF l <= h /\ prevTable[l] = n THEN k ELSE next[n][l]
  <2>1. n # k /\ DOMAIN next[n] = 1..Len(next[n])
    BY <1>2, <1>3
  <2>2. next'[n] = [l \in 1..Len(next[n]) |->
                      IF l <= h /\ prevTable[l] = n THEN k ELSE next[n][l]]
    BY <1>1, <2>1 DEF Linked
  <2>3. Len(next[n]) \in Nat /\ next'[n] \in [1..Len(next[n]) -> Int]
    BY <2>2, <1>2, <1>3
  <2> QED BY <2>2, <2>3, Levels
<1>7. NodesTyped'
  <2>1. IsFiniteSet(DOMAIN next')
    BY <1>3, <1>4, FS_AddElement
  <2> QED BY <2>1, <1>2, <1>3, <1>4, <1>5, <1>6 DEF NodesTyped, head
<1>8. size' = Cardinality(Inserted')
  <2>1. IsFiniteSet(Inserted) /\ k \notin Inserted
    BY <1>2, <1>3, FS_Subset DEF Inserted
  <2> QED BY <2>1, <1>4, FS_AddElement, Zenon DEF SkipListInv, LevelsSorted, InsertLinks
<1>9. ASSUME NEW n \in DOMAIN next, NEW l \in 1..Len(next[n])
      PROVE  /\ next'[n][l] # nil =>
                  /\ next'[n][l] \in Inserted' /\ n < next'[n][l]
                  /\ l <= Len(next'[next'[n][l]])
             /\ \A m \in Inserted' :
                  n < m /\ l <= Len(next'[m]) => next'[n][l] # nil /\ next'[n][l] <= m
  <2>1. /\ next[n][l] # nil =>
             /\ next[n][l] \in Inserted /\ next[n][l] \in Nat /\ n < next[n][l]
             /\ l <= Len(next[next[n][l]])
        /\ \A m \in Inserted : n < m /\ l <= Len(next[m]) => next[n][l] # nil /\ next[n][l] <= m
    BY LinkOf DEF SkipListInv
  <2>2. n \in Nat /\ l \in 1..MaxHeight /\ nil \notin Nat
    BY <1>3 DEF nil
  <2>3. \A m \in Inserted : m \in Nat /\ Len(next'[m]) = Len(next[m])
    BY <1>3, <1>6, Zenon DEF Inserted
  <2>4. CASE l <= h /\ prevTable[l] = n
    <3>1. next'[n][l] = k /\ n < k /\ (next[n][l] = nil \/ next[n][l] >= k)
      BY <2>4, <1>6, <1>2, <2>2 DEF InFront
    <3>2. \A m \in Inserted : n < m /\ l <= Len(next[m]) => k <= m
      BY <3>1, <2>1, <2>3, <1>2
    <3> QED BY <3>1, <3>2, <2>2, <2>3, <2>4, <1>2, <1>4, <1>5
  <2>5. CASE ~(l <= h /\ prevTable[l] = n)
    <3>1. next'[n][l] = next[n][l]
      BY <2>5, <1>6
    <3>2. next[n][l] # nil => /\ next[n][l] \in Inserted' /\ n < next[n][l]
                              /\ l <= Len(next'[next[n][l]])
      BY <2>1, <2>3, <1>4
    <3>3. ASSUME n < k, l <= h
          PROVE  next[n][l] # nil /\ next[n][l] <= k
      <4> DEFINE p == prevTable[l]
      <4>1. /\ p \in DOMAIN next /\ p < k /\ l <= Len(next[p]) /\ p # n /\ p \in Nat
            /\ next[p][l] = nil \/ next[p][l] >= k
        BY <3>3, <2>5, <2>2, <1>2, <1>3, Zenon DEF InFront
      <4> HIDE DEF p
      <4>2. CASE n < p
        <5>1. p \in Inserted
          BY <4>1, <4>2, <2>2 DEF Inserted, head
        <5> QED BY <5>1, <4>1, <4>2, <2>1, <1>2
      <4>3. CASE p < n
        <5>1. n \in Inserted /\ l \in 1..Len(next[p])
          BY <4>1, <4>3, <2>2 DEF Inserted, head
        <5>2. next[p][l] # nil /\ next[p][l] <= n /\ next[p][l] \in Nat
          BY <5>1, <4>1, <4>3, LinkOf DEF SkipListInv
        <5>3. k \in Int /\ n \in Int /\ n < k
          BY <3>3, <2>2, <1>2
        <5>4. next[p][l] >= k
          BY <5>2, <4>1, Zenon
        <5> QED BY <5>2, <5>3, <5>4
      <4> QED BY <4>1, <4>2, <4>3, <2>2
    <3> QED BY <3>1, <3>2, <3>3, <2>1, <2>3, <1>4, <1>5
  <2> QED BY <2>4, <2>5
<1>10. ASSUME NEW l \in 1..h
       PROVE  /\ next'[k][l] # nil =>
                   /\ next'[k][l] \in Inserted' /\ k < next'[k][l]
                   /\ l <= Len(next'[next'[k][l]])
              /\ \A m \in Inserted' :
                   k < m /\ l <= Len(next'[m]) => next'[k][l] # nil /\ next'[k][l] <= m
  <2> DEFINE p == prevTable[l]
  <2>1. /\ p \in DOMAIN next /\ p < k /\ l \in 1..Len(next[p]) /\ p \in Nat
        /\ next[p][l] = nil \/ next[p][l] >= k
        /\ next'[k][l] = next[p][l]
    <3>1. l \in 1..MaxHeight
      BY <1>2
    <3>2. /\ p \in DOMAIN next /\ p < k /\ l <= Len(next[p])
          /\ next[p][l] = nil \/ next[p][l] >= k
      BY <3>1, <1>2 DEF InFront
    <3> QED BY <3>1, <3>2, <1>3, <1>5
  <2> HIDE DEF p
  <2>2. /\ next[p][l] # nil =>
             /\ next[p][l] \in Inserted /\ next[p][l] \in Nat /\ p < next[p][l]
             /\ l <= Len(next[next[p][l]])
        /\ \A m \in Inserted : p < m /\ l <= Len(next[m]) => next[p][l] # nil /\ next[p][l] <= m
    BY <2>1, LinkOf, Zenon DEF SkipListInv
  <2>3. \A m \in Inserted : m \in Nat /\ Len(next'[m]) = Len(next[m]) /\ m # k
    BY <1>2, <1>3, <1>6 DEF Inserted
  <2>4. \A m \in Inserted : k < m => p < m
    BY <2>1, <2>3, <1>2
  <2> QED BY <2>1, <2>2, <2>3, <2>4, <1>2, <1>4
<1>11. LevelsSorted'
  <2>1. ASSUME NEW n \in DOMAIN next', NEW l \in 1..Len(next'[n])
        PROVE  /\ next'[n][l] # nil =>
                    /\ next'[n][l] \in Inserted' /\ n < next'[n][l]
                    /\ l <= Len(next'[next'[n][l]])
               /\ \A m \in Inserted' :
                    n < m /\ l <= Len(next'[m]) => next'[n][l] # nil /\ next'[n][l] <= m
    <3>1. CASE n = k
      BY <3>1, <1>5, <1>10
    <3>2. CASE n \in DOMAIN next
      BY <3>2, <1>6, <1>9, Zenon
    <3> QED BY <3>1, <3>2, <1>4
  <2>2. ASSUME NEW n \in DOMAIN next', NEW l \in 1..Len(next'[n])
        PROVE  LET larger == {m \in Inserted' : m > n /\ l <= Len(next'[m])}
               IN IF larger = {} THEN next'[n][l] = nil
                  ELSE next'[n][l] \in larger /\ \A m \in larger : next'[n][l] <= m
    <3> DEFINE larger == {m \in Inserted' : m > n /\ l <= Len(next'[m])}
    <3>1. n \in Int /\ \A m \in Inserted' : m \in Int
      BY <1>7 DEF NodesTyped, Inserted
    <3>2. next'[n][l] # nil => next'[n][l] \in larger
      BY <2>1, <3>1
    <3>3. \A m \in larger : next'[n][l] # nil /\ next'[n][l] <= m
      BY <2>1, <3>1
    <3> HIDE DEF larger
    <3>4. IF larger = {} THEN next'[n][l] = nil
          ELSE next'[n][l] \in larger /\ \A m \in larger : next'[n][l] <= m
      BY <3>2, <3>3, SmallestLink
    <3> QED BY <3>4 DEF larger
  <2>3. \A n \in DOMAIN next' : DOMAIN next'[n] = 1..Len(next'[n])
    BY <1>7 DEF NodesTyped
  <2> QED BY <2>2, <2>3, <1>8 DEF LevelsSorted, nil
<1>12. IteratorInv'
  BY <1>4 DEF SkipListInv, IteratorInv, InsertLinks, iteration, InRange, OverHigher, Returned, nil,
              NoKey
<1>13. SearchInv' /\ FindsLeast'
  BY DEF InsertLinks, Idle, SearchInv, FindsLeast
<1> QED BY <1>7, <1>11, <1>12, <1>13 DEF SkipListInv

(***************************************************************************)
(* Get compares the node that the search ended at with its key.            *)
(***************************************************************************)
LEMMA GetReturnsStep ==
  ASSUME SkipListInv, GetReturns
  PROVE  SkipListInv'
<1>1. NodesTyped' /\ LevelsSorted'
  BY NodesStay DEF SkipListInv, GetReturns
<1>2. IteratorInv'
  BY IteratorStays DEF SkipListInv, GetReturns
<1>3. SearchInv'
  BY DEF SkipListInv, SearchInv, GetReturns, Inserted, head
<1>4. FindsLeast'
  <2>1. pc = "found" /\ pc' = "returned" /\ op' = op /\ Inserted' = Inserted
    BY DEF GetReturns, Inserted, head
  <2>2. op.key \in Nat \ {0} /\ \A m \in Inserted : m \in Nat
    BY <2>1 DEF SkipListInv, SearchInv, NodesTyped, Inserted
  <2>3. op.key \in Inserted <=> res = op.key
    BY <2>1, <2>2 DEF SkipListInv, FindsLeast, nil
  <2>4. res' = op.key <=> res = op.key
    BY <2>2 DEF GetReturns, Equal, nil, NoKey
  <2> QED BY <2>1, <2>3, <2>4 DEF FindsLeast
<1> QED BY <1>1, <1>2, <1>3, <1>4 DEF SkipListInv

(***************************************************************************)
(* A call that has its result returns; the list is as before.              *)
(***************************************************************************)
LEMMA ReturnStep ==
  ASSUME SkipListInv, Return
  PROVE  SkipListInv'
<1>1. NodesTyped' /\ LevelsSorted'
  BY NodesStay DEF SkipListInv, Return
<1>2. IteratorInv'
  BY IteratorStays DEF SkipListInv, Return
<1>3. SearchInv' /\ FindsLeast'
  BY DEF Return, Idle, SearchInv, FindsLeast
<1> QED BY <1>1, <1>2, <1>3 DEF SkipListInv

(***************************************************************************)
(* An iterator opens on the smallest key of its range.                     *)
(***************************************************************************)
LEMMA OpensInFront ==
  ASSUME SkipListInv, next' = next, NEW node \in Int, NEW lower \in Int, NEW keyHigher \in Int,
         NewIterator(node, lower, keyHigher),
         node # nil => node \in Inserted /\ node >= lower,
         \A m \in Inserted : m >= lower => node # nil /\ node <= m
  PROVE  IteratorInv'
<1>1. /\ it' = [node |-> node, lower |-> lower, keyHigher |-> keyHigher, doneNext |-> FALSE,
                out |-> <<>>, done |-> FALSE]
      /\ before' = Inserted /\ Inserted' = Inserted
  BY Zenon DEF NewIterator, NoIterator, Inserted, head
<1>2. /\ it' \in [node : Int, lower : Int, keyHigher : Int, doneNext : BOOLEAN, out : Seq(Int),
                  done : BOOLEAN]
      /\ Len(it'.out) = 0
  BY <1>1
<1>3. \A key \in before' : key >= lower => node # nil /\ node <= key
  BY <1>1
<1> QED BY <1>1, <1>2, <1>3 DEF IteratorInv, InRange, nil

(***************************************************************************)
(* Iterator opens at the first node, with all keys still to return.        *)
(***************************************************************************)
LEMMA IteratorStep ==
  ASSUME SkipListInv, Iterator
  PROVE  SkipListInv'
<1>1. NodesTyped' /\ LevelsSorted'
  BY NodesStay DEF SkipListInv, Iterator
<1>2. SearchInv' /\ FindsLeast'
  BY DEF SkipListInv, SearchInv, FindsLeast, Iterator, search, Inserted, head, nil, InFront
<1>3. IteratorInv'
  <2>1. head \in DOMAIN next /\ 1 \in 1..Len(next[head]) /\ next[head][1] \in Int
    BY SkipListAssumption DEF SkipListInv, NodesTyped
  <2>2. \A m \in Inserted : m \in Nat /\ head < m /\ 1 <= Len(next[m])
    BY DEF SkipListInv, NodesTyped, Inserted, head
  <2>3. /\ next[head][1] # nil => next[head][1] \in Inserted
        /\ \A m \in Inserted : next[head][1] # nil /\ next[head][1] <= m
    BY <2>1, <2>2, LinkOf DEF SkipListInv
  <2>4. NewIterator(next[head][1], NoKey, NoKey) /\ next' = next
    BY DEF Iterator
  <2>5. next[head][1] # nil => next[head][1] >= NoKey
    BY <2>2, <2>3 DEF NoKey
  <2>6. NoKey \in Int
    BY DEF NoKey
  <2> QED BY <2>1, <2>3, <2>4, <2>5, <2>6, OpensInFront
<1> QED BY <1>1, <1>2, <1>3 DEF SkipListInv

(***************************************************************************)
(* IteratorStartingAt and IteratorBetween open at the node their search    *)
(* found.                                                                  *)
(***************************************************************************)
LEMMA IteratorOpensStep ==
  ASSUME SkipListInv, IteratorOpens
  PROVE  SkipListInv'
<1>1. NodesTyped' /\ LevelsSorted'
  BY NodesStay DEF SkipListInv, IteratorOpens
<1>2. SearchInv' /\ FindsLeast'
  BY DEF IteratorOpens, Idle, SearchInv, FindsLeast
<1>3. IteratorInv'
  <2>1. /\ op.key \in Int /\ op.keyHigher \in Int /\ \A m \in Inserted : m \in Nat
        /\ NewIterator(res, op.key, op.keyHigher) /\ next' = next /\ pc = "found"
    BY DEF SkipListInv, SearchInv, NodesTyped, Inserted, IteratorOpens, NoKey
  <2>2. /\ res # nil => res \in Inserted /\ res >= op.key
        /\ \A m \in Inserted : m >= op.key => res # nil /\ res <= m
    BY <2>1 DEF SkipListInv, FindsLeast, nil
  <2>3. res \in Int
    BY <2>1, <2>2 DEF nil
  <2> QED BY <2>1, <2>2, <2>3, OpensInFront
<1> QED BY <1>1, <1>2, <1>3 DEF SkipListInv

(***************************************************************************)
(* Next returns the node it stands at, if that is not over the range, and  *)
(* moves to the next larger key there is by then: what it passes over was  *)
(* returned, or is over the range.                                         *)
(***************************************************************************)
LEMMA IteratorNextStep ==
  ASSUME SkipListInv, IteratorNext
  PROVE  SkipListInv'
<1> DEFINE node == it.node
           nx == next[node][1]
<1>1. NodesTyped' /\ LevelsSorted'
  BY NodesStay DEF SkipListInv, IteratorNext
<1>2. SearchInv' /\ FindsLeast'
  BY DEF SkipListInv, SearchInv, FindsLeast, IteratorNext, search, Inserted, head, nil, InFront
<1>3. IteratorInv
  BY DEF SkipListInv
<1>4. /\ it \in [node : Int, lower : Int, keyHigher : Int, doneNext : BOOLEAN, out : Seq(Int),
                 done : BOOLEAN]
      /\ node \in Inserted /\ node >= it.lower /\ node # nil /\ ~it.doneNext
      /\ before \subseteq Inserted /\ before' = before /\ Inserted' = Inserted
  BY <1>3 DEF IteratorInv, IteratorNext, Inserted, head
<1>5. /\ node \in DOMAIN next /\ node \in Nat /\ 1 \in 1..Len(next[node]) /\ nx \in Int
      /\ \A m \in Inserted : m \in Nat /\ 1 <= Len(next[m])
  BY <1>4 DEF SkipListInv, NodesTyped, Inserted
<1>6. /\ nx # nil => nx \in Inserted /\ node < nx
      /\ \A m \in Inserted : node < m => nx # nil /\ nx <= m
  BY <1>5, LinkOf DEF SkipListInv
<1>7. /\ it'.node = nx /\ it'.lower = it.lower /\ it'.keyHigher = it.keyHigher
      /\ it'.doneNext = (node = it.keyHigher) /\ it'.done = OverHigher(node)
      /\ it'.out = IF OverHigher(node) THEN it.out ELSE Append(it.out, node)
      /\ it' \in [node : Int, lower : Int, keyHigher : Int, doneNext : BOOLEAN, out : Seq(Int),
                  done : BOOLEAN]
  <2> DEFINE out == IF OverHigher(node) THEN it.out ELSE Append(it.out, node)
  <2>1. it' = [it EXCEPT !.node = nx, !.doneNext = (node = it.keyHigher), !.out = out,
                         !.done = OverHigher(node)]
    BY <1>4 DEF IteratorNext
  <2>2. nx \in Int /\ node \in Int /\ it.keyHigher \in Int /\ OverHigher(node) \in BOOLEAN
    BY <1>4, <1>5 DEF OverHigher
  <2>3. out \in Seq(Int)
    BY <2>2, <1>4
  <2> HIDE DEF out, nx, node
  <2>4. /\ it'.node = nx /\ it'.lower = it.lower /\ it'.keyHigher = it.keyHigher
        /\ it'.doneNext = (node = it.keyHigher) /\ it'.done = OverHigher(node)
        /\ it'.out = out
        /\ it' \in [node : Int, lower : Int, keyHigher : Int, doneNext : BOOLEAN, out : Seq(Int),
                    done : BOOLEAN]
    BY <2>1, <2>2, <2>3, <1>4, Zenon
  <2> QED BY <2>4 DEF out
<1> HIDE DEF node, nx
<1>8. nx # nil => nx \in Inserted' /\ nx >= it.lower
  BY <1>4, <1>5, <1>6
<1>9. \A n \in 1..Len(it.out) : /\ InRange(it.out[n]) /\ it.out[n] \in Inserted
                                /\ it.out[n] < node
  BY <1>3, <1>4 DEF IteratorInv, node
<1>10. it'.lower = it.lower /\ it'.keyHigher = it.keyHigher
  BY <1>7
<1>11. it'.done => it'.node = nil \/ OverHigher(it.node)'
  BY <1>4, <1>5, <1>6, <1>7 DEF OverHigher
<1>12. CASE OverHigher(node)
  <2>1. it'.out = it.out
    BY <1>7, <1>12
  <2>2. \A n \in 1..Len(it.out) : nx # nil => it.out[n] < nx
    BY <1>4, <1>5, <1>6, <1>9
  <2>3. ASSUME NEW key \in before, InRange(key)
        PROVE  \E n \in 1..Len(it.out) : it.out[n] = key
    <3>1. Returned(key) \/ node <= key
      BY <2>3, <1>3 DEF IteratorInv, node
    <3>2. ~(node <= key)
      BY <2>3, <1>4, <1>5, <1>12 DEF InRange, OverHigher
    <3> QED BY <3>1, <3>2 DEF Returned
  <2>4. \A n \in 2..Len(it.out) : it.out[n - 1] < it.out[n]
    BY <1>3 DEF IteratorInv
  <2>5. IteratorInv'
    BY <2>1, <2>2, <2>3, <2>4, <1>4, <1>7, <1>8, <1>9, <1>10, <1>11
    DEF IteratorInv, Returned, InRange, nil
  <2> QED BY <2>5, <1>1, <1>2 DEF SkipListInv
<1>13. CASE ~OverHigher(node)
  <2> DEFINE len == Len(it.out)
  <2>1. /\ it'.out = Append(it.out, node) /\ Len(it'.out) = len + 1 /\ it'.out[len + 1] = node
        /\ len \in Nat /\ \A n \in 1..len : it'.out[n] = it.out[n]
    BY <1>4, <1>5, <1>7, <1>13
  <2> HIDE DEF len
  <2>2. InRange(node)
    BY <1>4, <1>5, <1>13 DEF InRange, OverHigher, NoKey
  <2>3. \A n \in 1..Len(it'.out) : /\ InRange(it.out[n])' /\ it'.out[n] \in Inserted'
                                   /\ nx # nil => it'.out[n] < nx
    <3> SUFFICES ASSUME NEW n \in 1..(len + 1)
                 PROVE  /\ InRange(it'.out[n]) /\ it'.out[n] \in Inserted
                        /\ nx # nil => it'.out[n] < nx
      BY <2>1, <1>4, <1>10 DEF InRange
    <3>1. CASE n = len + 1
      BY <3>1, <2>1, <2>2, <1>4, <1>6
    <3>2. CASE n \in 1..len
      <4>1. it'.out[n] = it.out[n] /\ InRange(it.out[n]) /\ it.out[n] \in Inserted
            /\ it.out[n] < node
        BY <3>2, <2>1, <1>9 DEF len
      <4> QED BY <4>1, <1>5, <1>6
    <3> QED BY <3>1, <3>2, <2>1
  <2>4. \A n \in 2..Len(it'.out) : it'.out[n - 1] < it'.out[n]
    <3> SUFFICES ASSUME NEW n \in 2..(len + 1)
                 PROVE  it'.out[n - 1] < it'.out[n]
      BY <2>1
    <3>1. CASE n = len + 1
      BY <3>1, <2>1, <1>9 DEF len
    <3>2. CASE n \in 2..len
      BY <3>2, <2>1, <1>3 DEF IteratorInv, len
    <3> QED BY <3>1, <3>2, <2>1
  <2>5. ASSUME NEW key \in before, InRange(key)
        PROVE  (\E n \in 1..Len(it'.out) : it'.out[n] = key)
               \/ (nx # nil /\ nx <= key /\ ~it'.doneNext)
    <3>1. Returned(key) \/ node <= key
      BY <2>5, <1>3 DEF IteratorInv, node
    <3>2. CASE Returned(key)
      BY <3>2, <2>1 DEF Returned, len
    <3>3. CASE node = key
      BY <3>3, <2>1
    <3>4. CASE node < key
      <4>1. nx # nil /\ nx <= key
        BY <3>4, <1>4, <1>6
      <4>2. node # it.keyHigher
        BY <3>4, <2>5, <1>4, <1>5 DEF InRange, NoKey
      <4> QED BY <4>1, <4>2, <1>7
    <3> QED BY <3>1, <3>2, <3>3, <3>4, <1>4, <1>5
  <2>6. IteratorInv'
    BY <2>3, <2>4, <2>5, <1>4, <1>7, <1>8, <1>10, <1>11, Zenon
    DEF IteratorInv, Returned, InRange, nil
  <2> QED BY <2>6, <1>1, <1>2 DEF SkipListInv
<1> QED BY <1>12, <1>13

(***************************************************************************)
(* Next answers Done at the end of the list or of the range.               *)
(***************************************************************************)
LEMMA IteratorDoneStep ==
  ASSUME SkipListInv, IteratorDone
  PROVE  SkipListInv'
<1>1. NodesTyped' /\ LevelsSorted'
  BY NodesStay DEF SkipListInv, IteratorDone
<1>2. SearchInv' /\ FindsLeast'
  BY DEF SkipListInv, SearchInv, FindsLeast, IteratorDone, search, Inserted, head, nil, InFront
<1>3. IteratorInv
  BY DEF SkipListInv
<1>4. it \in [node : Int, lower : Int, keyHigher : Int, doneNext : BOOLEAN, out : Seq(Int),
              done : BOOLEAN]
  BY <1>3 DEF IteratorInv
<1>5. /\ it' \in [node : Int, lower : Int, keyHigher : Int, doneNext : BOOLEAN, out : Seq(Int),
                  done : BOOLEAN]
      /\ it'.node = it.node /\ it'.lower = it.lower /\ it'.keyHigher = it.keyHigher
      /\ it'.doneNext = it.doneNext /\ it'.out = it.out
      /\ before' = before /\ Inserted' = Inserted /\ (it.node = nil \/ it.doneNext)
  BY <1>4, Zenon DEF IteratorDone, Inserted, head
<1>6. IteratorInv'
  BY <1>3, <1>5 DEF IteratorInv, InRange, Returned, nil
<1> QED BY <1>1, <1>2, <1>6 DEF SkipListInv
-----------------------------------------------------------------------------
(***************************************************************************)
(* NewSkipListMap returns a list that is in order.                         *)
(***************************************************************************)
LEMMA EmptyList == Init => SkipListInv
<1> SUFFICES ASSUME Init PROVE SkipListInv
  OBVIOUS
<1>1. /\ DOMAIN next = {head} /\ Inserted = {}
      /\ next[head] \in Seq(Int) /\ Len(next[head]) = MaxHeight
      /\ \A l \in 1..MaxHeight : next[head][l] = nil
  <2>1. next[head] \in [1..MaxHeight -> Int]
    BY DEF Init, nil
  <2> QED BY <2>1, Levels, SkipListAssumption DEF Init, Inserted
<1>2. NodesTyped
  <2>1. IsFiniteSet({head}) /\ head \in Nat /\ MaxHeight \in 1..MaxHeight
    BY SkipListAssumption, FS_Singleton DEF head
  <2> QED BY <2>1, <1>1 DEF NodesTyped
<1>3. LevelsSorted
  BY <1>1, FS_EmptySet DEF LevelsSorted, Init
<1>4. SearchInv /\ FindsLeast
  BY DEF SearchInv, FindsLeast, Init
<1>5. IteratorInv
  BY DEF IteratorInv, Init, NoIterator, nil, NoKey
<1> QED BY <1>2, <1>3, <1>4, <1>5 DEF SkipListInv

(***************************************************************************)
(* Every step of every call keeps the list in order.                       *)
(***************************************************************************)
LEMMA SkipListStep == SkipListInv /\ [Next]_vars => SkipListInv'
<1> SUFFICES ASSUME SkipListInv, [Next]_vars PROVE SkipListInv'
  OBVIOUS
<1>1. CASE UNCHANGED vars
  <2>1. NodesTyped' /\ LevelsSorted'
    BY <1>1, NodesStay DEF SkipListInv, vars
  <2>2. IteratorInv'
    BY <1>1, IteratorStays DEF SkipListInv, vars
  <2>3. SearchInv' /\ FindsLeast'
    BY <1>1 DEF SkipListInv, SearchInv, FindsLeast, vars, search, Inserted, head, nil, InFront
  <2> QED BY <2>1, <2>2, <2>3 DEF SkipListInv
<1>2. CASE Walk
  BY <1>2, ForwardStep, DownStep, BottomStep DEF Walk
<1>3. CASE Answer
  BY <1>3, InsertLinksStep, GetReturnsStep, ReturnStep, IteratorOpensStep DEF Answer
<1>4. ASSUME NEW key \in Keys, Insert(key) PROVE SkipListInv'
  BY <1>4, FindStep, SkipListAssumption, Zenon DEF Insert
<1>5. ASSUME NEW key \in Targets, Get(key) \/ IteratorStartingAt(key) PROVE SkipListInv'
  BY <1>5, FindStep, SkipListAssumption, Zenon DEF Get, IteratorStartingAt
<1>6. ASSUME NEW keyLower \in Targets, NEW keyHigher \in Targets,
             IteratorBetween(keyLower, keyHigher)
      PROVE  SkipListInv'
  BY <1>6, FindStep, SkipListAssumption DEF IteratorBetween
<1>7. CASE Iterator \/ IteratorNext \/ IteratorDone
  BY <1>7, IteratorStep, IteratorNextStep, IteratorDoneStep
<1> QED BY <1>1, <1>2, <1>3, <1>4, <1>5, <1>6, <1>7 DEF Next

(***************************************************************************)
(* The invariant of the list, its searches and its iterator.               *)
(***************************************************************************)
THEOREM SkipListInvariance == Spec => []SkipListInv
BY EmptyList, SkipListStep, PTL DEF Spec

(***************************************************************************)
(* Insert leaves every level of the list sorted and complete, and Size is  *)
(* the number of keys.                                                     *)
(***************************************************************************)
THEOREM LevelsStaySorted == Spec => []LevelsSorted
<1>1. SkipListInv => LevelsSorted
  BY DEF SkipListInv
<1> QED BY <1>1, SkipListInvariance, PTL

(***************************************************************************)
(* findGreaterOrEqual ends at the smallest key that is not below the one   *)
(* looked for, and Get finds a key exactly when it was inserted.           *)
(***************************************************************************)
THEOREM SearchFindsLeast == Spec => []FindsLeast
<1>1. SkipListInv => FindsLeast
  BY DEF SkipListInv
<1> QED BY <1>1, SkipListInvariance, PTL

(***************************************************************************)
(* Iterator, IteratorStartingAt and IteratorBetween return the keys of     *)
(* their range in order and miss none that was there when they were        *)
(* opened, whatever is inserted meanwhile.                                 *)
(***************************************************************************)
THEOREM IteratorMissesNone == Spec => []IteratorComplete
<1>1. SkipListInv => IteratorComplete
  <2> SUFFICES ASSUME SkipListInv PROVE IteratorComplete
    OBVIOUS
  <2>1. ASSUME it.done, NEW key \in before, InRange(key) PROVE Returned(key)
    <3>1. ~(it.node # nil /\ it.node <= key /\ ~it.doneNext)
      BY <2>1 DEF SkipListInv, NodesTyped, Inserted, IteratorInv, OverHigher, InRange
    <3> QED BY <3>1, <2>1 DEF SkipListInv, IteratorInv
  <2> QED BY <2>1 DEF IteratorComplete, SkipListInv, IteratorInv, Returned
<1> QED BY <1>1, SkipListInvariance, PTL

-----------------------------------------------------------------------------
(***************************************************************************)
(* The table file.                                                         *)
(***************************************************************************)
TypeInv ==
  /\ todo \in Seq(Pairs) /\ acked \in Seq(Pairs) /\ input \in Seq(Pairs)
  /\ data \in Seq(Values \cup {null}) /\ DOMAIN index = 1..Len(acked) /\ Len(index) = Len(acked)
  /\ lastKey \in TableKeys \cup {NullKey}
  /\ metaData \in [NumRecords : Nat, NullValues : Nat, MinKey : Int, MaxKey : Int]
  /\ step \in {"open", "closeIndex", "closeData", "bloom", "meta", "closed", "killed"}

(***************************************************************************)
(* Index and data writer have one record each per accepted pair, in the    *)
(* order of the pairs.                                                     *)
(***************************************************************************)
InStep ==
  /\ Len(data) = Len(acked)
  /\ \A n \in 1..Len(acked) :
       /\ data[n] = acked[n][2]
       /\ index[n] = [key |-> acked[n][1], offset |-> n, checksum |-> Checksum(acked[n][2])]

(***************************************************************************)
(* The filter, the counts and the key range are those of the accepted      *)
(* pairs; lastKey may be beyond them, a failed write moves it.             *)
(***************************************************************************)
Nulls(pairs) == {n \in DOMAIN pairs : pairs[n][2] = null}

Described ==
  /\ metaData.NumRecords = Len(acked) /\ metaData.NullValues = Cardinality(Nulls(acked))
  /\ lastKey # NullKey => metaData.MinKey <= lastKey
  /\ \A n \in 1..Len(acked) :
       /\ acked[n][1] \in bloomFilter
       /\ lastKey # NullKey /\ metaData.MinKey <= acked[n][1] /\ acked[n][1] <= lastKey

(***************************************************************************)
(* What the steps of Close have left on disk.                              *)
(***************************************************************************)
OnDisk ==
  /\ step \in {"closeData", "bloom", "meta", "closed"} /\ ~err => indexFile = index
  /\ step \in {"bloom", "meta", "closed"} /\ ~err => dataFile = data
  /\ step \in {"meta", "closed"} => bloomFile # <<>> /\ bloomFilter \subseteq bloomFile[1]
  /\ IF step = "closed" THEN metaFile = <<[metaData EXCEPT !.MaxKey = lastKey]>>
     ELSE metaFile = <<>>

(***************************************************************************)
(* A flush without an error has the accepted pairs behind it and the rest  *)
(* in front of it.                                                         *)
(***************************************************************************)
FlushGoesOn ==
  caller = "flush" /\ ~err =>
    /\ Len(acked) + Len(todo) = Len(input)
    /\ \A n \in 1..Len(acked) : acked[n] = input[n]
    /\ \A n \in 1..Len(todo) : todo[n] = input[Len(acked) + n]
    /\ step \notin {"open", "killed"} => todo = <<>>

FileInv == TypeInv /\ InStep /\ Described /\ OnDisk /\ FlushGoesOn
-----------------------------------------------------------------------------
(***************************************************************************)
(* Open of the stream writer creates empty files.                          *)
(***************************************************************************)
LEMMA FileInit == Open => FileInv
<1> SUFFICES ASSUME Open PROVE FileInv
  OBVIOUS
<1>1. input \in Seq(Pairs) /\ todo = input
  BY DEF Open, Inputs
<1>2. /\ acked = <<>> /\ data = <<>> /\ index = <<>> /\ Len(acked) = 0 /\ Len(data) = 0
      /\ Len(index) = 0 /\ DOMAIN index = 1..0
      /\ acked \in Seq(Pairs) /\ data \in Seq(Values \cup {null})
  BY DEF Open
<1>3. TypeInv
  BY <1>1, <1>2 DEF Open, TypeInv, NullKey
<1>4. Cardinality(Nulls(acked)) = 0
  <2>1. Nulls(acked) = {}
    BY <1>2 DEF Nulls
  <2> QED BY <2>1, FS_EmptySet
<1>5. InStep /\ Described /\ OnDisk /\ FlushGoesOn
  BY <1>1, <1>2, <1>4 DEF Open, InStep, Described, OnDisk, FlushGoesOn
<1> QED BY <1>3, <1>5 DEF FileInv

(***************************************************************************)
(* One more pair: one more tombstone, if it is one.                        *)
(***************************************************************************)
LEMMA NullsAppend ==
  ASSUME NEW pairs \in Seq(Pairs), NEW pair \in Pairs
  PROVE  Cardinality(Nulls(Append(pairs, pair))) =
           IF pair[2] = null THEN Cardinality(Nulls(pairs)) + 1 ELSE Cardinality(Nulls(pairs))
<1> DEFINE len == Len(pairs)
           more == Append(pairs, pair)
<1>1. /\ len \in Nat /\ DOMAIN pairs = 1..len /\ DOMAIN more = 1..(len + 1)
      /\ more[len + 1] = pair /\ \A n \in 1..len : more[n] = pairs[n]
  OBVIOUS
<1> HIDE DEF len, more
<1>2. IsFiniteSet(Nulls(pairs))
  <2>1. IsFiniteSet(1..len) /\ Nulls(pairs) \subseteq 1..len
    BY <1>1, FS_Interval DEF Nulls
  <2> QED BY <2>1, FS_Subset, Zenon
<1>3. len + 1 \notin Nulls(pairs)
  BY <1>1 DEF Nulls
<1>4. Nulls(more) = IF pair[2] = null THEN Nulls(pairs) \cup {len + 1} ELSE Nulls(pairs)
  BY <1>1 DEF Nulls
<1> QED BY <1>2, <1>3, <1>4, FS_AddElement, Zenon DEF more

(***************************************************************************)
(* What WriteNext has changed when it comes to its writes: the key range   *)
(* reaches to the new key, and the counts are as before.                   *)
(***************************************************************************)
LEMMA BeginFacts ==
  ASSUME FileInv, Begin
  PROVE  /\ Head(todo) \in Pairs /\ Tail(todo) \in Seq(Pairs) /\ nextKey \in TableKeys
         /\ nextKey \in Nat /\ nextKey # NullKey /\ lastKey' = nextKey
         /\ Meta \in [NumRecords : Nat, NullValues : Nat, MinKey : Int, MaxKey : Int]
         /\ Meta.NumRecords = metaData.NumRecords /\ Meta.NullValues = metaData.NullValues
         /\ Meta.MinKey <= nextKey
         /\ \A n \in 1..Len(acked) : /\ acked[n][1] \in bloomFilter'
                                     /\ Meta.MinKey <= acked[n][1] /\ acked[n][1] <= nextKey
         /\ nextKey \in bloomFilter'
<1>1. /\ todo \in Seq(Pairs) /\ todo # <<>> /\ acked \in Seq(Pairs)
      /\ metaData \in [NumRecords : Nat, NullValues : Nat, MinKey : Int, MaxKey : Int]
      /\ lastKey' = nextKey /\ bloomFilter' = bloomFilter \cup {nextKey}
      /\ lastKey \in TableKeys \cup {NullKey} /\ (lastKey = NullKey \/ lastKey < nextKey)
  BY DEF FileInv, TypeInv, Begin, Ascending
<1>2. Head(todo) \in Pairs /\ Tail(todo) \in Seq(Pairs)
  BY <1>1
<1>3. nextKey \in TableKeys /\ nextKey \in Nat /\ nextKey # NullKey
  BY <1>2, SSTableFileAssumption DEF Pairs, nextKey, NullKey
<1>4. \A n \in 1..Len(acked) : acked[n][1] \in Nat
  BY <1>1, SSTableFileAssumption DEF Pairs
<1>5. lastKey \in Nat
  BY <1>1, SSTableFileAssumption DEF NullKey
<1>6. /\ lastKey # NullKey => metaData.MinKey <= lastKey
      /\ \A n \in 1..Len(acked) :
           /\ acked[n][1] \in bloomFilter
           /\ lastKey # NullKey /\ metaData.MinKey <= acked[n][1] /\ acked[n][1] <= lastKey
  BY DEF FileInv, Described
<1>7. CASE lastKey = NullKey
  <2>1. Meta = [metaData EXCEPT !.MinKey = nextKey]
    BY <1>7 DEF Meta
  <2> QED BY <2>1, <1>1, <1>2, <1>3, <1>6, <1>7
<1>8. CASE lastKey # NullKey
  <2>1. Meta = metaData
    BY <1>8 DEF Meta
  <2>2. \A n \in 1..Len(acked) : acked[n][1] <= nextKey
    BY <1>1, <1>3, <1>4, <1>5, <1>6, <1>8
  <2>3. metaData.MinKey <= nextKey
    BY <1>1, <1>3, <1>5, <1>6, <1>8
  <2> QED BY <2>1, <2>2, <2>3, <1>1, <1>2, <1>3, <1>6, <1>8
<1> QED BY <1>7, <1>8

(***************************************************************************)
(* What the callers make of an error.                                      *)
(***************************************************************************)
LEMMA AfterErrorFacts ==
  ASSUME FileInv, step = "open", todo # <<>>, AfterError
  PROVE  /\ todo' \in Seq(Pairs) /\ step' \in {"open", "closeIndex"}
         /\ caller = "flush" => err' = TRUE
<1>1. todo \in Seq(Pairs) /\ Tail(todo) \in Seq(Pairs)
  BY DEF FileInv, TypeInv
<1> QED BY <1>1 DEF AfterError

(***************************************************************************)
(* A WriteNext that fails leaves index, data and meta data describing the  *)
(* accepted pairs.                                                         *)
(***************************************************************************)
LEMMA FailedWrite ==
  ASSUME FileInv, step = "open", todo # <<>>, AfterError,
         UNCHANGED <<caller, files, index, data, acked, input>>,
         UNCHANGED <<lastKey, bloomFilter, metaData>> \/ (Begin /\ metaData' = Meta)
  PROVE  FileInv'
<1>1. /\ todo' \in Seq(Pairs) /\ step' \in {"open", "closeIndex"}
      /\ caller = "flush" => err' = TRUE
  BY AfterErrorFacts, Zenon
<1>2. lastKey' \in TableKeys \cup {NullKey} /\ metaData' \in [NumRecords : Nat, NullValues : Nat,
                                                      MinKey : Int, MaxKey : Int]
  BY BeginFacts DEF FileInv, TypeInv
<1>3. TypeInv'
  BY <1>1, <1>2 DEF FileInv, TypeInv
<1>4. InStep'
  BY DEF FileInv, InStep
<1>5. Described'
  <2>1. CASE UNCHANGED <<lastKey, bloomFilter, metaData>>
    BY <2>1 DEF FileInv, Described, Nulls
  <2>2. CASE Begin /\ metaData' = Meta
    BY <2>2, BeginFacts DEF FileInv, Described, Nulls
  <2> QED BY <2>1, <2>2
<1>6. OnDisk'
  BY <1>1 DEF FileInv, OnDisk, files
<1>7. FlushGoesOn'
  BY <1>1 DEF FlushGoesOn
<1> QED BY <1>3, <1>4, <1>5, <1>6, <1>7 DEF FileInv

(***************************************************************************)
(* A WriteNext that succeeds adds its pair to index, data and meta data.   *)
(***************************************************************************)
LEMMA WriteNextStep ==
  ASSUME FileInv, WriteNext
  PROVE  FileInv'
<1> DEFINE len == Len(acked)
<1>1. Begin /\ step = "open" /\ todo # <<>> /\ todo \in Seq(Pairs)
  BY DEF WriteNext, Begin, FileInv, TypeInv
<1>2. /\ acked \in Seq(Pairs) /\ data \in Seq(Values \cup {null}) /\ len \in Nat
      /\ Len(data) = len /\ Len(index) = len /\ DOMAIN index = 1..len
      /\ Head(todo) \in Pairs /\ Tail(todo) \in Seq(Pairs)
      /\ nextKey = Head(todo)[1] /\ nextValue = Head(todo)[2] /\ nextValue \in Values \cup {null}
  BY <1>1, BeginFacts DEF FileInv, TypeInv, InStep, nextKey, nextValue, Pairs
<1>3. /\ acked' = Append(acked, Head(todo)) /\ acked' \in Seq(Pairs) /\ Len(acked') = len + 1
      /\ acked'[len + 1] = Head(todo) /\ \A n \in 1..len : acked'[n] = acked[n]
  BY <1>2 DEF WriteNext
<1>4. /\ data' \in Seq(Values \cup {null}) /\ Len(data') = len + 1 /\ data'[len + 1] = nextValue
      /\ \A n \in 1..len : data'[n] = data[n]
  BY <1>2 DEF WriteNext
<1>5. /\ Len(index') = len + 1 /\ DOMAIN index' = 1..(len + 1)
      /\ index'[len + 1] = [key |-> nextKey, offset |-> len + 1, checksum |-> Checksum(nextValue)]
      /\ \A n \in 1..len : index'[n] = index[n]
  BY <1>2 DEF WriteNext, Entry
<1>6. /\ metaData' \in [NumRecords : Nat, NullValues : Nat, MinKey : Int, MaxKey : Int]
      /\ metaData'.NumRecords = metaData.NumRecords + 1 /\ metaData'.MinKey = Meta.MinKey
      /\ metaData'.NullValues =
           IF nextValue = null THEN metaData.NullValues + 1 ELSE metaData.NullValues
  <2> DEFINE nulls == IF nextValue = null THEN Meta.NullValues + 1 ELSE Meta.NullValues
  <2>1. /\ Meta \in [NumRecords : Nat, NullValues : Nat, MinKey : Int, MaxKey : Int]
        /\ Meta.NumRecords = metaData.NumRecords /\ Meta.NullValues = metaData.NullValues
    BY <1>1, BeginFacts
  <2>2. metaData' = [Meta EXCEPT !.NumRecords = Meta.NumRecords + 1, !.NullValues = nulls]
    BY <2>1 DEF WriteNext, Counted
  <2>3. Meta.NumRecords + 1 \in Nat /\ nulls \in Nat
    BY <2>1
  <2> HIDE DEF nulls
  <2>4. /\ metaData' \in [NumRecords : Nat, NullValues : Nat, MinKey : Int, MaxKey : Int]
        /\ metaData'.NumRecords = Meta.NumRecords + 1 /\ metaData'.MinKey = Meta.MinKey
        /\ metaData'.NullValues = nulls
    BY <2>1, <2>2, <2>3, Zenon
  <2> QED BY <2>1, <2>4 DEF nulls
<1>7. TypeInv'
  <2>1. lastKey' \in TableKeys
    BY <1>1, BeginFacts
  <2> QED BY <2>1, <1>2, <1>3, <1>4, <1>5, <1>6 DEF WriteNext, FileInv, TypeInv
<1>8. InStep'
  <2> SUFFICES ASSUME NEW n \in 1..(len + 1)
               PROVE  /\ data'[n] = acked'[n][2]
                      /\ index'[n] = [key |-> acked'[n][1], offset |-> n,
                                      checksum |-> Checksum(acked'[n][2])]
    BY <1>3, <1>4 DEF InStep, Checksum, null
  <2>1. CASE n = len + 1
    BY <2>1, <1>2, <1>3, <1>4, <1>5
  <2>2. CASE n \in 1..len
    BY <2>2, <1>3, <1>4, <1>5, Zenon DEF FileInv, InStep
  <2> QED BY <2>1, <2>2, <1>2, SMTT(20)
<1>9. Described'
  <2>1. metaData'.NullValues = Cardinality(Nulls(acked'))
    BY <1>2, <1>3, <1>6, NullsAppend DEF FileInv, Described
  <2>2. metaData'.NumRecords = Len(acked')
    BY <1>3, <1>6 DEF FileInv, Described
  <2>3. lastKey' # NullKey /\ metaData'.MinKey <= lastKey'
    BY <1>1, <1>6, BeginFacts
  <2>4. ASSUME NEW n \in 1..(len + 1)
        PROVE  /\ acked'[n][1] \in bloomFilter'
               /\ metaData'.MinKey <= acked'[n][1] /\ acked'[n][1] <= lastKey'
    <3>1. CASE n = len + 1
      BY <3>1, <1>1, <1>2, <1>3, <1>6, BeginFacts
    <3>2. CASE n \in 1..len
      BY <3>2, <1>1, <1>3, <1>6, BeginFacts
    <3> QED BY <3>1, <3>2, <1>2
  <2> QED BY <2>1, <2>2, <2>3, <2>4, <1>3 DEF Described, Nulls, NullKey, null
<1>10. OnDisk'
  BY <1>1 DEF FileInv, OnDisk, WriteNext, files
<1>11. FlushGoesOn'
  <2> SUFFICES ASSUME caller = "flush", ~err
               PROVE  /\ Len(acked') + Len(todo') = Len(input)
                      /\ \A n \in 1..Len(acked') : acked'[n] = input[n]
                      /\ \A n \in 1..Len(todo') : todo'[n] = input[Len(acked') + n]
    BY <1>1 DEF FlushGoesOn, WriteNext
  <2>1. /\ len + Len(todo) = Len(input) /\ \A n \in 1..len : acked[n] = input[n]
        /\ \A n \in 1..Len(todo) : todo[n] = input[len + n]
    BY DEF FileInv, FlushGoesOn
  <2>2. /\ todo' = Tail(todo) /\ Len(todo') = Len(todo) - 1 /\ Len(todo) \in Nat \ {0}
        /\ Head(todo) = todo[1] /\ \A n \in 1..Len(todo') : todo'[n] = todo[n + 1]
    BY <1>1 DEF WriteNext
  <2>3. \A n \in 1..Len(todo') : todo'[n] = input[len + 1 + n]
    BY <2>1, <2>2, <1>2
  <2> QED BY <2>1, <2>2, <2>3, <1>2, <1>3
<1> QED BY <1>7, <1>8, <1>9, <1>10, <1>11 DEF FileInv

(***************************************************************************)
(* The steps of Close and a kill change nothing the writer has in memory.  *)
(***************************************************************************)
LEMMA WriterStays ==
  ASSUME FileInv, UNCHANGED <<caller, todo, writer, acked, input>>,
         step' \in {"open", "closeIndex", "closeData", "bloom", "meta", "closed", "killed"}
  PROVE  TypeInv' /\ InStep' /\ Described'
<1>1. TypeInv'
  BY DEF FileInv, TypeInv, writer
<1>2. InStep' /\ Described'
  BY DEF FileInv, InStep, Described, writer, Nulls, NullKey, null, Checksum
<1> QED BY <1>1, <1>2

(***************************************************************************)
(* Once a flush goes over to Close, no further pair is written and no      *)
(* error is forgotten.                                                     *)
(***************************************************************************)
LEMMA FlushStays ==
  ASSUME FileInv, UNCHANGED <<caller, todo, acked, input>>, err' = err \/ err' = TRUE,
         step' \notin {"open", "killed"} => step \notin {"open", "killed"} \/ todo = <<>>
  PROVE  FlushGoesOn'
BY DEF FileInv, FlushGoesOn

(***************************************************************************)
(* The caller has no more pairs and calls Close.                           *)
(***************************************************************************)
LEMMA StartCloseStep ==
  ASSUME FileInv, StartClose
  PROVE  FileInv'
<1>1. TypeInv' /\ InStep' /\ Described'
  BY WriterStays DEF StartClose
<1>2. FlushGoesOn'
  BY FlushStays DEF StartClose
<1>3. OnDisk'
  BY DEF FileInv, OnDisk, StartClose, files
<1> QED BY <1>1, <1>2, <1>3 DEF FileInv

(***************************************************************************)
(* Close closes the index writer.                                          *)
(***************************************************************************)
LEMMA CloseIndexStep ==
  ASSUME FileInv, CloseIndex
  PROVE  FileInv'
<1>1. TypeInv' /\ InStep' /\ Described'
  BY WriterStays DEF CloseIndex
<1>2. err' = TRUE \/ (err' = err /\ indexFile' = index)
  BY DEF CloseIndex, CloseFile
<1>3. FlushGoesOn'
  BY <1>2, FlushStays, Zenon DEF CloseIndex
<1>4. OnDisk'
  BY <1>2 DEF FileInv, OnDisk, CloseIndex, writer
<1> QED BY <1>1, <1>3, <1>4 DEF FileInv

(***************************************************************************)
(* Close closes the data writer.                                           *)
(***************************************************************************)
LEMMA CloseDataStep ==
  ASSUME FileInv, CloseData
  PROVE  FileInv'
<1>1. TypeInv' /\ InStep' /\ Described'
  BY WriterStays DEF CloseData
<1>2. err' = TRUE \/ (err' = err /\ dataFile' = data)
  BY DEF CloseData, CloseFile
<1>3. FlushGoesOn'
  BY <1>2, FlushStays, Zenon DEF CloseData
<1>4. OnDisk'
  BY <1>2 DEF FileInv, OnDisk, CloseData, writer
<1> QED BY <1>1, <1>3, <1>4 DEF FileInv

(***************************************************************************)
(* Close writes the bloom filter.                                          *)
(***************************************************************************)
LEMMA CloseBloomStep ==
  ASSUME FileInv, CloseBloom
  PROVE  FileInv'
<1>1. TypeInv' /\ InStep' /\ Described'
  BY WriterStays DEF CloseBloom
<1>2. bloomFile' # <<>> /\ bloomFilter \subseteq bloomFile'[1]
  BY DEF CloseBloom
<1>3. FlushGoesOn'
  BY FlushStays DEF CloseBloom
<1>4. OnDisk'
  BY <1>2 DEF FileInv, OnDisk, CloseBloom, writer
<1> QED BY <1>1, <1>3, <1>4 DEF FileInv

(***************************************************************************)
(* Close writes the meta data, the last file of a table.                   *)
(***************************************************************************)
LEMMA CloseMetaStep ==
  ASSUME FileInv, CloseMeta
  PROVE  FileInv'
<1>1. TypeInv' /\ InStep' /\ Described'
  BY WriterStays DEF CloseMeta
<1>2. FlushGoesOn'
  BY FlushStays DEF CloseMeta
<1>3. OnDisk'
  BY DEF FileInv, OnDisk, CloseMeta, writer
<1> QED BY <1>1, <1>2, <1>3 DEF FileInv

(***************************************************************************)
(* The process ends with a prefix of what was written in the files.        *)
(***************************************************************************)
LEMMA KillStep ==
  ASSUME FileInv, Kill
  PROVE  FileInv'
<1>1. TypeInv' /\ InStep' /\ Described'
  BY WriterStays DEF Kill
<1>2. FlushGoesOn'
  BY FlushStays DEF Kill
<1>3. OnDisk'
  BY DEF FileInv, OnDisk, Kill
<1> QED BY <1>1, <1>2, <1>3 DEF FileInv

(***************************************************************************)
(* Every step of the writer keeps the invariant of the table file.         *)
(***************************************************************************)
LEMMA FileStep == FileInv /\ [FileNext]_fileVars => FileInv'
<1> SUFFICES ASSUME FileInv, [FileNext]_fileVars PROVE FileInv'
  OBVIOUS
<1>1. CASE UNCHANGED fileVars
  <2>1. TypeInv' /\ InStep' /\ Described'
    BY <1>1, WriterStays DEF fileVars, FileInv, TypeInv
  <2>2. FlushGoesOn'
    BY <1>1, FlushStays DEF fileVars
  <2>3. OnDisk'
    BY <1>1 DEF FileInv, OnDisk, fileVars, files, writer
  <2> QED BY <2>1, <2>2, <2>3 DEF FileInv
<1>2. CASE WriteNextRefused
  BY <1>2, FailedWrite DEF WriteNextRefused, writer
<1>3. CASE WriteDataFails
  BY <1>3, FailedWrite DEF WriteDataFails, Begin
<1>4. CASE WriteIndexFails
  BY <1>4, FailedWrite DEF WriteIndexFails, Begin
<1> QED BY <1>1, <1>2, <1>3, <1>4, WriteNextStep, StartCloseStep, CloseIndexStep, CloseDataStep,
           CloseBloomStep, CloseMetaStep, KillStep DEF FileNext

(***************************************************************************)
(* The invariant of the writer and the files it leaves.                    *)
(***************************************************************************)
THEOREM FileInvariance == FileSpec => []FileInv
BY FileInit, FileStep, PTL DEF FileSpec
-----------------------------------------------------------------------------
(***************************************************************************)
(* Whichever way NewSSTableReader's table is read, by key, by position or  *)
(* behind the filter, it has the pairs WriteNext accepted, if Close        *)
(* reported no error; the metadata describes them in any case.             *)
(***************************************************************************)
THEOREM TableReadsBack == FileSpec => []ReadsBack
<1>1. FileInv => ReadsBack
  <2> SUFFICES ASSUME FileInv, Version = 1 PROVE ReadsBack
    BY DEF ReadsBack
  <2>1. step = "closed" /\ metaFile = <<[metaData EXCEPT !.MaxKey = lastKey]>>
    BY DEF FileInv, OnDisk, Version
  <2>2. /\ acked \in Seq(Pairs) /\ data \in Seq(Values \cup {null}) /\ DOMAIN index = 1..Len(acked)
        /\ metaData \in [NumRecords : Nat, NullValues : Nat, MinKey : Int, MaxKey : Int]
        /\ DOMAIN acked = 1..Len(acked) /\ Len(data) = Len(acked) /\ Len(acked) \in Nat
    BY DEF FileInv, TypeInv, InStep
  <2>3. /\ metaFile[1].NumRecords = metaData.NumRecords
        /\ metaFile[1].NullValues = metaData.NullValues
        /\ metaFile[1].MinKey = metaData.MinKey /\ metaFile[1].MaxKey = lastKey
    BY <2>1, <2>2
  <2>4. /\ metaFile[1].NumRecords = Len(acked)
        /\ metaFile[1].NullValues = Cardinality({n \in DOMAIN acked : acked[n][2] = null})
        /\ \A n \in DOMAIN acked :
             metaFile[1].MinKey <= acked[n][1] /\ acked[n][1] <= metaFile[1].MaxKey
    BY <2>2, <2>3 DEF FileInv, Described, Nulls
  <2>5. ASSUME ~err
        PROVE  /\ Opens /\ Scan = acked
               /\ \A k \in TableKeys :
                    /\ ReaderContains(k) <=> \E n \in DOMAIN acked : acked[n][1] = k
                    /\ ReaderContains(k) => \E n \in DOMAIN acked : acked[n] = <<k, ReaderGet(k)>>
    <3>1. /\ indexFile = index /\ dataFile = data
          /\ bloomFile # <<>> /\ bloomFilter \subseteq bloomFile[1]
      BY <2>1, <2>5 DEF FileInv, OnDisk
    <3>2. ASSUME NEW n \in 1..Len(acked)
          PROVE  /\ acked[n] = <<acked[n][1], acked[n][2]>> /\ acked[n][1] \in TableKeys
                 /\ indexFile[n].key = acked[n][1] /\ indexFile[n].offset = n
                 /\ indexFile[n].checksum = Checksum(acked[n][2])
                 /\ dataFile[n] = acked[n][2] /\ ValueAt(indexFile[n]) = acked[n][2]
                 /\ acked[n][1] \in bloomFile[1]
      <4>1. acked[n] \in Pairs
        BY <2>2
      <4>2. acked[n] = <<acked[n][1], acked[n][2]>> /\ acked[n][1] \in TableKeys
        BY <4>1 DEF Pairs
      <4>3. /\ dataFile[n] = acked[n][2]
            /\ indexFile[n] = [key |-> acked[n][1], offset |-> n,
                               checksum |-> Checksum(acked[n][2])]
        BY <3>1 DEF FileInv, InStep
      <4>4. ValueAt(indexFile[n]) = acked[n][2]
        BY <4>3, <3>1, <2>2 DEF ValueAt
      <4>5. acked[n][1] \in bloomFile[1]
        BY <3>1 DEF FileInv, Described
      <4> QED BY <4>2, <4>3, <4>4, <4>5
    <3>3. Opens
      BY <3>1, <3>2, <2>2 DEF Opens, Mismatch
    <3>4. Scan = acked
      <4>1. Scan = [n \in 1..Len(acked) |-> acked[n]]
        BY <3>1, <3>2, <2>2 DEF Scan
      <4> QED BY <4>1, <2>2
    <3>5. ASSUME NEW k \in TableKeys
          PROVE  /\ ReaderContains(k) <=> \E n \in DOMAIN acked : acked[n][1] = k
                 /\ ReaderContains(k) => \E n \in DOMAIN acked : acked[n] = <<k, ReaderGet(k)>>
      <4>1. Entries(k) = {n \in 1..Len(acked) : acked[n][1] = k}
        BY <3>1, <3>2, <2>2 DEF Entries
      <4>2. ReaderContains(k) <=> \E n \in DOMAIN acked : acked[n][1] = k
        BY <4>1, <3>1, <3>2, <2>2 DEF ReaderContains
      <4>3. ASSUME ReaderContains(k) PROVE \E n \in DOMAIN acked : acked[n] = <<k, ReaderGet(k)>>
        <5> DEFINE m == CHOOSE n \in Entries(k) : TRUE
        <5>1. m \in Entries(k)
          BY <4>3 DEF ReaderContains
        <5>2. ReaderGet(k) = ValueAt(indexFile[m])
          BY DEF ReaderGet
        <5> HIDE DEF m
        <5>3. m \in 1..Len(acked) /\ acked[m][1] = k
          BY <5>1, <4>1
        <5>4. acked[m] = <<k, acked[m][2]>> /\ ReaderGet(k) = acked[m][2]
          BY <5>2, <5>3, <3>2
        <5> QED BY <5>3, <5>4, <2>2
      <4> QED BY <4>2, <4>3
    <3> QED BY <3>3, <3>4, <3>5
  <2> QED BY <2>4, <2>5 DEF ReadsBack
<1> QED BY <1>1, FileInvariance, PTL

(***************************************************************************)
(* flushMemstore returns without an error only when every pair of the      *)
(* memstore is in the table: the WAL file it removes then is not needed.   *)
(***************************************************************************)
THEOREM FlushWritesAll == FileSpec => []CallerWritesAll
<1>1. FileInv => CallerWritesAll
  <2> SUFFICES ASSUME FileInv, caller = "flush", step = "closed", ~err PROVE acked = input
    BY DEF CallerWritesAll
  <2>1. acked \in Seq(Pairs) /\ input \in Seq(Pairs) /\ Len(todo) = 0
    BY DEF FileInv, TypeInv, FlushGoesOn
  <2>2. Len(acked) = Len(input) /\ \A n \in 1..Len(acked) : acked[n] = input[n]
    BY <2>1 DEF FileInv, FlushGoesOn
  <2> QED BY <2>1, <2>2
<1> QED BY <1>1, FileInvariance, PTL
=============================================================================
