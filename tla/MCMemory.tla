------------------------------ MODULE MCMemory ------------------------------
(***************************************************************************)
(* What a database has in memory, for TLC: the skip list, the memstores    *)
(* and the list of table readers.  They share no state here, and a         *)
(* behaviour is one of one of them.                                        *)
(***************************************************************************)
EXTENDS SkipList, RWMemStore, ReaderList

VARIABLE part

MemoryInit ==
  /\ part \in {"skiplist", "memstore", "readers"}
  /\ Init /\ StoreInit /\ ListInit
  /\ part # "memstore" => callers = CHOOSE c \in StoreCallers : TRUE

CallsOver == mutations = MaxMutations \/ phase = "failed"

MemoryNext ==
  \/ part = "skiplist" /\ Next /\ UNCHANGED <<part, storeVars, listVars>>
  \/ part = "memstore" /\ StoreNext /\ UNCHANGED <<part, vars, listVars>>
  \/ part = "memstore" /\ CallsOver /\ UNCHANGED <<part, vars, storeVars, listVars>>
  \/ part = "readers" /\ ListNext /\ UNCHANGED <<part, vars, storeVars>>

MemorySpec ==
  /\ MemoryInit /\ [][MemoryNext]_<<part, vars, storeVars, listVars>>
  /\ WF_vars(part = "skiplist" /\ (Walk \/ Answer))

====
