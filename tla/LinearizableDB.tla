-------------------------- MODULE LinearizableDB ----------------------------
(***************************************************************************)
(* SimpleDB as its callers see it: a map they share, and calls that        *)
(* return.                                                                 *)
(***************************************************************************)
EXTENDS SimpleDB
-----------------------------------------------------------------------------
(***************************************************************************)
(* The database implements a durable, linearizable map: the map is what    *)
(* the directory holds, a write takes effect with its WAL record, a Get    *)
(* with its look into the memstores.  This is the behaviour the Porcupine  *)
(* test samples, here with crashes and recoveries in between.              *)
(***************************************************************************)
CallState(pc) ==
  CASE pc = "idle" -> "idle"
    [] pc = "get" -> "reading"
    [] OTHER -> "written"

Store ==
  INSTANCE KVStore WITH
    NotFound <- Absent,
    store <- [k \in Keys |-> DiskValue(k)],
    state <- [c \in Clients |-> CallState(op[c].pc)],
    reply <- [c \in Clients |-> IF op[c].pc = "idle" THEN op[c].cell ELSE Absent]

ImplementsKVStore == Store!Spec
-----------------------------------------------------------------------------
(***************************************************************************)
(* Fairness.  Goroutines that can go on do so; a goroutine that waits for  *)
(* rwLock gets it although others come and go (sync.RWMutex lets no reader *)
(* pass a waiting writer), and a stopped ticker ends the compaction loop.  *)
(* Nobody has to call the DB, to close it or to kill it, and no tick has   *)
(* to come.                                                                *)
(***************************************************************************)
Fairness ==
  /\ WF_vars(OpenStep)
  /\ \A c \in Clients : WF_vars(ClientStep(c))
  /\ WF_vars(FlushStep)
  /\ SF_vars(CompactLockDB) /\ WF_vars(CompactStep)
  /\ SF_vars(CloseStep)

FairSpec == Spec /\ Fairness

(***************************************************************************)
(* Every call returns: a Put that has to wait for the flusher, an Open     *)
(* with whatever it has to repair, and a Close, which stops the flusher    *)
(* and a compaction that may be under way or have panicked.                *)
(***************************************************************************)
CallsReturn ==
  /\ \A c \in Clients : op[c].pc # "idle" ~> op[c].pc = "idle"
  /\ phase = "repair" ~> phase \in {"up", "failed", "down"}
  /\ phase = "closing" ~> phase = "down"

(***************************************************************************)
(* A compaction that has its success flag is reflected, by the goroutine   *)
(* or by the next Open.                                                    *)
(***************************************************************************)
CompactionEnds == cdir.flag ~> ~cdir.flag \/ phase = "down"
=============================================================================
