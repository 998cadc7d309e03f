------------------------------ MODULE SimpleDB ------------------------------
(***************************************************************************)
(* simpledb: clients, flusher, compaction and the open/close/recover cycle *)
(* over one directory.                                                     *)
(***************************************************************************)
EXTENDS DBClients, DBFlush, DBCompaction, DBLifecycle, DBProperties

(***************************************************************************)
(* The budget of a behaviour is used up.                                   *)
(***************************************************************************)
Terminated ==
  /\ phase = "down" /\ opens = MaxOpens
  /\ UNCHANGED vars

Next ==
  \/ StartOpen \/ OpenStep
  \/ \E c \in Clients : ClientCall(c) \/ ClientStep(c)
  \/ FlushStep
  \/ CompactTick \/ CompactLockDB \/ CompactStep
  \/ CloseRotate \/ CloseStep
  \/ Crash
  \/ Terminated

Spec == Init /\ [][Next]_vars
=============================================================================
