------------------------------ MODULE DBFaults ------------------------------
(***************************************************************************)
(* SimpleDB with file operations that fail: a memstore flush may fail at   *)
(* every call it makes.  The flusher answers an error with a panic whose   *)
(* deferred send waits for Close, so the process lives on without it.      *)
(***************************************************************************)
EXTENDS SimpleDB, TLC

CONSTANT FaultPoints   \* the calls that may fail, named as below

(***************************************************************************)
(* executeFlush returns the error.  Open returns it to its caller and      *)
(* lets go of rwLock; flushMemstoreContinuously panics and from then on    *)
(* receives no flush action.                                               *)
(***************************************************************************)
FaultFrame ==
  UNCHANGED <<cdir, toRemove, wal, walNum, stores, readers, readLocks, mgrLock,
              op, cp, bounds>>

\* Mutants of FlushError: the flusher's loop goes on, Open goes on.
FlushErrorLogged ==
  /\ fl' = FlusherAt("idle")
  /\ UNCHANGED <<phase, dbLock>>
  /\ FaultFrame

FlushErrorOpens ==
  /\ IF phase = "flush"
     THEN phase' = "clean" /\ fl' = FlusherAt("off")
     ELSE fl' = [fl EXCEPT !.pc = "panicked"] /\ UNCHANGED phase
  /\ UNCHANGED dbLock
  /\ FaultFrame

FlushError ==
  /\ IF phase = "flush"
     THEN phase' = "failed" /\ dbLock' = "free" /\ fl' = FlusherAt("off")
     ELSE fl' = [fl EXCEPT !.pc = "panicked"] /\ UNCHANGED <<phase, dbLock>>
  /\ FaultFrame

(***************************************************************************)
(* The calls that fail: MkdirAll, after the generation was taken           *)
(* ("received"); opening and closing the writer, which leave the directory *)
(* at its stage ("bare" to "data"); the removal of the WAL file            *)
(* ("complete"); and opening the reader ("removed").                       *)
(***************************************************************************)
MkdirFails ==
  /\ "received" \in FaultPoints
  /\ fl.pc = "received" /\ fl.mem # EmptyStore
  /\ generation' = generation + 1
  /\ FlushError
  /\ UNCHANGED sst

FlushFails ==
  /\ fl.pc \in FaultPoints \cap (Stages \cup {"removed"})
  /\ fl.pc = "complete" => fl.wal # NoWal
  /\ FlushError
  /\ UNCHANGED <<sst, generation>>

(***************************************************************************)
(* A WriteNext that fails ("write") ends flushMemstore, whose deferred     *)
(* Close completes the table, with the keys before the one that failed.    *)
(***************************************************************************)
Shortened(k) ==
  [sst EXCEPT ![fl.gen] =
     [stage |-> "complete",
      cells |-> [j \in Keys |-> IF j < k THEN fl.mem[j] ELSE Absent]]]

WriteNextFails(k) ==
  /\ "write" \in FaultPoints
  /\ fl.pc = "headers" /\ fl.mem[k] # Absent
  /\ sst' = Shortened(k)
  /\ FlushError
  /\ UNCHANGED generation

(***************************************************************************)
(* Close receives from doneFlushChannel: the deferred send returns and the *)
(* panic goes on and ends the process, in one of the windows of Crash.     *)
(***************************************************************************)
PanicGoesOn ==
  /\ phase = "draining"
  /\ fl.pc = "panicked"
  /\ \A w \in Windows : InWindow(w) => w \in CrashPoints
  /\ Gone

Fault == MkdirFails \/ FlushFails \/ (\E k \in Keys : WriteNextFails(k))

NextWithFaults == Next \/ Fault \/ PanicGoesOn

SpecWithFaults == Init /\ [][NextWithFaults]_vars

Symmetry == Permutations(Values)
=============================================================================
