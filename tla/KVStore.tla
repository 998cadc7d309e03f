------------------------------ MODULE KVStore -------------------------------
(***************************************************************************)
(* What the DatabaseI interface promises: a map from keys to values that   *)
(* is written and read atomically, between call and return of the call,    *)
(* and that outlives the processes using it.                               *)
(*                                                                         *)
(* A call is idle when it has returned; reply is what it returned, with    *)
(* NotFound for ErrNotFound and for the calls that return no value.  A     *)
(* write in state "written" has taken effect and not returned yet.  Stop   *)
(* ends a process: its calls vanish, the map stays.                        *)
(***************************************************************************)
EXTENDS Integers

CONSTANTS Keys, Values, Writers, Readers, NotFound

VARIABLES store, state, reply

vars == <<store, state, reply>>

Clients == Writers \cup Readers

TypeOK ==
  /\ store \in [Keys -> Values \cup {NotFound}]
  /\ state \in [Clients -> {"idle", "written", "reading"}]
  /\ reply \in [Clients -> Values \cup {NotFound}]

Init ==
  /\ store = [k \in Keys |-> NotFound]
  /\ state = [c \in Clients |-> "idle"]
  /\ reply = [c \in Clients |-> NotFound]

Write(c, k, v) ==
  /\ state[c] = "idle"
  /\ state' = [state EXCEPT ![c] = "written"]
  /\ reply' = [reply EXCEPT ![c] = NotFound]
  /\ store' = [store EXCEPT ![k] = v]

Put(c, k, v) == v \in Values /\ Write(c, k, v)
Delete(c, k) == Write(c, k, NotFound)

Return(c) ==
  /\ state[c] = "written"
  /\ state' = [state EXCEPT ![c] = "idle"]
  /\ UNCHANGED <<reply, store>>

StartGet(c) ==
  /\ state[c] = "idle"
  /\ state' = [state EXCEPT ![c] = "reading"]
  /\ reply' = [reply EXCEPT ![c] = NotFound]
  /\ UNCHANGED store

Get(c, k) ==
  /\ state[c] = "reading"
  /\ state' = [state EXCEPT ![c] = "idle"]
  /\ reply' = [reply EXCEPT ![c] = store[k]]
  /\ UNCHANGED store

Stop ==
  /\ state' = [c \in Clients |-> "idle"]
  /\ reply' = [c \in Clients |-> NotFound]
  /\ UNCHANGED store

Next ==
  \/ \E c \in Writers, k \in Keys :
       Delete(c, k) \/ \E v \in Values : Put(c, k, v)
  \/ \E c \in Writers : Return(c)
  \/ \E c \in Readers : StartGet(c) \/ \E k \in Keys : Get(c, k)
  \/ Stop

Spec == Init /\ [][Next]_vars
=============================================================================
