----------------------------- MODULE MCSimpleDB -----------------------------
(***************************************************************************)
(* SimpleDB on small instances; see the cfg files for the constants.       *)
(***************************************************************************)
EXTENDS LinearizableDB, TLC

(***************************************************************************)
(* Neither writers, readers nor values are told apart by the code.         *)
(***************************************************************************)
Symmetry == Permutations(Writers) \cup Permutations(Readers) \cup Permutations(Values)
=============================================================================
