------------------------------- MODULE MCSafe -------------------------------
(***************************************************************************)
(* SimpleDB under the conditions of DBInvariant, on small instances.       *)
(***************************************************************************)
EXTENDS DBInvariant, SimpleDB, LinearizableDB, TLC

(***************************************************************************)
(* Neither writers, readers nor values are told apart by the code.         *)
(***************************************************************************)
Symmetry ==
  Permutations(Writers) \cup Permutations(Readers) \cup Permutations(Values)
=============================================================================
