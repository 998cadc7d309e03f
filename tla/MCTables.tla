------------------------------ MODULE MCTables ------------------------------
(***************************************************************************)
(* The key indexes of a table and the merge of tables, for TLC.  They      *)
(* share no state here, and a behaviour is one of one of them.             *)
(***************************************************************************)
EXTENDS MCDiskIndex, MergeCompaction

VARIABLE part

TablesInit ==
  /\ part \in {"index", "merge"}
  /\ Init /\ MergeInit
  /\ part = "merge" => index = <<>>

CallsOver == pc = "idle" /\ calls = MaxCalls

TablesNext ==
  \/ part = "index" /\ Next /\ UNCHANGED <<part, mergeVars>>
  \/ part = "merge" /\ MergeNext /\ UNCHANGED <<part, vars>>
  \/ part = "index" /\ CallsOver /\ UNCHANGED <<part, vars, mergeVars>>

TablesSpec ==
  /\ TablesInit /\ [][TablesNext]_<<part, vars, mergeVars>>
  /\ WF_vars(part = "index" /\ Steps)
  /\ WF_mergeVars(part = "merge" /\ MergeStep)

====
