------------------------------ MODULE MCFiles -------------------------------
(***************************************************************************)
(* Record files, the write-ahead log and the files of a table, for TLC.    *)
(* They share no state here, and a behaviour is one of one of them.        *)
(***************************************************************************)
EXTENDS MCRecordIO, WriteAheadLog, SSTableFile

SmallWalRecords == {NilRecord, <<7, 8, 0, 9>>}

VARIABLE part

FilesInit ==
  /\ part \in {"record", "log", "table"}
  /\ Init /\ WalInit /\ Open
  /\ part # "record" => conf = CHOOSE c \in Configurations : TRUE
  /\ part # "table" => caller = (CHOOSE c \in Callers : TRUE) /\ input = <<>>

FilesNext ==
  \/ part = "record" /\ Next /\ UNCHANGED <<part, walVars, fileVars>>
  \/ part = "log" /\ WalNext /\ UNCHANGED <<part, vars, fileVars>>
  \/ part = "table" /\ FileNext /\ UNCHANGED <<part, vars, walVars>>

FilesSpec == FilesInit /\ [][FilesNext]_<<part, vars, walVars, fileVars>>

====
