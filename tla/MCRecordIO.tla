----------------------------- MODULE MCRecordIO ------------------------------
(***************************************************************************)
(* Records and files for TLC: nil, empty and three bytes, in files of all  *)
(* versions that are sought in, in files of the current version that are   *)
(* killed or meet errors, and in files of direct I/O; and payloads with    *)
(* the bytes of the marker, of a whole record and of parts of the marker.  *)
(***************************************************************************)
EXTENDS RecordIO

PlainRecords == {NilRecord, <<>>, <<7, 0, 9>>}

MarkedRecords ==
  {<<145, 141, 76>>, <<145, 141, 76, 0, 0, 0>>, <<145, 141>>, <<9, 145>>, <<9>>}

SoughtFiles ==
  [version : 1..3, compressed : BOOLEAN, aligned : {FALSE}, bufferSize : {9},
   records : {PlainRecords}, maxWrites : {3}, maxSeeks : {1}, faults : {FALSE}]

StoppedFiles ==
  [version : {3}, compressed : BOOLEAN, aligned : {FALSE}, bufferSize : {10},
   records : {PlainRecords}, maxWrites : {4}, maxSeeks : {0}, faults : {TRUE}]

DirectFiles ==
  [version : {3}, compressed : {FALSE}, aligned : {TRUE}, bufferSize : {16},
   records : {PlainRecords}, maxWrites : {3}, maxSeeks : {1}, faults : {FALSE}]

MarkedFiles ==
  [version : 2..3, compressed : {FALSE}, aligned : {FALSE}, bufferSize : {64},
   records : {MarkedRecords}, maxWrites : {3}, maxSeeks : {0}, faults : {FALSE}]

(* The payloads are as in TestMMapReaderMagicNumberContents, and one that ends
   in the first byte of the marker. *)
PartlyMarkedFiles ==
  {[c EXCEPT !.records = {MagicNumberSeparatorLongBytes, <<21, 8, 145>>}] : c \in MarkedFiles}

Files == SoughtFiles \cup StoppedFiles \cup DirectFiles \cup MarkedFiles

====
