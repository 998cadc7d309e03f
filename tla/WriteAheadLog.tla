--------------------------- MODULE WriteAheadLog ----------------------------
(***************************************************************************)
(* The write-ahead log: an Appender that writes record files and rotates   *)
(* them, a Replayer that reads them all, and the Cleaner.  The files are   *)
(* bytes, read by the operators of RecordReaders.  Of the writer of a file *)
(* the module uses what RecordIO shows: the file on disk is a prefix of    *)
(* what was handed in, and all of it after a flush.                        *)
(***************************************************************************)
EXTENDS RecordReaders

CONSTANTS
  WalRecords,       \* records that are appended
  Compressed,       \* the writer factory sets a compressor
  maxWalFileSize,
  MaxFiles,         \* the limit of a million files
  MaxAppends,       \* bound: calls of Append and AppendSync
  MaxRotates,       \* bound: calls of Rotate
  Cuts              \* subset of {"header", "record"}: what a kill may tear

ASSUME WriteAheadLogAssumption ==
  /\ maxWalFileSize \in Nat /\ MaxFiles \in Nat \ {0}
  /\ MaxAppends \in Nat /\ MaxRotates \in Nat
  /\ Cuts \subseteq {"header", "record"}
  /\ Compressed \in BOOLEAN

VARIABLES
  disk,             \* the files by number, from 1, each a sequence of bytes
  nextWriterNumber,
  currentWriter,    \* number of its file, position on disk, open
  unflushed,        \* bytes handed to it that are not on disk
  stage,            \* the call in progress
  req,              \* its name, record and whether the record is synced
  handed,           \* records handed to a writer since the log was created
  durable,          \* how many of them AppendSync has acknowledged
  rotated,          \* files whose path Rotate has returned
  reused,           \* the log was opened on the files of an earlier one
  appends, rotates

walVars == <<disk, nextWriterNumber, currentWriter, unflushed, stage, req, handed,
             durable, rotated, reused, appends, rotates>>

NoRecord(call) == [call |-> call, rec |-> NilRecord, sync |-> FALSE]

Header == FileHeaderAsByteSlice(3, IF Compressed THEN 2 ELSE 0)

RecordImage(rec) == FlattenSeq(RecordPieces(3, Compressed, rec))

RecordLen(rec) == IF rec = NilRecord THEN 0 ELSE Len(rec)

(***************************************************************************)
(* Bytes d put into the file f at offset o, which is not truncated first.  *)
(***************************************************************************)
SplicedAt(f, o, d) == SubSeq(f, 1, o) \o d \o SubSeq(f, o + Len(d) + 1, Len(f))

Flushed(d) == [disk EXCEPT ![currentWriter.num] = SplicedAt(@, currentWriter.pos, d)]

Size == currentWriter.pos + Len(unflushed)

WalInit ==
  /\ disk = <<>> /\ nextWriterNumber = 0
  /\ currentWriter = [num |-> 0, pos |-> 0, open |-> FALSE] /\ unflushed = <<>>
  /\ stage = "create" /\ req = NoRecord("New")
  /\ handed = <<>> /\ durable = 0 /\ rotated = {} /\ reused = FALSE
  /\ appends = 0 /\ rotates = 0

-----------------------------------------------------------------------------
(***************************************************************************)
(* Append and AppendSync: checkSizeAndRotate, then the writer.             *)
(***************************************************************************)
TooLarge(rec) == Size + RecordLen(rec) > maxWalFileSize

AppendRecord(rec, sync) ==
  /\ stage = "idle" /\ appends < MaxAppends
  /\ req' = [call |-> "Append", rec |-> rec, sync |-> sync]
  /\ stage' = IF TooLarge(rec) THEN "rotate" ELSE "write"
  /\ appends' = appends + 1
  /\ UNCHANGED <<disk, nextWriterNumber, currentWriter, unflushed, handed,
                 durable, rotated, reused, rotates>>

WriteRecord ==
  /\ stage = "write" /\ currentWriter.open
  /\ unflushed' = unflushed \o RecordImage(req.rec)
  /\ handed' = Append(handed, req.rec)
  /\ stage' = IF req.sync THEN "sync" ELSE "idle"
  /\ UNCHANGED <<disk, nextWriterNumber, currentWriter, req, durable, rotated,
                 reused, appends, rotates>>

\* Mutant of SyncRecord: the record stays in the buffer.
SyncRecordUnflushed ==
  /\ stage = "sync"
  /\ durable' = Len(handed) /\ stage' = "idle"
  /\ UNCHANGED <<disk, nextWriterNumber, currentWriter, unflushed, req, handed,
                 rotated, reused, appends, rotates>>

SyncRecord ==
  /\ stage = "sync"
  /\ disk' = Flushed(unflushed) /\ unflushed' = <<>>
  /\ currentWriter' = [currentWriter EXCEPT !.pos = Size]
  /\ durable' = Len(handed) /\ stage' = "idle"
  /\ UNCHANGED <<nextWriterNumber, req, handed, rotated, reused, appends,
                 rotates>>

(***************************************************************************)
(* Rotate closes the writer and sets up the next one.  When that fails the *)
(* closed writer stays, and every later call fails on it.                  *)
(***************************************************************************)
Rotate ==
  /\ stage = "idle" /\ rotates < MaxRotates
  /\ req' = NoRecord("Rotate") /\ stage' = "rotate" /\ rotates' = rotates + 1
  /\ UNCHANGED <<disk, nextWriterNumber, currentWriter, unflushed, handed,
                 durable, rotated, reused, appends>>

RotateClose ==
  /\ stage = "rotate" /\ currentWriter.open
  /\ disk' = Flushed(unflushed) /\ unflushed' = <<>>
  /\ currentWriter' = [currentWriter EXCEPT !.pos = Size, !.open = FALSE]
  /\ stage' = "create"
  /\ UNCHANGED <<nextWriterNumber, req, handed, durable, rotated, reused,
                 appends, rotates>>

WriterClosed ==
  /\ stage \in {"rotate", "write"} /\ ~currentWriter.open
  /\ stage' = "idle"
  /\ UNCHANGED <<disk, nextWriterNumber, currentWriter, unflushed, req, handed,
                 durable, rotated, reused, appends, rotates>>

(***************************************************************************)
(* setupNextWriter: the file is created, then its header is flushed.       *)
(***************************************************************************)
TooManyFiles ==
  /\ stage = "create" /\ nextWriterNumber >= MaxFiles
  /\ stage' = "idle"
  /\ UNCHANGED <<disk, nextWriterNumber, currentWriter, unflushed, req, handed,
                 durable, rotated, reused, appends, rotates>>

\* Mutant of CreateWriter: truncates a file that is there.
CreateWriterTruncating ==
  /\ stage = "create" /\ nextWriterNumber < MaxFiles
  /\ disk' = IF nextWriterNumber < Len(disk)
             THEN [disk EXCEPT ![nextWriterNumber + 1] = <<>>] ELSE Append(disk, <<>>)
  /\ stage' = "open"
  /\ UNCHANGED <<nextWriterNumber, currentWriter, unflushed, req, handed,
                 durable, rotated, reused, appends, rotates>>

CreateWriter ==
  /\ stage = "create" /\ nextWriterNumber < MaxFiles
  /\ disk' = IF nextWriterNumber < Len(disk) THEN disk ELSE Append(disk, <<>>)
  /\ stage' = "open"
  /\ UNCHANGED <<nextWriterNumber, currentWriter, unflushed, req, handed,
                 durable, rotated, reused, appends, rotates>>

\* Mutant of RotatedFile: the path of the new file.
RotatedFileNext == nextWriterNumber + 1

RotatedFile == currentWriter.num

OpenWriter ==
  /\ stage = "open"
  /\ disk' = [disk EXCEPT ![nextWriterNumber + 1] = SplicedAt(@, 0, Header)]
  /\ nextWriterNumber' = nextWriterNumber + 1
  /\ currentWriter' = [num |-> nextWriterNumber + 1, pos |-> Len(Header), open |-> TRUE]
  /\ rotated' = IF req.call = "Rotate" THEN rotated \cup {RotatedFile} ELSE rotated
  /\ stage' = IF req.call = "Append" THEN "write" ELSE "idle"
  /\ UNCHANGED <<unflushed, req, handed, durable, reused, appends, rotates>>

CloseLog ==
  /\ stage = "idle"
  /\ IF currentWriter.open
     THEN /\ disk' = Flushed(unflushed) /\ unflushed' = <<>>
          /\ currentWriter' = [currentWriter EXCEPT !.pos = Size, !.open = FALSE]
     ELSE UNCHANGED <<disk, unflushed, currentWriter>>
  /\ stage' = "closed"
  /\ UNCHANGED <<nextWriterNumber, req, handed, durable, rotated, reused,
                 appends, rotates>>

-----------------------------------------------------------------------------
(***************************************************************************)
(* A kill leaves a prefix of the buffer, or of the header, on disk.        *)
(***************************************************************************)
LogStopped == stage \in {"dead", "closed"}

TornHeader ==
  /\ stage = "open" /\ "header" \in Cuts
  /\ \E n \in 0..(Len(Header) - 1) :
       disk' = [disk EXCEPT ![nextWriterNumber + 1] = SplicedAt(@, 0, SubSeq(Header, 1, n))]

TornBuffer ==
  /\ currentWriter.open
  /\ \E n \in (IF "record" \in Cuts THEN 0..Len(unflushed) ELSE {0}) :
       disk' = Flushed(SubSeq(unflushed, 1, n))

Untorn == ~currentWriter.open /\ stage # "open" /\ UNCHANGED disk

KillLog ==
  /\ ~LogStopped
  /\ TornHeader \/ TornBuffer \/ Untorn
  /\ stage' = "dead" /\ unflushed' = <<>>
  /\ currentWriter' = [currentWriter EXCEPT !.open = FALSE]
  /\ UNCHANGED <<nextWriterNumber, req, handed, durable, rotated, reused,
                 appends, rotates>>

(***************************************************************************)
(* Replay reads the files in the order of their names, each up to the end  *)
(* of the file; any other error ends it.                                   *)
(***************************************************************************)
ReplayFile(before, b, all) ==
  [recs |-> before \o all.recs,
   err  |-> IF FileReaderOpen(b) = "nil" /\ all.err = "EOF" THEN "nil" ELSE "error"]

Replay ==
  FoldLeft(LAMBDA r, b : IF r.err # "nil" THEN r ELSE ReplayFile(r.recs, b, ReadAll(b)),
           [recs |-> <<>>, err |-> "nil"], disk)

(***************************************************************************)
(* NewWriteAheadLog after a stop: on an empty directory after Clean, or on *)
(* the files that are there, of which the records that replay are kept.    *)
(***************************************************************************)
CleanAndReopen ==
  /\ LogStopped /\ appends < MaxAppends
  /\ disk' = <<>> /\ handed' = <<>> /\ durable' = 0
  /\ nextWriterNumber' = 0 /\ rotated' = {} /\ reused' = FALSE
  /\ currentWriter' = [num |-> 0, pos |-> 0, open |-> FALSE]
  /\ stage' = "create" /\ req' = NoRecord("New")
  /\ UNCHANGED <<unflushed, appends, rotates>>

Reopen ==
  /\ LogStopped /\ appends < MaxAppends
  /\ handed' = Replay.recs /\ durable' = Len(handed')
  /\ nextWriterNumber' = 0 /\ rotated' = {} /\ reused' = TRUE
  /\ currentWriter' = [num |-> 0, pos |-> 0, open |-> FALSE]
  /\ stage' = "create" /\ req' = NoRecord("New")
  /\ UNCHANGED <<disk, unflushed, appends, rotates>>

WalNext ==
  \/ \E rec \in WalRecords, sync \in BOOLEAN : AppendRecord(rec, sync)
  \/ WriteRecord \/ SyncRecord \/ Rotate \/ RotateClose \/ WriterClosed
  \/ TooManyFiles \/ CreateWriter \/ OpenWriter \/ CloseLog
  \/ KillLog \/ CleanAndReopen \/ Reopen

WalSpec == WalInit /\ [][WalNext]_walVars

-----------------------------------------------------------------------------
(***************************************************************************)
(* Whatever Replay hands to its callback, at any time and after any kill,  *)
(* is a prefix of the records in the order they were appended, across all  *)
(* rotations, and has every record that AppendSync acknowledged, if the    *)
(* log was created in an empty folder.  After Close it is all of them and  *)
(* no error, even when a rotation failed and appends were refused before.  *)
(***************************************************************************)
InOrder(replayed) ==
  /\ IsPrefix(replayed.recs, handed) /\ Len(replayed.recs) >= durable
  /\ stage = "closed" => replayed = [recs |-> handed, err |-> "nil"]

ReplayKeepsOrder == ~reused => InOrder(Replay)

(***************************************************************************)
(* The file whose path Rotate returned is never written again: SimpleDB    *)
(* removes it once the memstore that goes with it is flushed.              *)
(***************************************************************************)
RotatedIsFinal ==
  [][\A i \in rotated : i \in DOMAIN disk' => disk'[i] = disk[i]]_walVars

(***************************************************************************)
(* Opening a log on the files of an earlier one changes nothing of what    *)
(* Replay returns, even if a kill falls into it: the first file is not     *)
(* truncated and the same header is written over the old one.              *)
(***************************************************************************)
OpeningKeepsRecords == req.call = "New" => Replay.recs = handed

====
