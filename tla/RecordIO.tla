------------------------------ MODULE RecordIO -------------------------------
(***************************************************************************)
(* A record file from its creation to its readers: FileWriter on the       *)
(* buffered Writer, the file, and a FileReader opened after Close.  A step *)
(* of the writer makes at most one write(2).                               *)
(***************************************************************************)
EXTENDS RecordReaders, FiniteSets

CONSTANTS
  Configurations, \* options of the files, and the bounds of what happens to them
  SeekLen,        \* bytes of the search window of SeekNext
  SkipsNil        \* SkipNext is called on nil records of compressed files

(***************************************************************************)
(* The options: the file version (1 and 2 are written by older releases),  *)
(* with or without a compressor, direct or buffered I/O, and the bytes of  *)
(* the write buffer, which is the block of direct I/O.  The bounds: what   *)
(* is written, sequences of bytes and NilRecord, calls of Write and        *)
(* WriteSync, calls of Seek, and whether the process may be killed and     *)
(* write(2) may end short.                                                 *)
(***************************************************************************)
Configuration ==
  [version : 1..3, compressed : BOOLEAN, aligned : BOOLEAN, bufferSize : Nat,
   records : SUBSET Seq(Int), maxWrites : Nat, maxSeeks : Nat, faults : BOOLEAN]

ASSUME RecordIOAssumption ==
  /\ \A c \in Configurations :
       c \in Configuration /\ c.bufferSize >= FileHeaderSizeBytes
  /\ SeekLen > 3
  /\ SkipsNil \in BOOLEAN

VARIABLES
  conf,           \* the configuration of the file
  file, fpos,     \* the bytes on disk and the position of the descriptor
  buf,            \* Writer.buf up to n
  pc,             \* the call in progress
  toWrite,        \* pieces the call still has to put into the buffer
  cur,            \* its record
  target,         \* the offset a Seek goes to
  currentOffset, largestOffset,
  log,            \* records written, with their offsets, less those sought away
  synced,         \* how many of them WriteSync has acknowledged
  writes, seeks,
  rd              \* the FileReader

wvars == <<file, fpos, buf, pc, toWrite, cur, target, currentOffset, largestOffset,
           log, synced, writes, seeks>>
vars == <<conf, rd, wvars>>

Compression == IF conf.compressed THEN 2 ELSE 0

Init ==
  /\ conf \in Configurations
  /\ file = <<>> /\ fpos = 0 /\ buf = <<>>
  /\ pc = "new" /\ toWrite = <<>> /\ cur = NilRecord /\ target = 0
  /\ currentOffset = 0 /\ largestOffset = 0
  /\ log = <<>> /\ synced = 0 /\ writes = 0 /\ seeks = 0
  /\ rd = [pc |-> "closed", pos |-> 0, off |-> 0, ix |-> 0, last |-> "none",
           rec |-> NilRecord]

-----------------------------------------------------------------------------
(***************************************************************************)
(* write(2) at the position of the descriptor.  It may write a part and    *)
(* fail; the buffered Writer keeps the error and refuses every later call. *)
(* Direct I/O refuses what is not a whole number of blocks.                *)
(***************************************************************************)
Spliced(d) ==
  SubSeq(file, 1, fpos) \o d \o SubSeq(file, fpos + Len(d) + 1, Len(file))

Accepted(d) ==
  conf.aligned => fpos % conf.bufferSize = 0 /\ Len(d) % conf.bufferSize = 0

WriteFile(d) ==
  /\ Accepted(d)
  /\ file' = Spliced(d)
  /\ fpos' = fpos + Len(d)

WriteFileFails(d) ==
  /\ conf.faults \/ ~Accepted(d)
  /\ \E n \in 0..(IF Accepted(d) THEN Len(d) - 1 ELSE 0) :
       /\ file' = Spliced(SubSeq(d, 1, n))
       /\ fpos' = fpos + n
  /\ pc' = "failed"
  /\ UNCHANGED <<conf, rd, buf, toWrite, cur, target, currentOffset, largestOffset,
                 log, synced, writes, seeks>>

(***************************************************************************)
(* Writer.Flush, which fills a block with zeros for direct I/O.            *)
(***************************************************************************)
Zeros(n) == [i \in 1..n |-> 0]

ToFlush ==
  IF conf.aligned THEN buf \o Zeros(conf.bufferSize - Len(buf)) ELSE buf

Flush ==
  IF buf = <<>> THEN UNCHANGED <<file, fpos, buf>>
  ELSE WriteFile(ToFlush) /\ buf' = <<>>

FlushFails == buf # <<>> /\ WriteFileFails(ToFlush)

Available == conf.bufferSize - Len(buf)

(***************************************************************************)
(* One round of Writer.Write with the piece p: it fits, or it is written   *)
(* past the empty buffer, or it fills the buffer, which is flushed.        *)
(***************************************************************************)
BufferFits(p) ==
  /\ Len(p) <= Available
  /\ buf' = buf \o p /\ toWrite' = Tail(toWrite)
  /\ UNCHANGED <<file, fpos>>

BufferBypassed(p) ==
  /\ Len(p) > Available /\ buf = <<>>
  /\ WriteFile(p)
  /\ toWrite' = Tail(toWrite)
  /\ UNCHANGED buf

BufferFilled(p) ==
  /\ Len(p) > Available /\ buf # <<>>
  /\ WriteFile(buf \o SubSeq(p, 1, Available))
  /\ buf' = <<>>
  /\ toWrite' = <<SubSeq(p, Available + 1, Len(p))>> \o Tail(toWrite)

BufferWrite ==
  /\ pc \in {"write", "writeSync"} /\ toWrite # <<>>
  /\ LET p == Head(toWrite)
     IN  BufferFits(p) \/ BufferBypassed(p) \/ BufferFilled(p)
  /\ UNCHANGED <<conf, rd, pc, cur, target, currentOffset, largestOffset, log,
                 synced, writes, seeks>>

BufferWriteFails ==
  /\ pc \in {"write", "writeSync"} /\ toWrite # <<>>
  /\ Len(Head(toWrite)) > Available
  /\ WriteFileFails(IF buf = <<>> THEN Head(toWrite)
                    ELSE buf \o SubSeq(Head(toWrite), 1, Available))

-----------------------------------------------------------------------------
(***************************************************************************)
(* Open puts the file header into the buffer and flushes it, except for    *)
(* direct I/O.                                                             *)
(***************************************************************************)
WriterOpen ==
  /\ pc = "new"
  /\ buf' = FileHeaderAsByteSlice(conf.version, Compression)
  /\ currentOffset' = FileHeaderSizeBytes /\ largestOffset' = FileHeaderSizeBytes
  /\ pc' = IF conf.aligned THEN "idle" ELSE "opening"
  /\ UNCHANGED <<conf, rd, file, fpos, toWrite, cur, target, log, synced, writes, seeks>>

FlushHeader ==
  /\ pc = "opening" /\ Flush
  /\ pc' = "idle"
  /\ UNCHANGED <<conf, rd, toWrite, cur, target, currentOffset, largestOffset, log,
                 synced, writes, seeks>>

(***************************************************************************)
(* Write and WriteSync.  A nil record does not move largestOffset.         *)
(***************************************************************************)
StartWrite(rec, call) ==
  /\ pc = "idle" /\ writes < conf.maxWrites
  /\ conf.version < 3 => rec # NilRecord
  /\ toWrite' = RecordPieces(conf.version, conf.compressed, rec)
  /\ cur' = rec /\ pc' = call /\ writes' = writes + 1
  /\ UNCHANGED <<conf, rd, file, fpos, buf, target, currentOffset, largestOffset,
                 log, synced, seeks>>

Write(rec) == StartWrite(rec, "write")

WriteSync(rec) == ~conf.aligned /\ StartWrite(rec, "writeSync")

BytesWritten ==
  LET pieces == RecordPieces(conf.version, conf.compressed, cur)
  IN  Len(pieces[1]) + (IF cur = NilRecord THEN 0 ELSE Len(pieces[2]))

WriteDone ==
  /\ pc \in {"write", "writeSync"} /\ toWrite = <<>>
  /\ currentOffset' = currentOffset + BytesWritten
  /\ largestOffset' = IF cur = NilRecord THEN largestOffset
                      ELSE Max({largestOffset, currentOffset'})
  /\ log' = Append(log, [off |-> currentOffset, rec |-> cur])
  /\ pc' = IF pc = "write" THEN "idle" ELSE "sync"
  /\ UNCHANGED <<conf, rd, file, fpos, buf, toWrite, cur, target, synced, writes, seeks>>

\* Mutant of Sync: only full buffers reach the disk.
SyncUnflushed ==
  /\ pc = "sync"
  /\ pc' = "idle" /\ synced' = Len(log)
  /\ UNCHANGED <<conf, rd, file, fpos, buf, toWrite, cur, target, currentOffset,
                 largestOffset, log, writes, seeks>>

Sync ==
  /\ pc = "sync" /\ Flush
  /\ pc' = "idle" /\ synced' = Len(log)
  /\ UNCHANGED <<conf, rd, toWrite, cur, target, currentOffset, largestOffset, log,
                 writes, seeks>>

(***************************************************************************)
(* Seek, to the start of a record or to where the writer is: flush, then   *)
(* move the descriptor.                                                    *)
(***************************************************************************)
Seek(offset) ==
  /\ pc = "idle" /\ seeks < conf.maxSeeks
  /\ target' = offset /\ pc' = "seek" /\ seeks' = seeks + 1
  /\ UNCHANGED <<conf, rd, file, fpos, buf, toWrite, cur, currentOffset, largestOffset,
                 log, synced, writes>>

Moved == Max({largestOffset, currentOffset})

SeekDone ==
  /\ pc = "seek"
  /\ IF buf = <<>> THEN UNCHANGED file
     ELSE Accepted(ToFlush) /\ file' = Spliced(ToFlush)
  /\ buf' = <<>> /\ fpos' = target
  /\ largestOffset' = Moved /\ currentOffset' = target
  /\ log' = SelectSeq(log, LAMBDA e : e.off < target)
  /\ synced' = Min({synced, Len(log')})
  /\ pc' = "idle"
  /\ UNCHANGED <<conf, rd, toWrite, cur, target, writes, seeks>>

(***************************************************************************)
(* Close: flush, then cut off what lies behind the last record.            *)
(***************************************************************************)
Close ==
  /\ pc = "idle"
  /\ pc' = "closing"
  /\ UNCHANGED <<conf, rd, file, fpos, buf, toWrite, cur, target, currentOffset,
                 largestOffset, log, synced, writes, seeks>>

CloseFlush ==
  /\ pc = "closing" /\ Flush
  /\ pc' = "truncate"
  /\ UNCHANGED <<conf, rd, toWrite, cur, target, currentOffset, largestOffset, log,
                 synced, writes, seeks>>

\* Mutant of CloseTruncate: leaves what earlier writes have put behind the end.
CloseTruncateNever ==
  /\ pc = "truncate"
  /\ pc' = "closed"
  /\ UNCHANGED <<conf, rd, file, fpos, buf, toWrite, cur, target, currentOffset,
                 largestOffset, log, synced, writes, seeks>>

CloseTruncate ==
  /\ pc = "truncate"
  /\ file' = IF largestOffset > currentOffset THEN SubSeq(file, 1, currentOffset)
             ELSE file
  /\ pc' = "closed"
  /\ UNCHANGED <<conf, rd, fpos, buf, toWrite, cur, target, currentOffset,
                 largestOffset, log, synced, writes, seeks>>

FlushError == pc \in {"opening", "sync", "seek", "closing"} /\ FlushFails

Stopped == pc \in {"dead", "failed"}

KillWriter ==
  /\ conf.faults /\ ~Stopped /\ pc # "closed"
  /\ pc' = "dead"
  /\ UNCHANGED <<conf, rd, file, fpos, buf, toWrite, cur, target, currentOffset,
                 largestOffset, log, synced, writes, seeks>>

-----------------------------------------------------------------------------
(***************************************************************************)
(* A FileReader on the closed file: pos is its place in the stream, off    *)
(* its currentOffset, ix the number of records behind it.                  *)
(***************************************************************************)
ReaderOpen ==
  /\ pc = "closed" /\ rd.pc = "closed" /\ FileReaderOpen(file) = "nil"
  /\ rd' = [rd EXCEPT !.pc = "open", !.pos = FileHeaderSizeBytes,
                      !.off = FileHeaderSizeBytes]
  /\ UNCHANGED <<conf, wvars>>

Returned(r, call, off) ==
  IF r.err = "nil"
  THEN [rd EXCEPT !.pos = r.next, !.off = off, !.ix = @ + 1, !.last = call,
                  !.rec = r.rec]
  ELSE [rd EXCEPT !.pc = call, !.last = r.err]

ReaderReadNext ==
  /\ rd.pc = "open"
  /\ LET r == ReadNext(file, rd.pos)
     IN  rd' = Returned(r, "ReadNext", rd.off + (r.next - rd.pos))
  /\ UNCHANGED <<conf, wvars>>

ReaderSkipNext ==
  /\ rd.pc = "open"
  /\ ~SkipsNil /\ conf.compressed /\ rd.ix < Len(log) => log[rd.ix + 1].rec # NilRecord
  /\ LET r == SkipNext(file, rd.pos, rd.off)
     IN  rd' = Returned(r, "SkipNext", r.next)
  /\ UNCHANGED <<conf, wvars>>

-----------------------------------------------------------------------------
Writer ==
  \/ WriterOpen \/ FlushHeader \/ BufferWrite \/ BufferWriteFails \/ WriteDone
  \/ Sync \/ SeekDone \/ Close \/ CloseFlush \/ CloseTruncate \/ FlushError
  \/ \E rec \in conf.records : Write(rec) \/ WriteSync(rec)
  \/ \E offset \in {log[i].off : i \in DOMAIN log} \cup {currentOffset} : Seek(offset)

Next == Writer \/ KillWriter \/ ReaderOpen \/ ReaderReadNext \/ ReaderSkipNext

Spec == Init /\ [][Next]_vars

-----------------------------------------------------------------------------
LoggedRecords == [i \in DOMAIN log |-> log[i].rec]

OffsetAfter(i) == IF i < Len(log) THEN log[i + 1].off ELSE currentOffset

(***************************************************************************)
(* After Close a FileReader returns exactly the records written and not    *)
(* sought away, in order and then the end of the file, and an MMapReader   *)
(* opens the file and finds each of them at the offset Write returned.     *)
(***************************************************************************)
RoundTrip ==
  pc = "closed" =>
    /\ ReadAll(file) = [recs |-> LoggedRecords, err |-> "EOF"]
    /\ MMapReaderOpen(file) = "nil"
    /\ \A i \in DOMAIN log :
         LET r == ReadNextAt(file, log[i].off)
         IN  r.err = "nil" /\ r.rec = log[i].rec

(***************************************************************************)
(* SeekNext finds, from an offset of the file, the first record that       *)
(* starts there or later, and the end of the file behind the last one.     *)
(* The bytes it passes must not mislead it: by a payload with a marker     *)
(* from which a record can be read, or one that ends, right in front of    *)
(* the record sought, in a part of the marker, because the comparison goes *)
(* on behind the byte that differs.  A marker that leads nowhere does not. *)
(***************************************************************************)
FirstFrom(o) ==
  LET later == {i \in DOMAIN log : log[i].off >= o}
  IN  IF later = {} THEN NotFound
      ELSE Found(log[Min(later)].off, log[Min(later)])

Misleading(p, recordOffset) ==
  LET m == MarkerBytes(file, p, Len(file))
  IN  \/ m = 3 /\ ReadNextAt(file, p).err = "nil"
      \/ m \in 1..2 /\ p + m = recordOffset

Misled(o) ==
  LET later == {log[i].off : i \in DOMAIN log} \cap o..Len(file)
      recordOffset == Min(later \cup {Len(file)})
  IN  \E p \in o..(recordOffset - 1) : Misleading(p, recordOffset)

SeekNextFinds ==
  pc = "closed" /\ conf.version > 1 =>
    \A o \in 0..Len(file) : Misled(o) \/ SeekNext(file, o, SeekLen) = FirstFrom(o)

(***************************************************************************)
(* "SeekNext reads the next full record that comes after the provided      *)
(* offset", whatever the payloads are.                                     *)
(***************************************************************************)
SeekNextReadsNext ==
  pc = "closed" /\ conf.version > 1 =>
    \A o \in 0..Len(file) : SeekNext(file, o, SeekLen) = FirstFrom(o)

(***************************************************************************)
(* Until the writer seeks, the file is at any time a prefix of the bytes   *)
(* of its header and of the records handed to it, whatever pieces the      *)
(* buffer was flushed in (WriteAheadLog uses this of a writer).  So a file *)
(* left by a kill, which may fall into a write(2), or by an error of       *)
(* write(2), reads back whole records in the order they were written; all  *)
(* those WriteSync acknowledged are there, and a torn one is not returned. *)
(***************************************************************************)
Handed ==
  LoggedRecords \o (IF writes > Len(log) THEN <<cur>> ELSE <<>>)

Image(recs) ==
  FileHeaderAsByteSlice(conf.version, Compression)
    \o FlattenSeq([i \in DOMAIN recs |->
                     FlattenSeq(RecordPieces(conf.version, conf.compressed, recs[i]))])

StoppedKeepsPrefix ==
  seeks = 0 =>
    /\ ~conf.aligned => IsPrefix(file, Image(Handed))
    /\ Stopped => /\ IsPrefix(ReadAll(file).recs, Handed)
                  /\ Len(ReadAll(file).recs) >= synced

(***************************************************************************)
(* ReadNext and SkipNext in any order stay at the boundaries of records:   *)
(* ReadNext returns the record that follows those read and skipped before. *)
(* Where one of them fails is the end of the file, and it says so.  (At    *)
(* the padding of direct I/O SkipNext returns another error.)              *)
(***************************************************************************)
ReaderInStep ==
  /\ rd.pc = "open" =>
       /\ rd.ix <= Len(log)
       /\ rd.pos = OffsetAfter(rd.ix) /\ rd.off = rd.pos
       /\ rd.last = "ReadNext" => rd.rec = log[rd.ix].rec
  /\ rd.pc = "ReadNext" \/ (rd.pc = "SkipNext" /\ ~conf.aligned) =>
       rd.ix = Len(log) /\ rd.last = "EOF"

====
