--------------------------- MODULE RecordReaders ----------------------------
(***************************************************************************)
(* The operations of FileReader and MMapReader on a file b.  The result of *)
(* a read is an error, a record and the offset behind it.                  *)
(***************************************************************************)
EXTENDS RecordFormat

Failed(err) == [err |-> err, rec |-> NilRecord, next |-> 0]

(***************************************************************************)
(* The file header.  CompressionTypeLzw is the last of four types.         *)
(***************************************************************************)
ReadFileHeaderFromBuffer(b) ==
  IF b[1] \in 1..3 /\ b[5] \in 0..3 THEN "nil" ELSE "error"

FileReaderOpen(b) ==
  IF b = <<>> THEN "EOF"
  ELSE IF Len(b) < FileHeaderSizeBytes THEN "error"
  ELSE ReadFileHeaderFromBuffer(b)

MMapReaderOpen(b) ==
  IF Len(b) < FileHeaderSizeBytes THEN "EOF" ELSE ReadFileHeaderFromBuffer(b)

FileVersion(b) == b[1]
HasCompressor(b) == b[5] # 0

(***************************************************************************)
(* The record of a payload that was read completely.                       *)
(***************************************************************************)
Unpack(b, o, n) ==
  LET payload == SubSeq(b, o + 1, o + n)
  IN  IF ~HasCompressor(b) THEN [err |-> "nil", rec |-> payload, next |-> o + n]
      ELSE IF IsCompressed(payload)
      THEN [err |-> "nil", rec |-> Decompress(payload), next |-> o + n]
      ELSE Failed("error")

-----------------------------------------------------------------------------
(***************************************************************************)
(* FileReader.  io.ReadFull is at the end of the file only if there is not *)
(* a single byte; a part of the bytes is another error.                    *)
(***************************************************************************)
ReadFull(b, o, n) ==
  IF o + n <= Len(b) THEN "nil" ELSE IF o >= Len(b) THEN "EOF" ELSE "error"

ReadPayload(b, h) ==
  LET n == PayloadSize(HasCompressor(b), h)
  IN  IF ReadFull(b, h.next, n) # "nil" THEN Failed(ReadFull(b, h.next, n))
      ELSE Unpack(b, h.next, n)

(***************************************************************************)
(* Zeros behind a separator that is not there are the padding of a block.  *)
(***************************************************************************)
RemainderIsZero(b, o) == \A i \in o..(Len(b) - 1) : ByteAt(b, i) = 0

HeaderFailed(b, h) ==
  IF h.err # "mismatch" THEN Failed(h.err)
  ELSE IF RemainderIsZero(b, h.next) THEN Failed("EOF")
  ELSE Failed("error")

ReadNextV1(b, o) ==
  LET full == ReadFull(b, o, RecordHeaderSizeBytesV1)
      h    == ReadRecordHeaderV1(b, o)
  IN  IF full # "nil" THEN Failed(full)
      ELSE IF h.err # "nil" THEN Failed("error")
      ELSE ReadPayload(b, h)

ReadNextV2(b, h) ==
  IF h.err # "nil" THEN HeaderFailed(b, h) ELSE ReadPayload(b, h)

ReadNextV3(b, h) ==
  IF h.err = "nil" /\ h.isNil
  THEN [err |-> "nil", rec |-> NilRecord, next |-> h.next]
  ELSE ReadNextV2(b, h)

ReadNext(b, o) ==
  CASE FileVersion(b) = 1 -> ReadNextV1(b, o)
    [] FileVersion(b) = 2 -> ReadNextV2(b, ReadRecordHeaderV2(b, o))
    [] OTHER -> ReadNextV3(b, ReadRecordHeaderV3(b, o))

(***************************************************************************)
(* Skipping: o is where the stream is, current the offset the reader keeps *)
(* for itself.  Seeking past the end of the file is no error.              *)
(***************************************************************************)
\* Mutant of SeekBehind: forgets that the header was read, too.
SeekBehindPayload(b, o, current, h) ==
  [err  |-> "nil", rec |-> NilRecord,
   next |-> current + PayloadSize(HasCompressor(b), h)]

SeekBehind(b, o, current, h) ==
  [err  |-> "nil", rec |-> NilRecord,
   next |-> current + PayloadSize(HasCompressor(b), h) + (h.next - o)]

SkipNextV1(b, o, current) ==
  LET full == ReadFull(b, o, RecordHeaderSizeBytesV1)
      h    == ReadRecordHeaderV1(b, o)
  IN  IF full # "nil" THEN Failed(full)
      ELSE IF h.err # "nil" THEN Failed(h.err)
      ELSE SeekBehind(b, o, current, h)

SkipNextV2(b, o, current, h) ==
  IF h.err # "nil" THEN Failed(h.err) ELSE SeekBehind(b, o, current, h)

SkipNext(b, o, current) ==
  CASE FileVersion(b) = 1 -> SkipNextV1(b, o, current)
    [] FileVersion(b) = 2 -> SkipNextV2(b, o, current, ReadRecordHeaderV2(b, o))
    [] OTHER -> SkipNextV2(b, o, current, ReadRecordHeaderV3(b, o))

(***************************************************************************)
(* Every record from offset o on, and the error that ended the loop.       *)
(***************************************************************************)
RECURSIVE ReadAllFrom(_, _)
ReadAllFrom(b, o) ==
  LET r == ReadNext(b, o)
  IN  IF r.err # "nil" THEN [recs |-> <<>>, err |-> r.err]
      ELSE LET rest == ReadAllFrom(b, r.next)
           IN  [recs |-> <<r.rec>> \o rest.recs, err |-> rest.err]

ReadAll(b) ==
  IF FileReaderOpen(b) # "nil" THEN [recs |-> <<>>, err |-> FileReaderOpen(b)]
  ELSE ReadAllFrom(b, FileHeaderSizeBytes)

-----------------------------------------------------------------------------
(***************************************************************************)
(* MMapReader.  A read that ends short is the end of the file, one that    *)
(* starts behind the end is another error.                                 *)
(***************************************************************************)
ReadAt(b, o, n) ==
  IF o > Len(b) THEN "error" ELSE IF o + n > Len(b) THEN "EOF" ELSE "nil"

ReadPayloadAt(b, h) ==
  LET n == PayloadSize(HasCompressor(b), h)
  IN  IF ReadAt(b, h.next, n) # "nil" THEN Failed(ReadAt(b, h.next, n))
      ELSE Unpack(b, h.next, n)

ReadNextAtV1(b, o) ==
  LET full == ReadAt(b, o, RecordHeaderSizeBytesV1)
      h    == ReadRecordHeaderV1(b, o)
  IN  IF full # "nil" THEN Failed(full)
      ELSE IF h.err # "nil" THEN Failed(h.err)
      ELSE ReadPayloadAt(b, h)

ReadNextAtV2(b, o) ==
  LET h == ReadRecordHeaderV2(b, o)
  IN  IF o > Len(b) THEN Failed("error")
      ELSE IF h.err # "nil" THEN Failed(h.err)
      ELSE ReadPayloadAt(b, h)

ReadNextAt(b, o) ==
  LET h == ReadRecordHeaderV3(b, o)
  IN  CASE FileVersion(b) = 1 -> ReadNextAtV1(b, o)
        [] FileVersion(b) = 2 -> ReadNextAtV2(b, o)
        [] OTHER ->
             IF o > Len(b) THEN Failed("error")
             ELSE IF h.err # "nil" THEN Failed(h.err)
             ELSE IF h.isNil
             THEN [err |-> "nil", rec |-> NilRecord, next |-> h.next]
             ELSE ReadPayloadAt(b, h)

(***************************************************************************)
(* SeekNext reads the file in windows of seekLen bytes.  In the window at  *)
(* next it compares from index i on: after a byte that differs it goes on  *)
(* behind that byte, after a marker that is no record behind the marker,   *)
(* and at the end of the window it starts a new one at i.                  *)
(***************************************************************************)
MarkerBytes(b, o, end) ==
  LET match(m) == \A j \in 1..m : /\ o + j <= end
                                  /\ b[o + j] = MagicNumberSeparatorLongBytes[j]
  IN  Max({m \in 0..3 : match(m)})

Found(o, r) == [err |-> "nil", rec |-> r.rec, off |-> o]
NotFound == [err |-> "EOF", rec |-> NilRecord, off |-> 0]

\* Mutant of Rewind: goes on behind a marker that crosses the window.
RewindNot(next, i, end) == end

Rewind(next, i, end) == next + i

RECURSIVE SeekIn(_, _, _, _)
SeekIn(b, next, i, seekLen) ==
  LET end == Min({next + seekLen, Len(b)})
      m   == MarkerBytes(b, next + i, end)
      nextWindow == IF i = 0 THEN NotFound
                    ELSE SeekIn(b, Rewind(next, i, end), 0, seekLen)
      trial == ReadNextAt(b, next + i)
  IN  IF next + i >= end \/ (m > 0 /\ next + i + m >= end) THEN nextWindow
      ELSE IF m < 3 THEN SeekIn(b, next, i + m + 1, seekLen)
      ELSE IF trial.err = "nil" THEN Found(next + i, trial)
      ELSE SeekIn(b, next, i + m, seekLen)

SeekNext(b, o, seekLen) ==
  IF FileVersion(b) < 2 \/ o > Len(b)
  THEN [err |-> "error", rec |-> NilRecord, off |-> 0]
  ELSE SeekIn(b, o, 0, seekLen)

====
