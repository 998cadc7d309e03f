---------------------------- MODULE RecordFormat -----------------------------
(***************************************************************************)
(* The bytes of a record file, of versions 1, 2 and 3: what the writer     *)
(* puts there for a record and what the readers make of a record's header. *)
(* A file is a sequence of bytes; an offset counts from zero.              *)
(***************************************************************************)
EXTENDS Integers, Sequences, FiniteSetsExt, SequencesExt

FileHeaderSizeBytes == 8
RecordHeaderSizeBytesV1 == 20
MagicNumberSeparatorLong == 1246865
MagicNumberSeparatorLongBytes == <<145, 141, 76>>

(***************************************************************************)
(* A nil record, which version 3 tells from an empty one.                  *)
(***************************************************************************)
NilRecord == <<-1>>

ByteAt(b, o) == b[o + 1]

(***************************************************************************)
(* encoding/binary: fixed width integers below 256 and varints.  A varint  *)
(* of more than four bytes is a number larger than any file.               *)
(***************************************************************************)
LittleEndian(width, x) == [i \in 1..width |-> IF i = 1 THEN x ELSE 0]

RECURSIVE PutUvarint(_)
PutUvarint(x) ==
  IF x < 128 THEN <<x>> ELSE <<128 + (x % 128)>> \o PutUvarint(x \div 128)

UvarintBytes == 4
HugeUvarint == 2 ^ 28

UvarintValue(s) ==
  IF Len(s) > UvarintBytes THEN HugeUvarint
  ELSE FoldRight(LAMBDA x, rest : (x % 128) + 128 * rest, s, 0)

(***************************************************************************)
(* The errors a caller can tell apart are "EOF", the end of the file,      *)
(* "mismatch", a separator that is not there, and "error", any other.      *)
(***************************************************************************)
ReadUvarint(b, o) ==
  LET ends == {i \in o..(Len(b) - 1) : ByteAt(b, i) < 128}
  IN  IF o >= Len(b) THEN [err |-> "EOF", val |-> 0, next |-> o]
      ELSE IF ends = {} THEN [err |-> "error", val |-> 0, next |-> Len(b)]
      ELSE [err |-> "nil", next |-> Min(ends) + 1,
            val |-> UvarintValue(SubSeq(b, o + 1, Min(ends) + 1))]

(***************************************************************************)
(* Compressors turn every record, the empty one too, into at least one     *)
(* byte.                                                                   *)
(***************************************************************************)
Compress(rec) == <<Len(rec)>> \o rec
IsCompressed(s) == s # <<>> /\ s[1] = Len(s) - 1
Decompress(s) == Tail(s)

-----------------------------------------------------------------------------
(***************************************************************************)
(* Writing.                                                                *)
(***************************************************************************)
FileHeaderAsByteSlice(version, compressionType) ==
  LittleEndian(4, version) \o LittleEndian(4, compressionType)

RecordHeaderV1(uncompressed, compressed) ==
  <<145, 6, 19, 0>> \o LittleEndian(8, uncompressed) \o LittleEndian(8, compressed)

FillRecordHeaderV2(uncompressed, compressed) ==
  PutUvarint(MagicNumberSeparatorLong) \o PutUvarint(uncompressed)
    \o PutUvarint(compressed)

FillRecordHeaderV3(uncompressed, compressed, isNil) ==
  PutUvarint(MagicNumberSeparatorLong) \o <<IF isNil THEN 1 ELSE 0>>
    \o PutUvarint(uncompressed) \o PutUvarint(compressed)

(***************************************************************************)
(* What Write hands to the buffer for a record, a piece per call: a nil    *)
(* record has the sizes of an empty one and no payload.                    *)
(***************************************************************************)
RecordPieces(version, compressed, rec) ==
  LET plain   == IF rec = NilRecord THEN <<>> ELSE rec
      payload == IF compressed THEN Compress(plain) ELSE plain
      packed  == IF compressed THEN Len(payload) ELSE 0
      header  == CASE version = 1 -> RecordHeaderV1(Len(plain), packed)
                   [] version = 2 -> FillRecordHeaderV2(Len(plain), packed)
                   [] version = 3 ->
                        FillRecordHeaderV3(Len(plain), packed, rec = NilRecord)
  IN  IF rec = NilRecord THEN <<header>> ELSE <<header, payload>>

-----------------------------------------------------------------------------
(***************************************************************************)
(* Record headers.  next is the offset behind the bytes consumed.          *)
(***************************************************************************)
NoHeader(err, next) ==
  [err |-> err, isNil |-> FALSE, uncompressed |-> 0, compressed |-> 0, next |-> next]

ReadRecordHeaderV1(b, o) ==
  LET buffer == SubSeq(b, o + 1, o + RecordHeaderSizeBytesV1)
  IN  IF SubSeq(buffer, 1, 4) # <<145, 6, 19, 0>>
      THEN NoHeader("mismatch", o + RecordHeaderSizeBytesV1)
      ELSE [err |-> "nil", isNil |-> FALSE, uncompressed |-> buffer[5],
            compressed |-> buffer[13], next |-> o + RecordHeaderSizeBytesV1]

ReadSizes(b, o, isNil) ==
  LET u == ReadUvarint(b, o)
      c == ReadUvarint(b, u.next)
  IN  IF u.err # "nil" THEN NoHeader(u.err, u.next)
      ELSE IF c.err # "nil" THEN NoHeader(c.err, c.next)
      ELSE [err |-> "nil", isNil |-> isNil, uncompressed |-> u.val,
            compressed |-> c.val, next |-> c.next]

ReadRecordHeaderV2(b, o) ==
  LET magic == ReadUvarint(b, o)
  IN  IF magic.err # "nil" THEN NoHeader(magic.err, magic.next)
      ELSE IF magic.val # MagicNumberSeparatorLong
      THEN NoHeader("mismatch", magic.next)
      ELSE ReadSizes(b, magic.next, FALSE)

ReadRecordHeaderV3(b, o) ==
  LET magic == ReadUvarint(b, o)
  IN  IF magic.err # "nil" THEN NoHeader(magic.err, magic.next)
      ELSE IF magic.val # MagicNumberSeparatorLong
      THEN NoHeader("mismatch", magic.next)
      ELSE IF magic.next >= Len(b) THEN NoHeader("EOF", magic.next)
      ELSE ReadSizes(b, magic.next + 1, ByteAt(b, magic.next) = 1)

PayloadSize(compressed, h) == IF compressed THEN h.compressed ELSE h.uncompressed

====
