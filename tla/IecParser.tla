----------------------------- MODULE IecParser -----------------------------
(***************************************************************************)
(* iec::IecParser::parse (include/iec_core/iec/iec_parser.h) over one      *)
(* StaticBuffer (include/iec_core/utils/buffer.h): it walks over the       *)
(* frames the engine has put into the buffer and collects their ASDU.  The *)
(* bytes from written on are what earlier batches left there.              *)
(*                                                                         *)
(* A step is one field of the format.  Of an ASDU the counter and the      *)
(* magnitudes of its data units are kept: nothing reads the rest.          *)
(***************************************************************************)
EXTENDS Integers, Sequences

CONSTANTS Size,     \* of the StaticBuffer
          Inputs    \* bound: the buffers parsed, records with data and written

ASSUME ParserAssumption ==
  /\ Size \in Nat
  /\ \A i \in Inputs : i.data \in [0..(Size - 1) -> 0..255] /\ i.written \in 0..Size

U16Mod == 65536
U8Mod  == 256
EtherHeader == 14
PDUHeader   == 8

VARIABLES input,
          offset,        \* buffer.offset
          internalFrameLength, asduLength,
          seqCount,      \* the ASDU of the frame still to parse
          field,         \* the next field of the current ASDU
          smpCnt, sequence,
          pc,
          base, length,  \* where the frame's PDU starts and how long its header says it is
          outcome        \* of the last call of parsePDU

vars == <<input, offset, internalFrameLength, asduLength, seqCount, field, smpCnt, sequence,
          pc, base, length, outcome>>
frame == <<input, base, length>>

(* StaticBuffer::read: the object's bytes as they lie in memory, which are *)
(* zero when it would reach the buffer's last byte.                        *)
InBuffer(at, count) == Size > at + count
Read(at, count) == [k \in 1..count |-> IF InBuffer(at, count) THEN input.data[at + k - 1] ELSE 0]

(* Mutation: the host is taken for a big-endian one.                       *)
Unswapped(bytes) == bytes

(* bytes::byteswap.                                                        *)
ByteSwap(bytes) == [k \in DOMAIN bytes |-> bytes[Len(bytes) + 1 - k]]

ReadU8(at) == Read(at, 1)[1]

(* The value of a little-endian word, and of a double word cast to i32.    *)
ReadU16(at) == LET word == ByteSwap(Read(at, 2)) IN word[1] + 256 * word[2]
ReadI32(at) == LET dword == ByteSwap(Read(at, 4)) IN
               dword[1] + 256 * (dword[2] + 256 * (dword[3] + 256 *
                 IF dword[4] < 128 THEN dword[4] ELSE dword[4] - 256))

Init == /\ input \in Inputs
        /\ offset = 0 /\ internalFrameLength = 0 /\ asduLength = 0
        /\ seqCount = 0 /\ field = 1 /\ smpCnt = 0 /\ sequence = <<>>
        /\ pc = "frame" /\ base = 0 /\ length = 0 /\ outcome = "none"

(* The reads and appendOffset move the offset; the frame's length is       *)
(* lowered behind each of them by a statement of its own.                  *)
Consume(read, subtracted) ==
  /\ offset' = offset + read
  /\ internalFrameLength' = (internalFrameLength - subtracted) % U16Mod

(* return false after n more readU8, each with its --internalFrameLength:  *)
(* the loop of parse takes what comes next for the start of a frame.       *)
Reject(n) == /\ Consume(n, n)
             /\ pc' = "frame" /\ outcome' = "rejected"
             /\ UNCHANGED <<asduLength, seqCount, field, smpCnt, sequence, frame>>

Accepts(n, label) == Consume(n, n) /\ pc' = label /\ UNCHANGED <<input, base, length, outcome>>

(* Mutation: the header is only skipped when there is something behind it. *)
SkippedIfLong(l) == IF l = 0 THEN 0 ELSE EtherHeader + PDUHeader

Skipped(l) == EtherHeader + PDUHeader

(* The loop of parse and the header of the PDU.                            *)
FrameHeader ==
  /\ pc = "frame" /\ offset < input.written
  /\ base' = offset + EtherHeader
  /\ length' = ReadU16(base' + 2)
  /\ offset' = offset + Skipped(length')
  /\ IF length' = 0
       THEN pc' = "frame" /\ outcome' = "rejected" /\ UNCHANGED internalFrameLength
       ELSE /\ internalFrameLength' = (length' - PDUHeader) % U16Mod
            /\ pc' = "savPdu" /\ UNCHANGED outcome
  /\ UNCHANGED <<input, asduLength, seqCount, field, smpCnt, sequence>>

Return == /\ pc = "frame" /\ offset >= input.written
          /\ pc' = "done"
          /\ UNCHANGED <<input, offset, internalFrameLength, asduLength, seqCount, field, smpCnt,
                         sequence, base, length, outcome>>

(* parseAsnLength: how many bytes it reads, and its result as far as       *)
(* verify, which takes a u16, looks at it.                                 *)
AsnBytes(at) == LET n == ReadU8(at) - 128 IN IF n \in 1..4 THEN 1 + n ELSE 1
AsnLength(at) == LET first == ReadU8(at)
                     n == first - 128 IN
                 CASE n < 0      -> first
                   [] n = 1      -> ReadU8(at + 1)
                   [] n \in 2..4 -> ReadU8(at + n - 1) * 256 + ReadU8(at + n)
                   [] OTHER      -> 0

(* A tag and a length that must be all that is left of the frame: savPDU   *)
(* and seqASDU.                                                            *)
Enclosing(from, tag, to) ==
  /\ pc = from
  /\ LET n == 1 + AsnBytes(offset + 1) IN
     \/ ReadU8(offset) # tag /\ Reject(1)
     \/ ReadU8(offset) = tag /\ AsnLength(offset + 1) # (internalFrameLength - n) % U16Mod /\ Reject(n)
     \/ /\ ReadU8(offset) = tag /\ AsnLength(offset + 1) = (internalFrameLength - n) % U16Mod
        /\ Accepts(n, to)
        /\ UNCHANGED <<asduLength, seqCount, field, smpCnt, sequence>>

SavPdu  == Enclosing("savPdu", 96, "noAsdu")
SeqAsdu == Enclosing("seqAsdu", 162, "asdu")

NoAsdu ==
  /\ pc = "noAsdu"
  /\ LET count == ReadU8(offset + 2) IN
     \/ ReadU8(offset) # 128 /\ Reject(1)
     \/ ReadU8(offset) = 128 /\ ReadU8(offset + 1) # 1 /\ Reject(2)
     \/ ReadU8(offset) = 128 /\ ReadU8(offset + 1) = 1 /\ count \notin 1..16 /\ Reject(3)
     \/ /\ ReadU8(offset) = 128 /\ ReadU8(offset + 1) = 1 /\ count \in 1..16
        /\ Accepts(3, "seqAsdu")
        /\ seqCount' = count
        /\ UNCHANGED <<asduLength, field, smpCnt, sequence>>

AsduHeader ==
  /\ pc = "asdu" /\ seqCount > 0
  /\ \/ ReadU8(offset) # 48 /\ Reject(1)
     \/ ReadU8(offset) = 48 /\ ReadU8(offset + 1) \notin 91..115 /\ Reject(2)
     \/ /\ ReadU8(offset) = 48 /\ ReadU8(offset + 1) \in 91..115
        /\ Accepts(2, "field")
        /\ asduLength' = ReadU8(offset + 1) /\ field' = 1
        /\ UNCHANGED <<seqCount, smpCnt, sequence>>

(* svID, smpCnt, confRev, smpSynch and the dataset: tag, length, contents. *)
Fields == <<[tag |-> 128, lengths |-> 10..34],
            [tag |-> 130, lengths |-> {2}],
            [tag |-> 131, lengths |-> {4}],
            [tag |-> 133, lengths |-> {1}],
            [tag |-> 135, lengths |-> {64}]>>

Units == 0..7   \* of an ASDU: four currents and four voltages

(* What is read behind the tag and the length of each field: svIdLength    *)
(* bytes appended to the offset, a u16, a u32, a u8, and of every unit a   *)
(* u32 and two u16.                                                        *)
ContentsRead(f, n) == <<n, 2, 4, 1, 8 * (4 + 2 + 2)>>[f]

(* Mutation: the last word of a data unit is not subtracted.               *)
ButTheBitset(f, n) == <<n, 2, 4, 1, 8 * (4 + 2)>>[f]

(* What internalFrameLength is lowered by for it: svIdLength, the sizeof   *)
(* of smpCnt and confRev, one, and the sizeof of the members of a unit.    *)
ContentsSubtracted(f, n) == <<n, 2, 4, 1, 8 * (4 + 2 + 2)>>[f]

(* What asduLength is lowered by: the sizeof of tag, length and contents,  *)
(* but of the dataset, as of the svID, the length read from the frame.     *)
AsduSubtracted(f, n) == <<1 + 1 + n, 1 + 1 + 2, 1 + 1 + 4, 1 + 1 + 1, 1 + 1 + n>>[f]

(* Mutation: the quality behind a magnitude is not read.                   *)
UnitWithoutQuality(at, u) == at + 4 * u

UnitAt(at, u) == at + 8 * u

(* The dataset ends the ASDU, which is stored before its length is checked.*)
StoreAsdu(at) ==
  sequence' = Append(sequence, [smpCnt |-> smpCnt, data |-> [u \in Units |-> ReadI32(UnitAt(at, u))]])

AsduField ==
  /\ pc = "field"
  /\ LET n    == ReadU8(offset + 1)
         rest == (asduLength - AsduSubtracted(field, n)) % U8Mod IN
     \/ ReadU8(offset) # Fields[field].tag /\ Reject(1)
     \/ ReadU8(offset) = Fields[field].tag /\ n \notin Fields[field].lengths /\ Reject(2)
     \/ /\ ReadU8(offset) = Fields[field].tag /\ n \in Fields[field].lengths
        /\ Consume(2 + ContentsRead(field, n), 2 + ContentsSubtracted(field, n))
        /\ asduLength' = rest
        /\ smpCnt' = IF field = 2 THEN ReadU16(offset + 2) ELSE smpCnt
        /\ IF field < Len(Fields)
             THEN /\ field' = field + 1
                  /\ UNCHANGED <<pc, seqCount, sequence, outcome>>
             ELSE /\ StoreAsdu(offset + 2)
                  /\ IF rest = 0 THEN pc' = "asdu" /\ seqCount' = seqCount - 1 /\ UNCHANGED outcome
                                 ELSE pc' = "frame" /\ outcome' = "rejected" /\ UNCHANGED seqCount
                  /\ UNCHANGED field
        /\ UNCHANGED frame

(* Mutation: the final verify(0) is missing.                               *)
EndUnverified ==
  /\ pc = "asdu" /\ seqCount = 0
  /\ pc' = "frame" /\ outcome' = "accepted"
  /\ UNCHANGED <<offset, internalFrameLength, asduLength, seqCount, field, smpCnt, sequence, frame>>

EndOfFrame ==
  /\ pc = "asdu" /\ seqCount = 0
  /\ pc' = "frame"
  /\ outcome' = IF internalFrameLength = 0 THEN "accepted" ELSE "rejected"
  /\ UNCHANGED <<offset, internalFrameLength, asduLength, seqCount, field, smpCnt, sequence, frame>>

(* convert: the points appended to what the caller has, in thousandths.    *)
(* The rounding to f32 is left out: it keeps the order of two magnitudes   *)
(* or makes them equal, and no property is about a value's last digits.    *)
Convert(from, to) ==
  to \o [i \in 1..Len(from) |-> [u \in Units |-> from[i].data[u] * IF u < 4 THEN 1 ELSE 10]]

Next == \/ FrameHeader \/ SavPdu \/ NoAsdu \/ SeqAsdu \/ AsduHeader \/ AsduField \/ EndOfFrame
        \/ Return

Spec == Init /\ [][Next]_vars

FairSpec == Spec /\ WF_vars(Next)
-----------------------------------------------------------------------------
InPDU == pc \in {"savPdu", "noAsdu", "seqAsdu", "asdu", "field"}

TypeOK == /\ input \in Inputs
          /\ offset \in Nat /\ base \in Nat
          /\ length \in 0..(U16Mod - 1) /\ internalFrameLength \in 0..(U16Mod - 1)
          /\ asduLength \in 0..(U8Mod - 1)
          /\ seqCount \in 0..16 /\ field \in 1..Len(Fields)
          /\ pc \in {"frame", "savPdu", "noAsdu", "seqAsdu", "asdu", "field", "done"}
          /\ outcome \in {"none", "accepted", "rejected"}

(* The u16 internalFrameLength, lowered by hand behind every read, always  *)
(* is what is left of the length in the PDU's header, modulo 2^16.         *)
LengthIsAccounted == InPDU => internalFrameLength = (length - (offset - base)) % U16Mod

(* A frame that parsePDU accepts ends exactly where its header says, so    *)
(* that the loop of parse goes on at the next frame.                       *)
AcceptedEndsRight == pc = "frame" /\ outcome = "accepted" => offset = base + length

(* The most that one call of parsePDU consumes: 23 bytes up to the ASDU,   *)
(* and 16 ASDU of at most 117.                                             *)
MaxPDU == 23 + 16 * 117

(* A bound on the steps to the end of parse; only the end of a frame takes *)
(* one that consumes nothing.                                              *)
StepsLeft == IF pc = "done" THEN 0
             ELSE 1 + 2 * (input.written + EtherHeader + MaxPDU - offset) + IF InPDU THEN 1 ELSE 0

(* Every step brings the end of parse nearer, and the offset runs past     *)
(* what was written by less than one frame, whatever the bytes are and     *)
(* wherever the parser has lost its place.                                 *)
Advances == [][StepsLeft' \in 0..(StepsLeft - 1)]_vars

(* parse comes to an end whatever the bytes are.                           *)
Terminates == <>(pc = "done")
=============================================================================
