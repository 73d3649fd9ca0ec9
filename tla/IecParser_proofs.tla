-------------------------- MODULE IecParser_proofs --------------------------
(***************************************************************************)
(* The parser keeps its place for every buffer size and whatever bytes it  *)
(* is given: its hand-kept u16 is what is left of the PDU, and a frame it  *)
(* accepts ends where its header says.  The second needs more than the     *)
(* first, because the u16 is only known modulo 2^16: a bound on what one   *)
(* frame can consume, kept step by step in Consumption.  The same bound    *)
(* shows that every step comes nearer to the end of the buffer.            *)
(*                                                                         *)
(* Where the bytes are frames as the standard lays them out, all of them   *)
(* are stored as they were meant.  Place says where in a frame the parser  *)
(* stands, and that what it has read so far is what the frame holds there; *)
(* once it has lost its place in a damaged frame, that it has stored only  *)
(* what was sent in front of where it stands, and what the bytes it        *)
(* accepted since look like.                                               *)
(***************************************************************************)
EXTENDS GoodFrames, SequenceTheorems, TLAPS

(* Time for every leaf on a machine that is busy with other things.        *)
USE SMTT(60), ZenonT(60)

LEMMA ModSubtract ==
  ASSUME NEW a \in Int, NEW n \in Nat
  PROVE  ((a % U16Mod) - n) % U16Mod = (a - n) % U16Mod
  BY DEF U16Mod

LEMMA ModInRange == ASSUME NEW a \in Int PROVE a % U16Mod \in 0..(U16Mod - 1) /\ a % U8Mod \in 0..(U8Mod - 1)
  BY DEF U16Mod, U8Mod

(* What is left of length l after c consumed bytes, and the most that one  *)
(* frame consumes.                                                         *)
Left(l, c) == (l - c) % U16Mod
MaxConsumed == 2000

LEMMA ModZero ==
  ASSUME NEW l \in 0..(U16Mod - 1), NEW c \in 0..MaxConsumed, Left(l, c) = 0
  PROVE  l = c
<1> USE DEF Left, MaxConsumed
<1> DEFINE d == l - c
<1>1. d \in Int /\ -2000 <= d /\ d <= 65535 /\ d % 65536 = 0
  BY DEF U16Mod
<1> HIDE DEF d
<1>2. d = 0
  BY <1>1
<1>3. QED BY <1>2 DEF d, U16Mod

LEMMA U16Range == U16Mod \in Nat /\ 0 \in 0..(U16Mod - 1)
  BY DEF U16Mod

(* The reads return bytes, whatever the place.                             *)
LEMMA ReadType ==
  ASSUME input \in Inputs, NEW at \in Nat, NEW count \in Nat, NEW k \in 1..count
  PROVE  Read(at, count)[k] \in 0..255 /\ DOMAIN Read(at, count) = 1..count
<1>1. input.data \in [0..(Size - 1) -> 0..255] /\ Size \in Nat
  BY ParserAssumption
<1>2. InBuffer(at, count) => at + k - 1 \in 0..(Size - 1)
  BY <1>1 DEF InBuffer
<1>3. InBuffer(at, count) => input.data[at + k - 1] \in 0..255
  BY <1>1, <1>2
<1>4. /\ DOMAIN Read(at, count) = 1..count
      /\ (Read(at, count)[k] = input.data[at + k - 1] /\ InBuffer(at, count)) \/ Read(at, count)[k] = 0
  BY DEF Read
<1>5. Read(at, count)[k] \in 0..255
  <2>1. CASE InBuffer(at, count) /\ Read(at, count)[k] = input.data[at + k - 1]
    BY <1>3, <2>1, Zenon
  <2>2. CASE Read(at, count)[k] = 0
    BY <2>2
  <2>3. QED BY <1>4, <2>1, <2>2
<1>6. QED BY <1>4, <1>5

LEMMA ReadU8Type == ASSUME input \in Inputs, NEW at \in Nat PROVE ReadU8(at) \in 0..255
  BY ReadType DEF ReadU8

LEMMA ReadU16Type ==
  ASSUME input \in Inputs, NEW at \in Nat PROVE ReadU16(at) \in 0..(U16Mod - 1)
<1> DEFINE word == Read(at, 2)
<1>1. word[1] \in 0..255 /\ word[2] \in 0..255
  BY ReadType
<1>2. ByteSwap(word)[1] = word[2] /\ ByteSwap(word)[2] = word[1]
  <2>1. word = [k \in 1..2 |-> word[k]]
    BY DEF Read
  <2> HIDE DEF word
  <2>2. Len(word) = 2 /\ DOMAIN word = 1..2
    BY <2>1
  <2>3. QED BY <2>2 DEF ByteSwap
<1>3. ReadU16(at) = word[2] + 256 * word[1]
  BY <1>2 DEF ReadU16
<1>4. ASSUME NEW x \in 0..255, NEW y \in 0..255 PROVE x + 256 * y \in 0..(U16Mod - 1)
  BY DEF U16Mod
<1> HIDE DEF word
<1>5. word[2] + 256 * word[1] \in 0..(U16Mod - 1)
  BY <1>1, <1>4
<1>6. QED BY <1>3, <1>5

LEMMA AsnBytesType == ASSUME input \in Inputs, NEW at \in Nat PROVE AsnBytes(at) \in 1..5
  BY ReadU8Type DEF AsnBytes

LEMMA FieldsType == /\ Len(Fields) = 5
                    /\ \A f \in 1..5 : Fields[f].lengths \subseteq Nat
                    /\ \A n \in Fields[1].lengths : n <= 34
                    /\ \A n \in Fields[2].lengths : n = 2
                    /\ \A n \in Fields[3].lengths : n = 4
                    /\ \A n \in Fields[4].lengths : n = 1
                    /\ \A n \in Fields[5].lengths : n = 64
<1>1. Len(Fields) = 5
  BY DEF Fields
<1>2. /\ Fields[1].lengths = 10..34 /\ Fields[2].lengths = {2} /\ Fields[3].lengths = {4}
      /\ Fields[4].lengths = {1} /\ Fields[5].lengths = {64}
  BY DEF Fields
<1>3. QED BY <1>1, <1>2

-----------------------------------------------------------------------------
(* The bytes a frame has consumed, at most: 115 for the contents of one    *)
(* ASDU, with its header 117, and at most 16 ASDU.                         *)
FieldBound == <<0, 36, 40, 46, 49>>
Consumption ==
  /\ InPDU => 0 <= offset - base
  /\ pc = "savPdu"  => offset - base <= 8
  /\ pc = "noAsdu"  => offset - base <= 14
  /\ pc = "seqAsdu" => offset - base <= 17 /\ seqCount <= 16
  /\ pc = "asdu"    => offset - base <= 23 + (16 - seqCount) * 117
  /\ pc = "field"   => /\ seqCount \in 1..16
                       /\ offset - base <= 25 + (16 - seqCount) * 117 + FieldBound[field]

Inv == TypeOK /\ LengthIsAccounted /\ Consumption /\ AcceptedEndsRight

LEMMA InitInv == Init => Inv
  BY FieldsType DEF Init, Inv, TypeOK, LengthIsAccounted, Consumption, AcceptedEndsRight,
     InPDU, U16Mod, U8Mod

(* Reading n bytes keeps the account.                                      *)
LEMMA ConsumeAccounts ==
  ASSUME Inv, InPDU, NEW n \in Nat, Consume(n, n), UNCHANGED frame
  PROVE  /\ internalFrameLength' \in 0..(U16Mod - 1) /\ offset' = offset + n
         /\ internalFrameLength' = (length' - (offset' - base')) % U16Mod
<1>1. internalFrameLength = (length - (offset - base)) % U16Mod
  BY DEF Inv, LengthIsAccounted
<1>2. length \in Int /\ offset \in Nat /\ base \in Nat
  BY U16Range DEF Inv, TypeOK
<1>3. /\ internalFrameLength' = (internalFrameLength - n) % U16Mod
      /\ offset' = offset + n /\ length' = length /\ base' = base
  BY DEF Consume, frame
<1> DEFINE a == length - (offset - base)
<1>4. a \in Int /\ a - n = length' - (offset' - base') /\ a - n \in Int
  BY <1>2, <1>3
<1>5. internalFrameLength' = (a - n) % U16Mod
  <2>1. internalFrameLength = a % U16Mod
    BY <1>1
  <2> HIDE DEF a
  <2>2. QED BY <1>3, <1>4, <2>1, ModSubtract
<1>6. (a - n) % U16Mod \in 0..(U16Mod - 1)
  BY <1>4, ModInRange
<1> HIDE DEF a
<1>7. QED BY <1>3, <1>4, <1>5, <1>6

LEMMA RejectInv == ASSUME Inv, InPDU, NEW n \in Nat, Reject(n) PROVE Inv'
<1>1. Consume(n, n) /\ UNCHANGED frame
  BY DEF Reject
<1>2. internalFrameLength' \in 0..(U16Mod - 1) /\ offset' = offset + n
  BY <1>1, ConsumeAccounts
<1>3. /\ pc' = "frame" /\ outcome' = "rejected"
      /\ UNCHANGED <<asduLength, seqCount, field, input, base, length>>
  BY DEF Reject, frame
<1>4. TypeOK'
  BY <1>2, <1>3 DEF Inv, TypeOK
<1>5. ~InPDU'
  BY <1>3 DEF InPDU
<1>6. QED BY <1>3, <1>4, <1>5 DEF Inv, LengthIsAccounted, Consumption, AcceptedEndsRight

(* From one label of the PDU to another.                                   *)
LEMMA AcceptInv ==
  ASSUME Inv, InPDU, NEW n \in Nat, Consume(n, n), UNCHANGED frame,
         asduLength' \in 0..(U8Mod - 1), seqCount' \in 0..16, field' \in 1..Len(Fields),
         pc' \in {"noAsdu", "seqAsdu", "asdu", "field"}, outcome' = outcome,
         Consumption'
  PROVE  Inv'
<1>1. /\ internalFrameLength' \in 0..(U16Mod - 1) /\ offset' = offset + n
      /\ internalFrameLength' = (length' - (offset' - base')) % U16Mod
  BY ConsumeAccounts
<1>2. UNCHANGED <<input, base, length>>
  BY DEF frame
<1>3. TypeOK'
  BY <1>1, <1>2 DEF Inv, TypeOK
<1>4. QED BY <1>1, <1>2, <1>3 DEF Inv, LengthIsAccounted, AcceptedEndsRight

LEMMA EnclosingInv ==
  ASSUME Inv,
         NEW from \in {"savPdu", "seqAsdu"}, NEW to, NEW tag,
         <<from, to>> \in {<<"savPdu", "noAsdu">>, <<"seqAsdu", "asdu">>},
         Enclosing(from, tag, to)
  PROVE  Inv'
<1> DEFINE n == 1 + AsnBytes(offset + 1)
<1>1. pc = from /\ InPDU /\ offset \in Nat /\ base \in Nat /\ input \in Inputs
  BY DEF Enclosing, InPDU, Inv, TypeOK
<1>2. n \in 2..6
  BY <1>1, AsnBytesType
<1>3. CASE Reject(1)
  BY <1>1, <1>3, RejectInv
<1>4. CASE Reject(n)
  BY <1>1, <1>2, <1>4, RejectInv
<1>5. CASE Accepts(n, to) /\ UNCHANGED <<asduLength, seqCount, field, smpCnt, sequence>>
  <2> HIDE DEF n
  <2>1. /\ Consume(n, n) /\ UNCHANGED frame /\ outcome' = outcome /\ pc' = to
        /\ offset' = offset + n /\ base' = base /\ seqCount' = seqCount
    BY <1>5 DEF Accepts, frame, Consume
  <2>2. asduLength' \in 0..(U8Mod - 1) /\ seqCount' \in 0..16 /\ field' \in 1..Len(Fields)
    BY <1>5 DEF Inv, TypeOK
  <2>3. Consumption'
    BY <1>1, <1>2, <2>1, <2>2 DEF Inv, Consumption, InPDU
  <2>4. pc' \in {"noAsdu", "seqAsdu", "asdu", "field"}
    BY <2>1
  <2>5. QED BY <1>1, <1>2, <2>1, <2>2, <2>3, <2>4, AcceptInv
<1>6. QED BY <1>3, <1>4, <1>5 DEF Enclosing

LEMMA NoAsduInv == ASSUME Inv, NoAsdu PROVE Inv'
<1>1. pc = "noAsdu" /\ InPDU /\ offset \in Nat /\ base \in Nat /\ input \in Inputs
  BY DEF NoAsdu, InPDU, Inv, TypeOK
<1>2. CASE Reject(1) \/ Reject(2) \/ Reject(3)
  BY <1>1, <1>2, RejectInv
<1>3. CASE /\ Accepts(3, "seqAsdu") /\ seqCount' \in 1..16
           /\ UNCHANGED <<asduLength, field, smpCnt, sequence>>
  <2>1. /\ Consume(3, 3) /\ UNCHANGED frame /\ outcome' = outcome /\ pc' = "seqAsdu"
        /\ offset' = offset + 3 /\ base' = base
    BY <1>3 DEF Accepts, frame, Consume
  <2>2. asduLength' \in 0..(U8Mod - 1) /\ field' \in 1..Len(Fields) /\ seqCount' \in 0..16
    BY <1>3 DEF Inv, TypeOK
  <2>3. Consumption'
    BY <1>1, <2>1, <2>2 DEF Inv, Consumption, InPDU
  <2>4. QED BY <1>1, <2>1, <2>2, <2>3, AcceptInv
<1>4. QED BY <1>2, <1>3 DEF NoAsdu

LEMMA AsduHeaderInv == ASSUME Inv, AsduHeader PROVE Inv'
<1>1. /\ pc = "asdu" /\ InPDU /\ offset \in Nat /\ base \in Nat /\ input \in Inputs
      /\ seqCount \in 1..16
  BY DEF AsduHeader, InPDU, Inv, TypeOK
<1>2. CASE Reject(1) \/ Reject(2)
  BY <1>1, <1>2, RejectInv
<1>3. CASE /\ Accepts(2, "field") /\ asduLength' \in 91..115 /\ field' = 1
           /\ UNCHANGED <<seqCount, smpCnt, sequence>>
  <2>1. /\ Consume(2, 2) /\ UNCHANGED frame /\ outcome' = outcome /\ pc' = "field"
        /\ offset' = offset + 2 /\ base' = base /\ seqCount' = seqCount
    BY <1>3 DEF Accepts, frame, Consume
  <2>2. asduLength' \in 0..(U8Mod - 1) /\ field' \in 1..Len(Fields) /\ seqCount' \in 0..16
    BY <1>1, <1>3, FieldsType DEF U8Mod
  <2>3. FieldBound[1] = 0 /\ field' = 1
    BY <1>3 DEF FieldBound
  <2>4. Consumption'
    BY <1>1, <2>1, <2>2, <2>3 DEF Inv, Consumption, InPDU
  <2>5. QED BY <1>1, <2>1, <2>2, <2>4, AcceptInv
<1>4. QED BY <1>2, <1>3 DEF AsduHeader

LEMMA FieldBoundGrows ==
  ASSUME NEW f \in 1..5, NEW n \in Fields[f].lengths
  PROVE  /\ n \in Nat
         /\ f < 5 => FieldBound[f + 1] \in Nat /\ FieldBound[f] + 2 + n <= FieldBound[f + 1]
         /\ f = 5 => FieldBound[f] + 2 + n = 115
         /\ FieldBound[f] \in Nat
<1>1. /\ FieldBound[1] = 0 /\ FieldBound[2] = 36 /\ FieldBound[3] = 40
      /\ FieldBound[4] = 46 /\ FieldBound[5] = 49
  BY DEF FieldBound
<1>2. n \in Nat
  BY FieldsType
<1>3. CASE f = 1
  BY <1>1, <1>2, <1>3, FieldsType
<1>4. CASE f = 2
  BY <1>1, <1>2, <1>4, FieldsType
<1>5. CASE f = 3
  BY <1>1, <1>2, <1>5, FieldsType
<1>6. CASE f = 4
  BY <1>1, <1>2, <1>6, FieldsType
<1>7. CASE f = 5
  BY <1>1, <1>2, <1>7, FieldsType
<1>8. QED BY <1>3, <1>4, <1>5, <1>6, <1>7

(* A field's step with its three sizes worked out: what is read behind the *)
(* tag and length is the length, and both counters are lowered by it.      *)
FieldRead ==
  LET n    == ReadU8(offset + 1)
      rest == (asduLength - 2 - n) % U8Mod IN
  \/ ReadU8(offset) # Fields[field].tag /\ Reject(1)
  \/ ReadU8(offset) = Fields[field].tag /\ n \notin Fields[field].lengths /\ Reject(2)
  \/ /\ ReadU8(offset) = Fields[field].tag /\ n \in Fields[field].lengths
     /\ Consume(2 + n, 2 + n)
     /\ asduLength' = rest
     /\ smpCnt' = IF field = 2 THEN ReadU16(offset + 2) ELSE smpCnt
     /\ IF field < Len(Fields)
          THEN /\ field' = field + 1
               /\ UNCHANGED <<pc, seqCount, sequence, outcome>>
          ELSE /\ StoreAsdu(offset + 2)
               /\ IF rest = 0 THEN pc' = "asdu" /\ seqCount' = seqCount - 1 /\ UNCHANGED outcome
                              ELSE pc' = "frame" /\ outcome' = "rejected" /\ UNCHANGED seqCount
               /\ UNCHANGED field
     /\ UNCHANGED frame

LEMMA FieldSizes ==
  ASSUME NEW f \in 1..5, NEW n \in Fields[f].lengths, NEW l \in Int
  PROVE  ContentsRead(f, n) = n /\ ContentsSubtracted(f, n) = n /\ l - AsduSubtracted(f, n) = l - 2 - n
<1> USE DEF Fields, ContentsRead, ContentsSubtracted, AsduSubtracted
<1>1. CASE f = 1
  BY <1>1
<1>2. CASE f = 2
  BY <1>2
<1>3. CASE f = 3
  BY <1>3
<1>4. CASE f = 4
  BY <1>4
<1>5. CASE f = 5
  BY <1>5
<1>6. QED BY <1>1, <1>2, <1>3, <1>4, <1>5

LEMMA AsduFieldReads == ASSUME TypeOK, AsduField PROVE FieldRead
<1> DEFINE n == ReadU8(offset + 1)
<1>1. field \in 1..5 /\ asduLength \in Int
  BY FieldsType DEF TypeOK, U8Mod
<1> HIDE DEF n
<1>2. n \in Fields[field].lengths =>
        /\ ContentsRead(field, n) = n /\ ContentsSubtracted(field, n) = n
        /\ asduLength - AsduSubtracted(field, n) = asduLength - 2 - n
  BY <1>1, FieldSizes
<1>3. QED BY <1>2 DEF AsduField, FieldRead, n

LEMMA AsduFieldInv == ASSUME Inv, AsduField PROVE Inv'
<1> DEFINE n    == ReadU8(offset + 1)
           rest == (asduLength - 2 - n) % U8Mod
<1>1. /\ pc = "field" /\ InPDU /\ offset \in Nat /\ base \in Nat /\ input \in Inputs
      /\ seqCount \in 1..16 /\ field \in 1..5 /\ asduLength \in Int
  BY FieldsType DEF AsduField, InPDU, Inv, TypeOK, Consumption, U8Mod
<1>2. CASE Reject(1) \/ Reject(2)
  BY <1>1, <1>2, RejectInv
<1>3. CASE /\ n \in Fields[field].lengths /\ Consume(2 + n, 2 + n) /\ asduLength' = rest /\ UNCHANGED frame
           /\ IF field < Len(Fields)
                THEN field' = field + 1 /\ UNCHANGED <<pc, seqCount, sequence, outcome>>
                ELSE /\ IF rest = 0
                          THEN pc' = "asdu" /\ seqCount' = seqCount - 1 /\ UNCHANGED outcome
                          ELSE pc' = "frame" /\ outcome' = "rejected" /\ UNCHANGED seqCount
                     /\ UNCHANGED field
  <2> HIDE DEF n
  <2>1. n \in Nat /\ 2 + n \in Nat /\ offset' = offset + 2 + n /\ base' = base
    <3>1. n \in Nat
      BY <1>1, <1>3, FieldBoundGrows
    <3>2. offset' = offset + (2 + n) /\ base' = base
      BY <1>3 DEF Consume, frame
    <3>3. QED BY <1>1, <3>1, <3>2
  <2>2. asduLength' \in 0..(U8Mod - 1)
    <3>1. asduLength - 2 - n \in Int
      BY <1>1, <2>1
    <3>2. QED BY <1>3, <3>1, ModInRange
  <2>3. /\ field < 5 => FieldBound[field + 1] \in Nat /\ FieldBound[field] + 2 + n <= FieldBound[field + 1]
        /\ field = 5 => FieldBound[field] + 2 + n = 115
        /\ FieldBound[field] \in Nat
    BY <1>1, <1>3, FieldBoundGrows
  <2>4. /\ 0 <= offset - base
        /\ offset - base <= 25 + (16 - seqCount) * 117 + FieldBound[field]
    BY <1>1 DEF Inv, Consumption
  <2> HIDE DEF rest
  <2>5. CASE field < 5
    <3>1. field' = field + 1 /\ UNCHANGED <<pc, seqCount, outcome>>
      BY <1>3, <2>5, FieldsType
    <3>2. offset' - base' <= 25 + (16 - seqCount) * 117 + FieldBound[field'] /\ 0 <= offset' - base'
      BY <1>1, <2>1, <2>3, <2>4, <2>5, <3>1
    <3>3. Consumption'
      BY <1>1, <3>1, <3>2 DEF Consumption, InPDU
    <3>4. seqCount' \in 0..16 /\ field' \in 1..Len(Fields) /\ pc' = "field"
      BY <1>1, <2>5, <3>1, FieldsType
    <3>5. QED BY <1>1, <1>3, <2>1, <2>2, <3>1, <3>3, <3>4, AcceptInv
  <2>6. CASE field = 5 /\ rest = 0
    <3>1. pc' = "asdu" /\ seqCount' = seqCount - 1 /\ outcome' = outcome /\ field' = field
      BY <1>3, <2>6, FieldsType
    <3>2. offset' - base' <= 23 + (16 - seqCount') * 117 /\ 0 <= offset' - base'
      BY <1>1, <2>1, <2>3, <2>4, <2>6, <3>1
    <3>3. Consumption'
      BY <3>1, <3>2 DEF Consumption, InPDU
    <3>4. seqCount' \in 0..16 /\ field' \in 1..Len(Fields)
      BY <1>1, <3>1, FieldsType
    <3>5. QED BY <1>1, <1>3, <2>1, <2>2, <3>1, <3>3, <3>4, AcceptInv
  <2>7. CASE field = 5 /\ rest # 0
    <3>1. pc' = "frame" /\ outcome' = "rejected" /\ seqCount' = seqCount /\ field' = field
      BY <1>3, <2>7, FieldsType
    <3>2. internalFrameLength' \in 0..(U16Mod - 1)
      BY <1>1, <1>3, <2>1, ConsumeAccounts
    <3>3. TypeOK'
      BY <1>3, <2>1, <2>2, <3>1, <3>2 DEF Inv, TypeOK, frame
    <3>4. QED BY <3>1, <3>3 DEF Inv, LengthIsAccounted, Consumption, AcceptedEndsRight, InPDU
  <2>8. QED BY <1>1, <2>5, <2>6, <2>7
<1>4. QED BY <1>2, <1>3, AsduFieldReads DEF FieldRead, Inv

LEMMA FrameHeaderInv == ASSUME Inv, FrameHeader PROVE Inv'
<1>1. /\ pc = "frame" /\ offset \in Nat /\ input \in Inputs
      /\ offset' = offset + 22 /\ base' = offset + 14
      /\ length' = ReadU16(base' + 2)
      /\ UNCHANGED <<input, asduLength, seqCount, field>>
  BY DEF FrameHeader, Skipped, EtherHeader, PDUHeader, Inv, TypeOK
<1>2. length' \in 0..(U16Mod - 1)
  <2>1. base' + 2 \in Nat
    BY <1>1
  <2>2. QED BY <1>1, <2>1, ReadU16Type
<1>3. CASE length' = 0
  <2>1. pc' = "frame" /\ outcome' = "rejected" /\ internalFrameLength' = internalFrameLength
    BY <1>3 DEF FrameHeader
  <2>2. TypeOK'
    BY <1>1, <1>2, <2>1 DEF Inv, TypeOK
  <2>3. QED BY <2>1, <2>2 DEF Inv, LengthIsAccounted, Consumption, AcceptedEndsRight, InPDU
<1>4. CASE length' # 0
  <2>1. /\ internalFrameLength' = (length' - 8) % U16Mod
        /\ pc' = "savPdu" /\ outcome' = outcome
    BY <1>4 DEF FrameHeader, PDUHeader
  <2>2. length' - 8 \in Int /\ length' - 8 = length' - (offset' - base') /\ offset' - base' = 8
    BY <1>1, <1>2, U16Range
  <2>3. internalFrameLength' \in 0..(U16Mod - 1)
    BY <2>1, <2>2, ModInRange
  <2>4. TypeOK'
    BY <1>1, <1>2, <2>1, <2>3 DEF Inv, TypeOK
  <2>5. Consumption'
    BY <2>1, <2>2 DEF Consumption, InPDU
  <2>6. LengthIsAccounted'
    BY <2>1, <2>2 DEF LengthIsAccounted
  <2>7. QED BY <2>1, <2>4, <2>5, <2>6 DEF Inv, AcceptedEndsRight
<1>5. QED BY <1>3, <1>4

(* Nothing is left modulo 2^16, and less than 2^16 was consumed: the frame *)
(* ends where its header says.                                             *)
LEMMA EndOfFrameInv == ASSUME Inv, EndOfFrame PROVE Inv'
<1>1. /\ pc = "asdu" /\ seqCount = 0 /\ pc' = "frame"
      /\ outcome' = IF internalFrameLength = 0 THEN "accepted" ELSE "rejected"
      /\ UNCHANGED <<input, offset, base, length, internalFrameLength, asduLength, seqCount, field>>
  BY DEF EndOfFrame, frame
<1>2. TypeOK'
  BY <1>1 DEF Inv, TypeOK
<1>3. LengthIsAccounted' /\ Consumption'
  BY <1>1 DEF LengthIsAccounted, Consumption, InPDU
<1>4. AcceptedEndsRight'
  <2>1. CASE internalFrameLength = 0
    <3>1. (length - (offset - base)) % U16Mod = 0
      BY <1>1, <2>1 DEF Inv, LengthIsAccounted, InPDU
    <3>2. offset - base \in 0..MaxConsumed /\ offset \in Nat /\ base \in Nat
      BY <1>1 DEF MaxConsumed, Inv, TypeOK, Consumption, InPDU
    <3>3. length \in 0..(U16Mod - 1)
      BY DEF Inv, TypeOK
    <3> DEFINE consumed == offset - base
    <3> HIDE DEF consumed
    <3>4. consumed \in 0..MaxConsumed /\ Left(length, consumed) = 0
      BY <3>1, <3>2 DEF consumed, Left
    <3>5. length = consumed
      BY <3>3, <3>4, ModZero
    <3>6. offset = base + length
      BY <3>2, <3>5 DEF consumed
    <3>7. QED BY <1>1, <3>6 DEF AcceptedEndsRight
  <2>2. CASE internalFrameLength # 0
    BY <1>1, <2>2 DEF AcceptedEndsRight
  <2>3. QED BY <2>1, <2>2
<1>5. QED BY <1>2, <1>3, <1>4 DEF Inv

LEMMA NextInv == Inv /\ [Next]_vars => Inv'
<1> SUFFICES ASSUME Inv, [Next]_vars
             PROVE  Inv'
  OBVIOUS
<1>1. CASE SavPdu
  BY <1>1, EnclosingInv DEF SavPdu
<1>2. CASE SeqAsdu
  BY <1>2, EnclosingInv DEF SeqAsdu
<1>3. CASE Return
  BY <1>3 DEF Return, Inv, TypeOK, LengthIsAccounted, Consumption, AcceptedEndsRight, InPDU
<1>4. CASE UNCHANGED vars
  BY <1>4 DEF vars, Inv, TypeOK, LengthIsAccounted, Consumption, AcceptedEndsRight, InPDU
<1>5. QED BY <1>1, <1>2, <1>3, <1>4, FrameHeaderInv, NoAsduInv, AsduHeaderInv, AsduFieldInv,
             EndOfFrameInv DEF Next

LEMMA Invariance == Spec => []Inv
  BY InitInv, NextInv, PTL DEF Spec

(* internalFrameLength (iec_parser.h, every --internalFrameLength of       *)
(* parsePDU, parseSequence and parseASDU) is the rest of the declared      *)
(* length, for every buffer.                                               *)
THEOREM AccountTheorem == Spec => []LengthIsAccounted
<1>1. Inv => LengthIsAccounted
  BY DEF Inv
<1>2. QED BY <1>1, Invariance, PTL

(* An accepted frame was consumed to the last byte and no further, for     *)
(* every buffer and however long the header says the frame is.             *)
THEOREM AcceptedTheorem == Spec => []AcceptedEndsRight
<1>1. Inv => AcceptedEndsRight
  BY DEF Inv
<1>2. QED BY <1>1, Invariance, PTL

-----------------------------------------------------------------------------
(* The parser has not gone past what was written by more than one frame.   *)
Reach ==
  /\ InPDU => base < input.written + EtherHeader
  /\ pc = "frame" => offset < input.written + EtherHeader + MaxPDU

LEMMA WrittenType == ASSUME input \in Inputs PROVE input.written \in Nat
  BY ParserAssumption

(* A step of the PDU consumes something, and not more than MaxPDU in all.  *)
LEMMA StepConsumes ==
  ASSUME Inv, InPDU, ~EndOfFrame, Next
  PROVE  /\ UNCHANGED <<input, base>> /\ pc' # "done" /\ (InPDU' \/ pc' = "frame")
         /\ offset < offset' /\ offset' <= base + MaxPDU
<1> USE DEF EtherHeader, MaxPDU
<1>1. offset \in Nat /\ base \in Nat /\ input \in Inputs /\ seqCount \in 0..16
  BY DEF Inv, TypeOK
<1>2. ASSUME NEW n \in Nat, Reject(n), n > 0, offset + n - base <= MaxPDU
      PROVE  /\ UNCHANGED <<input, base>> /\ pc' = "frame"
             /\ offset < offset' /\ offset' <= base + MaxPDU
  BY <1>1, <1>2 DEF Reject, Consume, frame
<1>3. ASSUME NEW from, NEW tag, NEW to \in {"noAsdu", "asdu"},
             Enclosing(from, tag, to), offset - base <= 17
      PROVE  /\ UNCHANGED <<input, base>> /\ pc' # "done" /\ (InPDU' \/ pc' = "frame")
             /\ offset < offset' /\ offset' <= base + MaxPDU
  <2> DEFINE n == 1 + AsnBytes(offset + 1)
  <2>1. n \in 2..6
    BY <1>1, AsnBytesType
  <2> HIDE DEF n
  <2>2. CASE Reject(1)
    BY <1>1, <1>2, <1>3, <2>2
  <2>3. CASE Reject(n)
    BY <1>1, <1>2, <1>3, <2>1, <2>3
  <2>4. CASE Accepts(n, to)
    BY <1>1, <1>3, <2>1, <2>4 DEF Accepts, Consume, InPDU
  <2>5. QED BY <1>3, <2>2, <2>3, <2>4 DEF Enclosing, n
<1>4. CASE SavPdu
  <2>1. offset - base <= 17
    BY <1>1, <1>4 DEF SavPdu, Enclosing, Inv, Consumption
  <2>2. QED BY <1>3, <1>4, <2>1 DEF SavPdu
<1>5. CASE SeqAsdu
  <2>1. offset - base <= 17
    BY <1>1, <1>5 DEF SeqAsdu, Enclosing, Inv, Consumption
  <2>2. QED BY <1>3, <1>5, <2>1 DEF SeqAsdu
<1>6. CASE NoAsdu
  <2>1. pc = "noAsdu" /\ offset - base <= 14
    BY <1>6 DEF NoAsdu, Inv, Consumption
  <2>2. CASE Reject(1) \/ Reject(2) \/ Reject(3)
    BY <1>1, <1>2, <2>1, <2>2
  <2>3. CASE Accepts(3, "seqAsdu")
    BY <1>1, <2>1, <2>3 DEF Accepts, Consume, InPDU
  <2>4. QED BY <1>6, <2>2, <2>3 DEF NoAsdu
<1>7. CASE AsduHeader
  <2>1. pc = "asdu" /\ seqCount \in 1..16 /\ offset - base <= 23 + (16 - seqCount) * 117
    BY <1>1, <1>7 DEF AsduHeader, Inv, Consumption
  <2>2. offset - base <= 1778
    BY <1>1, <2>1
  <2>3. CASE Reject(1) \/ Reject(2)
    BY <1>1, <1>2, <2>2, <2>3
  <2>4. CASE Accepts(2, "field")
    BY <1>1, <2>2, <2>4 DEF Accepts, Consume, InPDU
  <2>5. QED BY <1>7, <2>3, <2>4 DEF AsduHeader
<1>8. CASE AsduField
  <2> DEFINE n == ReadU8(offset + 1)
  <2>1. /\ pc = "field" /\ seqCount \in 1..16 /\ field \in 1..5
        /\ offset - base <= 25 + (16 - seqCount) * 117 + FieldBound[field]
    BY <1>8, FieldsType DEF AsduField, Inv, Consumption, TypeOK
  <2>2. FieldBound[field] \in 0..49
    BY <2>1 DEF FieldBound
  <2>3. CASE Reject(1) \/ Reject(2)
    <3>1. offset + 2 - base <= MaxPDU /\ offset + 1 - base <= MaxPDU
      BY <1>1, <2>1, <2>2
    <3>2. QED BY <1>1, <1>2, <2>3, <3>1
  <2>4. CASE /\ n \in Fields[field].lengths /\ Consume(2 + n, 2 + n) /\ UNCHANGED frame
             /\ (pc' \in {"asdu", "frame"} \/ pc' = pc)
    <3> HIDE DEF n
    <3>1. n \in Nat /\ FieldBound[field] + 2 + n <= 115
      <4>1. \A f \in 2..5 : FieldBound[f] \in 0..49
        BY DEF FieldBound
      <4>2. QED BY <2>1, <2>4, <4>1, FieldBoundGrows
    <3>2. offset' = offset + 2 + n /\ base' = base /\ input' = input
      BY <1>1, <2>4, <3>1 DEF Consume, frame
    <3>3. offset' <= base + MaxPDU /\ offset < offset'
      <4> DEFINE fb == FieldBound[field]
      <4>1. (16 - seqCount) * 117 <= 1755 /\ (16 - seqCount) * 117 \in Int
        BY <2>1
      <4>2. fb \in 0..49 /\ fb + 2 + n <= 115 /\ offset - base <= 25 + (16 - seqCount) * 117 + fb
        BY <2>1, <2>2, <3>1
      <4> HIDE DEF fb
      <4>3. QED BY <1>1, <3>1, <3>2, <4>1, <4>2
    <3>4. QED BY <2>1, <2>4, <3>2, <3>3 DEF InPDU
  <2>5. QED BY <1>8, <2>3, <2>4, AsduFieldReads DEF FieldRead, Inv
<1>9. ~FrameHeader /\ ~Return
  BY DEF FrameHeader, Return, InPDU
<1>10. QED BY <1>4, <1>5, <1>6, <1>7, <1>8, <1>9 DEF Next

LEMMA StepAdvances ==
  ASSUME Inv, Reach, [Next]_vars
  PROVE  Reach' /\ (vars' = vars \/ StepsLeft' \in 0..(StepsLeft - 1))
<1> USE DEF EtherHeader, MaxPDU
<1>1. offset \in Nat /\ base \in Nat /\ input \in Inputs /\ input.written \in Nat
  BY WrittenType DEF Inv, TypeOK
<1>2. CASE FrameHeader
  <2>1. /\ pc = "frame" /\ offset < input.written /\ input' = input
        /\ base' = offset + 14 /\ offset' = offset + 22 /\ pc' \in {"frame", "savPdu"}
    BY <1>1, <1>2 DEF FrameHeader, Skipped, PDUHeader
  <2>2. Reach'
    BY <1>1, <2>1 DEF Reach, InPDU
  <2>3. StepsLeft' \in 0..(StepsLeft - 1)
    <3>1. StepsLeft = 1 + 2 * (input.written + 1909 - offset) + 0
      BY <1>1, <2>1 DEF StepsLeft, InPDU
    <3>2. \E one \in {0, 1} : StepsLeft' = 1 + 2 * (input.written + 1909 - offset') + one
      BY <1>1, <2>1 DEF StepsLeft, InPDU
    <3>3. QED BY <1>1, <2>1, <3>1, <3>2
  <2>4. QED BY <2>2, <2>3
<1>3. CASE Return
  <2>1. /\ pc = "frame" /\ input' = input /\ pc' = "done"
    BY <1>3 DEF Return
  <2>2. StepsLeft = 1 + 2 * (input.written + 1909 - offset) + 0 /\ StepsLeft' = 0
    BY <1>1, <2>1 DEF StepsLeft, InPDU
  <2>3. offset < input.written + 1909
    BY <1>1, <2>1 DEF Reach
  <2>4. StepsLeft' \in 0..(StepsLeft - 1)
    BY <1>1, <2>2, <2>3
  <2>5. QED BY <2>1, <2>4 DEF Reach, InPDU
<1>4. CASE EndOfFrame
  <2>1. /\ pc = "asdu" /\ pc' = "frame" /\ UNCHANGED <<input, offset, base>> /\ seqCount = 0
    BY <1>4 DEF EndOfFrame, frame
  <2>2. base < input.written + 14 /\ offset - base <= 1895
    BY <1>1, <2>1 DEF Reach, InPDU, Inv, Consumption
  <2>3. StepsLeft = 1 + 2 * (input.written + 1909 - offset) + 1
    BY <1>1, <2>1 DEF StepsLeft, InPDU
  <2>4. StepsLeft' = 1 + 2 * (input.written + 1909 - offset) + 0
    BY <1>1, <2>1 DEF StepsLeft, InPDU
  <2>5. StepsLeft' \in 0..(StepsLeft - 1)
    BY <1>1, <2>2, <2>3, <2>4
  <2>6. QED BY <1>1, <2>1, <2>2, <2>5 DEF Reach, InPDU
<1>5. CASE InPDU /\ ~EndOfFrame /\ Next
  <2>1. /\ UNCHANGED <<input, base>> /\ pc' # "done" /\ (InPDU' \/ pc' = "frame")
        /\ offset < offset' /\ offset' <= base + 1895
    BY <1>5, StepConsumes
  <2>2. offset' \in Nat
    BY <1>5, NextInv DEF Inv, TypeOK
  <2>3. base < input.written + 14 /\ offset' < input.written + 1909
    <3>1. base < input.written + 14
      BY <1>5 DEF Reach
    <3>2. offset' <= base + 1895
      BY <2>1
    <3>3. QED BY <1>1, <2>2, <3>1, <3>2
  <2>4. StepsLeft = 1 + 2 * (input.written + 1909 - offset) + 1
    BY <1>1, <1>5 DEF StepsLeft, InPDU
  <2>5. \/ StepsLeft' = 1 + 2 * (input.written + 1909 - offset') + 0
        \/ StepsLeft' = 1 + 2 * (input.written + 1909 - offset') + 1
    BY <1>1, <2>1, <2>2 DEF StepsLeft, InPDU
  <2>6. StepsLeft' \in 0..(StepsLeft - 1)
    BY <1>1, <2>1, <2>2, <2>3, <2>4, <2>5
  <2>7. Reach'
    BY <1>1, <2>1, <2>2, <2>3 DEF Reach, InPDU
  <2>8. QED BY <2>6, <2>7
<1>6. CASE UNCHANGED vars
  BY <1>6 DEF vars, Reach, InPDU
<1>7. Next => FrameHeader \/ Return \/ InPDU
  BY DEF Next, SavPdu, SeqAsdu, Enclosing, NoAsdu, AsduHeader, AsduField, EndOfFrame, InPDU
<1>8. QED BY <1>2, <1>3, <1>4, <1>5, <1>6, <1>7

(* parse (iec_parser.h:329-340) needs at most StepsLeft more steps, for    *)
(* every buffer: no bytes make it go round without consuming, and no       *)
(* damage carries it further than one frame past what was written.         *)
THEOREM AdvancesTheorem == Spec => Advances
<1>1. Init => Reach
  <2> SUFFICES ASSUME Init PROVE Reach
    OBVIOUS
  <2>1. input.written \in Nat
    BY WrittenType DEF Init
  <2>2. QED BY <2>1 DEF Init, Reach, InPDU, EtherHeader, MaxPDU
<1>2. Inv /\ Reach /\ [Next]_vars => Inv' /\ Reach' /\ (vars' = vars \/ StepsLeft' \in 0..(StepsLeft - 1))
  BY NextInv, StepAdvances
<1>3. Inv /\ Reach /\ [Next]_vars => [StepsLeft' \in 0..(StepsLeft - 1)]_vars
  BY <1>2
<1>4. QED BY <1>1, <1>2, <1>3, InitInv, PTL DEF Spec, Advances

-----------------------------------------------------------------------------
(* What is read of a place in the buffer is what lies there, for the three *)
(* widths, as long as it stays off the buffer's last byte.                 *)
LEMMA DataType ==
  ASSUME input \in Inputs, NEW at \in Nat, at < Size PROVE input.data[at] \in 0..255
<1>1. input.data \in [0..(Size - 1) -> 0..255] /\ at \in 0..(Size - 1)
  <2>1. Size \in Nat /\ input.data \in [0..(Size - 1) -> 0..255]
    BY ParserAssumption
  <2>2. QED BY <2>1
<1>2. QED BY <1>1

LEMMA ReadData ==
  ASSUME NEW at \in Nat, NEW count \in Nat, at + count < Size, NEW k \in 1..count
  PROVE  Read(at, count)[k] = input.data[at + k - 1]
<1>1. Size > at + count
  BY ParserAssumption
<1>2. QED BY <1>1 DEF Read, InBuffer

LEMMA ReadU8Data ==
  ASSUME NEW at \in Nat, at + 1 < Size PROVE ReadU8(at) = input.data[at]
<1>1. ReadU8(at) = input.data[at + 1 - 1]
  BY ReadData DEF ReadU8
<1>2. QED BY <1>1

LEMMA SwappedRead ==
  ASSUME NEW at \in Nat, NEW count \in Nat, at + count < Size, NEW k \in 1..count
  PROVE  ByteSwap(Read(at, count))[k] = input.data[at + count - k]
<1>1. Len(Read(at, count)) = count /\ DOMAIN Read(at, count) = 1..count
  BY DEF Read
<1>2. ByteSwap(Read(at, count))[k] = Read(at, count)[count + 1 - k]
  BY <1>1 DEF ByteSwap
<1>3. count + 1 - k \in 1..count /\ at + (count + 1 - k) - 1 = at + count - k
  OBVIOUS
<1>4. Read(at, count)[count + 1 - k] = input.data[at + (count + 1 - k) - 1]
  BY <1>3, ReadData
<1>5. QED BY <1>2, <1>3, <1>4

LEMMA ReadU16Data ==
  ASSUME NEW at \in Nat, at + 2 < Size
  PROVE  ReadU16(at) = input.data[at + 1] + 256 * input.data[at]
<1>1. /\ ByteSwap(Read(at, 2))[1] = input.data[at + 2 - 1]
      /\ ByteSwap(Read(at, 2))[2] = input.data[at + 2 - 2]
  BY SwappedRead
<1>2. at + 2 - 1 = at + 1 /\ at + 2 - 2 = at
  OBVIOUS
<1>3. QED BY <1>1, <1>2 DEF ReadU16

(* A double word cast to i32.                                              *)
Signed(b1, b2, b3, b4) == b4 + 256 * (b3 + 256 * (b2 + 256 * IF b1 < 128 THEN b1 ELSE b1 - 256))

LEMMA ReadI32Data ==
  ASSUME NEW at \in Nat, at + 4 < Size
  PROVE  ReadI32(at) = Signed(input.data[at], input.data[at + 1], input.data[at + 2], input.data[at + 3])
<1>1. /\ ByteSwap(Read(at, 4))[1] = input.data[at + 4 - 1]
      /\ ByteSwap(Read(at, 4))[2] = input.data[at + 4 - 2]
      /\ ByteSwap(Read(at, 4))[3] = input.data[at + 4 - 3]
      /\ ByteSwap(Read(at, 4))[4] = input.data[at + 4 - 4]
  BY SwappedRead
<1>2. at + 4 - 1 = at + 3 /\ at + 4 - 2 = at + 2 /\ at + 4 - 3 = at + 1 /\ at + 4 - 4 = at
  OBVIOUS
<1>3. QED BY <1>1, <1>2 DEF ReadI32, Signed

LEMMA ReadI32Type == ASSUME input \in Inputs, NEW at \in Nat PROVE ReadI32(at) \in Int
<1> DEFINE dword == ByteSwap(Read(at, 4))
<1>1. \A k \in 1..4 : Read(at, 4)[k] \in 0..255 /\ DOMAIN Read(at, 4) = 1..4
  BY ReadType
<1>2. Len(Read(at, 4)) = 4
  BY DEF Read
<1>3. \A k \in 1..4 : dword[k] = Read(at, 4)[5 - k] /\ 5 - k \in 1..4
  <2>1. DOMAIN Read(at, 4) = 1..4
    BY DEF Read
  <2>2. \A k \in 1..4 : dword[k] = Read(at, 4)[4 + 1 - k]
    BY <1>2, <2>1 DEF ByteSwap
  <2>3. QED BY <2>2
<1>4. dword[1] \in 0..255 /\ dword[2] \in 0..255 /\ dword[3] \in 0..255 /\ dword[4] \in 0..255
  BY <1>1, <1>3
<1>5. ReadI32(at) = dword[1] + 256 * (dword[2] + 256 * (dword[3] + 256 *
                      IF dword[4] < 128 THEN dword[4] ELSE dword[4] - 256))
  BY DEF ReadI32
<1> HIDE DEF dword
<1>6. (IF dword[4] < 128 THEN dword[4] ELSE dword[4] - 256) \in Int
  BY <1>4
<1> DEFINE high == IF dword[4] < 128 THEN dword[4] ELSE dword[4] - 256
<1>7. high \in Int /\ ReadI32(at) = dword[1] + 256 * (dword[2] + 256 * (dword[3] + 256 * high))
  BY <1>5, <1>6
<1> HIDE DEF high
<1>8. ASSUME NEW a \in Int, NEW b \in Int, NEW c \in Int, NEW h \in Int
      PROVE  a + 256 * (b + 256 * (c + 256 * h)) \in Int
  OBVIOUS
<1>9. dword[1] \in Int /\ dword[2] \in Int /\ dword[3] \in Int
  BY <1>4
<1>10. QED BY <1>7, <1>8, <1>9

(* The words of a good frame are read back as what was sent.               *)
LEMMA U16Decoded ==
  ASSUME NEW at \in Nat, at + 2 < Size, NEW v \in 0..(U16Mod - 1), Holds(input, at, U16Octets(v))
  PROVE  ReadU16(at) = v
<1>1. input.data[at + 1 - 1] = v \div 256 /\ input.data[at + 2 - 1] = v % 256
  BY DEF Holds, U16Octets
<1>2. at + 1 - 1 = at /\ at + 2 - 1 = at + 1
  OBVIOUS
<1>3. ReadU16(at) = (v % 256) + 256 * (v \div 256)
  BY <1>1, <1>2, ReadU16Data
<1>4. v \in Nat
  BY U16Range
<1>5. QED BY <1>3, <1>4

LEMMA SignedOctets ==
  ASSUME NEW v \in I32, NEW q1 \in Int, NEW q2 \in Int, NEW q3 \in Int,
         q1 = v \div 256, q2 = q1 \div 256, q3 = q2 \div 256, q3 \in -128..127
  PROVE  Signed(q3 % 256, q2 % 256, q1 % 256, v % 256) = v
<1>1. v \in Int
  BY DEF I32
<1>2. v = 256 * q1 + (v % 256) /\ v % 256 \in 0..255
  BY <1>1
<1>3. q1 = 256 * q2 + (q1 % 256) /\ q1 % 256 \in 0..255
  OBVIOUS
<1>4. q2 = 256 * q3 + (q2 % 256) /\ q2 % 256 \in 0..255
  OBVIOUS
<1>5. q3 = IF q3 % 256 < 128 THEN q3 % 256 ELSE (q3 % 256) - 256
  OBVIOUS
<1>6. QED BY <1>1, <1>2, <1>3, <1>4, <1>5 DEF Signed

LEMMA I32Decoded ==
  ASSUME NEW at \in Nat, at + 4 < Size, NEW v \in I32, Holds(input, at, I32Octets(v))
  PROVE  ReadI32(at) = v
<1> DEFINE q1 == v \div 256
           q2 == q1 \div 256
           q3 == q2 \div 256
<1>1. v \in Int /\ v \div 16777216 \in -128..127
  BY DEF I32
<1>2. q1 \in Int /\ q2 \in Int /\ q3 \in Int /\ v \div 65536 = q2 /\ v \div 16777216 = q3
  BY <1>1
<1>3. I32Octets(v) = <<q3 % 256, q2 % 256, q1 % 256, v % 256>>
  BY <1>2 DEF I32Octets
<1> HIDE DEF q1, q2, q3
<1>4. /\ input.data[at + 1 - 1] = q3 % 256 /\ input.data[at + 2 - 1] = q2 % 256
      /\ input.data[at + 3 - 1] = q1 % 256 /\ input.data[at + 4 - 1] = v % 256
  BY <1>3 DEF Holds
<1>5. at + 1 - 1 = at /\ at + 2 - 1 = at + 1 /\ at + 3 - 1 = at + 2 /\ at + 4 - 1 = at + 3
  OBVIOUS
<1>6. ReadI32(at) = Signed(q3 % 256, q2 % 256, q1 % 256, v % 256)
  BY <1>4, <1>5, ReadI32Data
<1>7. Signed(q3 % 256, q2 % 256, q1 % 256, v % 256) = v
  <2>1. q1 = v \div 256 /\ q2 = q1 \div 256 /\ q3 = q2 \div 256
    BY DEF q1, q2, q3
  <2>2. q3 \in -128..127
    BY <1>1, <1>2
  <2>3. QED BY <1>2, <2>1, <2>2, SignedOctets
<1>8. QED BY <1>6, <1>7

(* So is a length, in each of its forms.                                   *)
LEMMA AsnDecoded ==
  ASSUME NEW at \in Nat, NEW n \in 0..4, at + n + 1 < Size, NEW l \in Int, AsnFits(l, n),
         Holds(input, at, AsnOctets(l, n))
  PROVE  AsnBytes(at) = n + 1 /\ AsnLength(at) = l /\ l \in 0..(U16Mod - 1)
<1> DEFINE o == AsnOctets(l, n)
<1>1. /\ Len(o) = n + 1
      /\ n = 0 => o[1] = l
      /\ n # 0 => /\ o[1] = 128 + n /\ o[n + 1] = l % 256
                  /\ n # 1 => o[n] = l \div 256
  <2>1. CASE n = 0
    BY <2>1 DEF AsnOctets
  <2>2. CASE n # 0
    BY <2>2 DEF AsnOctets
  <2>3. QED BY <2>1, <2>2
<1>2. \A k \in 1..(n + 1) : input.data[at + k - 1] = o[k]
  BY <1>1 DEF Holds
<1> HIDE DEF o
<1>3. \A k \in 1..(n + 1) : ReadU8(at + (k - 1)) = o[k]
  <2> SUFFICES ASSUME NEW k \in 1..(n + 1) PROVE ReadU8(at + (k - 1)) = o[k]
    OBVIOUS
  <2>1. at + (k - 1) \in Nat /\ at + (k - 1) = at + k - 1
    OBVIOUS
  <2>2. (at + (k - 1)) + 1 < Size
    BY ParserAssumption
  <2>3. QED BY <1>2, <2>1, <2>2, ReadU8Data
<1>4. ReadU8(at) = o[1]
  <2>1. 1 \in 1..(n + 1) /\ at + (1 - 1) = at
    OBVIOUS
  <2>2. QED BY <1>3, <2>1
<1>5. CASE n = 0
  <2>1. ReadU8(at) = l /\ l \in 0..127
    BY <1>1, <1>4, <1>5 DEF AsnFits, U16Mod
  <2>2. QED BY <1>5, <2>1 DEF AsnBytes, AsnLength, U16Mod
<1>6. CASE n = 1
  <2>1. l \in 0..255
    BY <1>6 DEF AsnFits, U16Mod
  <2>2. ReadU8(at) = 129 /\ ReadU8(at + 1) = l
    <3>1. 2 \in 1..(n + 1) /\ at + (2 - 1) = at + 1
      BY <1>6
    <3>2. o[1] = 129 /\ o[2] = l % 256
      BY <1>1, <1>6
    <3>3. l % 256 = l
      BY <2>1
    <3>4. QED BY <1>3, <1>4, <3>1, <3>2, <3>3
  <2>3. QED BY <1>6, <2>1, <2>2 DEF AsnBytes, AsnLength, U16Mod
<1>7. CASE n \in 2..4
  <2>1. l \in 0..65535
    <3>1. l \in 0..(U16Mod - 1)
      BY <1>7 DEF AsnFits
    <3>2. QED BY <3>1 DEF U16Mod
  <2>2. o[1] = 128 + n /\ o[n] = l \div 256 /\ o[n + 1] = l % 256
    BY <1>1, <1>7
  <2>3. ReadU8(at + n - 1) = l \div 256 /\ ReadU8(at + n) = l % 256
    <3>1. /\ n \in 1..(n + 1) /\ n + 1 \in 1..(n + 1)
          /\ at + (n - 1) = at + n - 1 /\ at + ((n + 1) - 1) = at + n
      BY <1>7
    <3>2. QED BY <1>3, <2>2, <3>1
  <2>4. ReadU8(at) - 128 = n
    BY <1>4, <2>2
  <2>5. AsnBytes(at) = n + 1
    <3>1. n \in 1..4 /\ 1 + n = n + 1
      BY <1>7
    <3>2. QED BY <2>4, <3>1 DEF AsnBytes
  <2>6. AsnLength(at) = (l \div 256) * 256 + (l % 256)
    <3>1. ~(n < 0) /\ n # 1
      BY <1>7
    <3>2. AsnLength(at) = ReadU8(at + n - 1) * 256 + ReadU8(at + n)
      BY <1>7, <2>4, <3>1 DEF AsnLength
    <3>3. QED BY <2>3, <3>2
  <2>7. (l \div 256) * 256 + (l % 256) = l
    BY <2>1
  <2>8. l \in 0..(U16Mod - 1)
    BY <2>1 DEF U16Mod
  <2>9. QED BY <2>5, <2>6, <2>7, <2>8
<1>8. QED BY <1>5, <1>6, <1>7

LEMMA ByteDecoded ==
  ASSUME NEW at \in Nat, NEW octets, NEW k \in Nat, k \in 1..Len(octets), at + k < Size,
         Holds(input, at, octets)
  PROVE  ReadU8(at + (k - 1)) = octets[k]
<1>1. at + (k - 1) \in Nat /\ at + (k - 1) = at + k - 1 /\ (at + (k - 1)) + 1 < Size
  BY ParserAssumption
<1>2. ReadU8(at + (k - 1)) = input.data[at + (k - 1)]
  BY <1>1, ReadU8Data
<1>3. input.data[at + k - 1] = octets[k]
  BY DEF Holds
<1>4. QED BY <1>1, <1>2, <1>3

LEMMA TwoBytesDecoded ==
  ASSUME NEW at \in Nat, at + 2 < Size, NEW x, NEW y, Holds(input, at, <<x, y>>)
  PROVE  ReadU8(at) = x /\ ReadU8(at + 1) = y
<1> DEFINE o == <<x, y>>
<1>1. Len(o) = 2 /\ o[1] = x /\ o[2] = y
  OBVIOUS
<1> HIDE DEF o
<1>2. Holds(input, at, o) /\ at + 1 < Size
  BY ParserAssumption DEF o
<1>3. ReadU8(at + (1 - 1)) = o[1] /\ ReadU8(at + (2 - 1)) = o[2]
  BY <1>1, <1>2, ByteDecoded
<1>4. at + (1 - 1) = at /\ at + (2 - 1) = at + 1
  OBVIOUS
<1>5. QED BY <1>1, <1>3, <1>4

-----------------------------------------------------------------------------
(* A batch's pieces: their types, and that they lie within the buffer.     *)
LEMMA SizeType == Size \in Nat /\ (input \in Inputs => input.written \in Nat /\ input.written <= Size)
  BY ParserAssumption

LEMMA AsduFacts ==
  ASSUME input \in Inputs, NEW a \in 1..Len(input.asdus), NEW s, s = input.asdus[a]
  PROVE  /\ s.at \in Nat /\ s.svId \in 10..34 /\ s.smpCnt \in 0..(U16Mod - 1)
         /\ s.data \in [Units -> I32]
         /\ AsduEnd(s) \in Nat /\ AsduEnd(s) = s.at + s.svId + 83
<1>1. input.asdus \in Seq(AsduType)
  BY BatchAssumption DEF Good
<1>2. s \in AsduType
  BY <1>1
<1>3. /\ s.at \in Nat /\ s.svId \in 10..34 /\ s.smpCnt \in 0..(U16Mod - 1)
      /\ s.data \in [Units -> I32]
  BY <1>2 DEF AsduType
<1>4. AsduEnd(s) \in Nat /\ AsduEnd(s) = s.at + s.svId + 83
  <2>1. AsduEnd(s) = s.at + s.svId + 83
    BY DEF AsduEnd
  <2>2. \A x \in Nat : \A y \in 10..34 : x + y + 83 \in Nat
    OBVIOUS
  <2>3. QED BY <1>3, <2>1, <2>2
<1>5. QED BY <1>3, <1>4

LEMMA LaidFits ==
  ASSUME input \in Inputs, NEW s, AsduLaid(input, s), AsduEnd(s) \in Nat
  PROVE  AsduEnd(s) <= input.written /\ AsduEnd(s) <= Size
<1>1. AsduEnd(s) <= input.written
  BY DEF AsduLaid
<1>2. QED BY <1>1, SizeType

LEMMA FrameFacts ==
  ASSUME input \in Inputs, NEW f \in 1..Len(input.frames), NEW g, g = input.frames[f]
  PROVE  /\ FrameAt(input, f) \in Nat
         /\ g.sav \in 0..4 /\ g.seq \in 0..4 /\ g.count \in 0..16 /\ g.first \in Nat \ {0}
         /\ NextFirst(input, f) = g.first + g.count /\ NextFirst(input, f) \in Nat
         /\ Len(input.asdus) \in Nat /\ NextFirst(input, f) - 1 <= Len(input.asdus)
         /\ g.first - 1 \in 0..Len(input.asdus)
<1>1. input.frames \in Seq(FrameType) /\ input.asdus \in Seq(AsduType)
  BY BatchAssumption DEF Good
<1>2. g \in FrameType
  BY <1>1
<1>3. g.at \in Nat /\ g.sav \in 0..4 /\ g.seq \in 0..4 /\ g.count \in 0..16 /\ g.first \in Nat \ {0}
  BY <1>2 DEF FrameType
<1>4. NextFirst(input, f) = g.first + g.count /\ FrameAt(input, f) = g.at
  BY DEF NextFirst, FrameAt
<1>5. NextFirst(input, f) - 1 <= Len(input.asdus) /\ Len(input.asdus) \in Nat
  BY <1>1, BatchAssumption DEF Good
<1> DEFINE next  == NextFirst(input, f)
           first == g.first
           count == g.count
           n     == Len(input.asdus)
<1>6. first \in Nat \ {0} /\ count \in 0..16 /\ n \in Nat /\ next = first + count /\ next - 1 <= n
  BY <1>3, <1>4, <1>5
<1>7. next \in Nat /\ first - 1 \in 0..n
  <2> HIDE DEF next, first, count, n
  <2>1. QED BY <1>6
<1>8. QED BY <1>3, <1>4, <1>5, <1>7

LEMMA WholeFacts ==
  ASSUME input \in Inputs, NEW f \in Whole(input), NEW g, g = input.frames[f]
  PROVE  /\ f \in 1..Len(input.frames) /\ FrameLaid(input, f)
         /\ g.sav \in 0..4 /\ g.seq \in 0..4 /\ g.count \in 1..16
         /\ g.first \in 1..Len(input.asdus) /\ g.first \in Nat
         /\ NextFirst(input, f) = g.first + g.count
         /\ NextFirst(input, f) - 1 \in 1..Len(input.asdus)
         /\ FrameEnd(input, f) = AsduEnd(input.asdus[NextFirst(input, f) - 1])
         /\ FrameEnd(input, f) \in Nat
<1>1. f \in 1..Len(input.frames) /\ FrameLaid(input, f)
  BY BatchAssumption DEF Good, Whole
<1>2. g.count # 0
  BY <1>1 DEF FrameLaid
<1>3. g.sav \in 0..4 /\ g.seq \in 0..4 /\ g.count \in 1..16 /\ g.first \in Nat \ {0}
  <2>1. g.sav \in 0..4 /\ g.seq \in 0..4 /\ g.count \in 0..16 /\ g.first \in Nat \ {0}
    BY <1>1, FrameFacts
  <2>2. QED BY <1>2, <2>1
<1>4. NextFirst(input, f) = g.first + g.count
  BY DEF NextFirst
<1>5. NextFirst(input, f) - 1 <= Len(input.asdus) /\ Len(input.asdus) \in Nat
  BY <1>1, FrameFacts
<1>6. g.first \in 1..Len(input.asdus) /\ NextFirst(input, f) - 1 \in 1..Len(input.asdus)
  <2> DEFINE next  == NextFirst(input, f)
             first == g.first
             count == g.count
             n     == Len(input.asdus)
  <2>1. first \in Nat \ {0} /\ count \in 1..16 /\ n \in Nat /\ next = first + count /\ next - 1 <= n
    BY <1>3, <1>4, <1>5
  <2>2. first \in 1..n /\ next - 1 \in 1..n
    <3> HIDE DEF next, first, count, n
    <3>1. QED BY <2>1
  <2>3. QED BY <2>2
<1>7. FrameEnd(input, f) = AsduEnd(input.asdus[NextFirst(input, f) - 1])
  BY DEF FrameEnd
<1>8. FrameEnd(input, f) \in Nat
  BY <1>6, <1>7, AsduFacts
<1>9. QED BY <1>1, <1>3, <1>4, <1>6, <1>7, <1>8

LEMMA FramePlaces ==
  ASSUME input \in Inputs, NEW f \in Whole(input), NEW g, g = input.frames[f]
  PROVE  /\ FrameAt(input, f) \in Nat /\ FrameAt(input, f) < input.written
         /\ PduAt(input, f) = FrameAt(input, f) + 14
         /\ NoAsduAt(input, f) = FrameAt(input, f) + 24 + g.sav
         /\ SeqAsduAt(input, f) = FrameAt(input, f) + 27 + g.sav
         /\ FirstAt(input, f) = FrameAt(input, f) + 29 + g.sav + g.seq
         /\ FirstAt(input, f) + 93 <= Size
<1>1. f \in 1..Len(input.frames) /\ FrameLaid(input, f) /\ NextFirst(input, f) = g.first + g.count
  BY WholeFacts
<1>2. FrameAt(input, f) \in Nat
  BY <1>1, FrameFacts
<1>3. g.sav \in 0..4 /\ g.seq \in 0..4 /\ g.first \in 1..Len(input.asdus)
  BY WholeFacts
<1> DEFINE p   == FrameAt(input, f)
           sav == g.sav
           seq == g.seq
<1>4. /\ PduAt(input, f) = p + 14
      /\ NoAsduAt(input, f) = p + 14 + 8 + 2 + sav
      /\ SeqAsduAt(input, f) = p + 14 + 8 + 2 + sav + 3
      /\ FirstAt(input, f) = p + 14 + 8 + 2 + sav + 3 + 2 + seq
  BY DEF PduAt, NoAsduAt, SeqAsduAt, FirstAt, EtherHeader, PDUHeader
<1> DEFINE s == input.asdus[g.first]
<1>5. s.at = FirstAt(input, f)
  BY <1>1 DEF FrameLaid
<1>6. s.svId \in 10..34 /\ AsduEnd(s) = s.at + s.svId + 83 /\ AsduEnd(s) <= input.written
  <2>1. g.first \in g.first..(NextFirst(input, f) - 1)
    <3> DEFINE i == g.first
               c == g.count
    <3>1. i \in Nat /\ c \in 1..16 /\ NextFirst(input, f) = i + c
      BY <1>1, WholeFacts
    <3> HIDE DEF i, c
    <3>2. i \in i..(NextFirst(input, f) - 1)
      BY <3>1
    <3>3. QED BY <3>2 DEF i
  <2>2. AsduLaid(input, s)
    BY <1>1, <2>1 DEF FrameLaid
  <2>3. s.svId \in 10..34 /\ AsduEnd(s) = s.at + s.svId + 83 /\ AsduEnd(s) \in Nat
    BY <1>3, AsduFacts
  <2>4. QED BY <2>2, <2>3, LaidFits
<1>7. input.written \in Nat /\ input.written <= Size /\ Size \in Nat
  BY SizeType
<1> DEFINE at   == FirstAt(input, f)
           svId == s.svId
           end  == AsduEnd(s)
           w    == input.written
<1>8. /\ p \in Nat /\ sav \in 0..4 /\ seq \in 0..4 /\ svId \in 10..34 /\ w \in Nat /\ w <= Size /\ Size \in Nat
      /\ at = p + 14 + 8 + 2 + sav + 3 + 2 + seq /\ end = at + svId + 83 /\ end <= w
      /\ NoAsduAt(input, f) = p + 14 + 8 + 2 + sav
      /\ SeqAsduAt(input, f) = p + 14 + 8 + 2 + sav + 3
  BY <1>2, <1>3, <1>4, <1>5, <1>6, <1>7
<1>9. /\ p < w /\ at + 93 <= Size /\ at = p + 29 + sav + seq
      /\ NoAsduAt(input, f) = p + 24 + sav /\ SeqAsduAt(input, f) = p + 27 + sav
  <2> HIDE DEF p, sav, seq, svId, w, at, end
  <2>1. at = p + 29 + sav + seq
    BY <1>8
  <2>2. NoAsduAt(input, f) = p + 24 + sav /\ SeqAsduAt(input, f) = p + 27 + sav
    BY <1>8
  <2>3. p < w /\ at + 93 <= Size
    BY <1>8, <2>1
  <2>4. QED BY <2>1, <2>2, <2>3
<1>10. QED BY <1>2, <1>4, <1>9

-----------------------------------------------------------------------------
(* The sequence only grows, by samples.                                    *)
SampleType == [smpCnt : Nat, data : [Units -> Int]]
SequenceOK == smpCnt \in Nat /\ sequence \in Seq(SampleType)

LEMMA SequenceStep ==
  ASSUME Inv, SequenceOK, Next
  PROVE  /\ SequenceOK' /\ input' = input
         /\ sequence' = sequence \/ \E e \in SampleType : sequence' = Append(sequence, e)
<1>1. offset \in Nat /\ input \in Inputs
  BY DEF Inv, TypeOK
<1>2. CASE AsduField
  <2>1. input' = input /\ smpCnt' \in Nat
    <3>1. ReadU16(offset + 2) \in Nat
      BY <1>1, ReadU16Type, U16Range
    <3>2. QED BY <1>2, <3>1 DEF AsduField, Reject, frame, SequenceOK
  <2>2. CASE StoreAsdu(offset + 2)
    <3> DEFINE e == [smpCnt |-> smpCnt, data |-> [u \in Units |-> ReadI32(UnitAt(offset + 2, u))]]
    <3>1. \A u \in Units : UnitAt(offset + 2, u) \in Nat
      BY <1>1 DEF Units, UnitAt
    <3>2. \A u \in Units : ReadI32(UnitAt(offset + 2, u)) \in Int
      BY <1>1, <3>1, ReadI32Type
    <3>3. e \in SampleType
      BY <3>2 DEF SampleType, SequenceOK
    <3>4. sequence' = Append(sequence, e)
      BY <2>2 DEF StoreAsdu
    <3> HIDE DEF e
    <3>5. sequence' \in Seq(SampleType)
      BY <3>3, <3>4, AppendProperties DEF SequenceOK
    <3>6. QED BY <2>1, <3>3, <3>4, <3>5 DEF SequenceOK
  <2>3. CASE sequence' = sequence
    BY <2>1, <2>3 DEF SequenceOK
  <2>4. QED BY <1>2, <2>2, <2>3, AsduFieldReads DEF FieldRead, Reject, Inv
<1>3. CASE ~AsduField
  <2>1. UNCHANGED <<input, smpCnt, sequence>>
    BY <1>3 DEF Next, FrameHeader, SavPdu, SeqAsdu, Enclosing, NoAsdu, AsduHeader,
       EndOfFrame, Return,
                Reject, Accepts, frame
  <2>2. QED BY <2>1 DEF SequenceOK
<1>4. QED BY <1>2, <1>3

-----------------------------------------------------------------------------
(* How far what was sent is stored: all of it up to the n-th ASDU, but for *)
(* a piece behind the damage.                                              *)
Stored(n) ==
  \E a, lost \in 0..n : /\ PieceShort(n, a, lost)
                        /\ lost # 0 => input.damaged # 0 /\ a >= Undamaged(input)

(* The ASDU of frame f that is to be parsed, and where the parser is in f. *)
Current(f) == NextFirst(input, f) - seqCount
InFrame(f) ==
  /\ InPDU => base = PduAt(input, f) /\ length = FrameEnd(input, f) - PduAt(input, f)
  /\ pc \in {"frame", "savPdu", "noAsdu", "seqAsdu"} => Stored(input.frames[f].first - 1)
  /\ \/ pc = "frame"   /\ offset = FrameAt(input, f)
     \/ pc = "savPdu"  /\ offset = PduAt(input, f) + PDUHeader
     \/ pc = "noAsdu"  /\ offset = NoAsduAt(input, f)
     \/ pc = "seqAsdu" /\ offset = SeqAsduAt(input, f) /\ seqCount = input.frames[f].count
     \/ /\ pc = "asdu" /\ seqCount \in 0..input.frames[f].count /\ Stored(Current(f) - 1)
        /\ offset = IF seqCount = 0 THEN FrameEnd(input, f) ELSE input.asdus[Current(f)].at
     \/ /\ pc = "field" /\ seqCount \in 1..input.frames[f].count /\ Stored(Current(f) - 1)
        /\ offset = FieldPlace(input.asdus[Current(f)], field)
        /\ asduLength = AsduEnd(input.asdus[Current(f)]) - offset
        /\ field > 2 => smpCnt = input.asdus[Current(f)].smpCnt

(* The last frame is behind the parser.                                    *)
AtEnd == pc \in {"frame", "done"} /\ offset >= input.written /\ Stored(Len(input.asdus))

(* Nothing is known of what it read behind the damage.                     *)
Behind == /\ input.damaged # 0 /\ ~Unmistakable(input)
          /\ Undamaged(input) <= Len(sequence)
          /\ \A a \in 1..Undamaged(input) : sequence[a] = Sample(input.asdus[a])

(* The parser has lost its place in the damaged frame.  It has stored the  *)
(* first n samples and none that was sent behind offset.                   *)
LostAfter(n) ==
  /\ input.damaged # 0 /\ Unmistakable(input) /\ n >= Undamaged(input)
  /\ Len(sequence) = n /\ \A a \in 1..n : sequence[a] = Sample(input.asdus[a])
  /\ n > 0 => input.asdus[n].at <= offset
  /\ offset >= FrameAt(input, input.damaged)
  /\ InPDU => offset > FrameAt(input, input.damaged)

(* Where it takes what comes for a frame, none but the damaged one was     *)
(* sent.                                                                   *)
NoFrameAt(at, n) ==
  \A f \in 1..Len(input.frames) :
    FrameAt(input, f) = at => f = input.damaged /\ n = input.frames[f].first - 1

(* What it has read looks like an ASDU that starts there, and from base on *)
(* like a PDU up to its first ASDU.                                        *)
InAsduAt(at) ==
  \/ pc = "asdu" /\ offset = at
  \/ /\ pc = "field" /\ offset = FieldAt(input, at, field) /\ ByteAt(input, at) = 48
     /\ \A f \in 1..(field - 1) : FieldLike(input, at, f)
     /\ field > 2 => smpCnt = ReadU16(FieldAt(input, at, 2) + 2)
InHeader ==
  /\ length = WordAt(input, base + 2)
  /\ \/ pc = "savPdu" /\ offset = SavPduOf(base)
     \/ pc = "noAsdu" /\ offset = NoAsduOf(input, base) /\ SavPduLike(input, base)
     \/ /\ pc = "seqAsdu" /\ offset = SeqAsduOf(input, base)
        /\ SavPduLike(input, base) /\ NoAsduLike(input, base)
     \/ /\ InAsduAt(FirstOf(input, base))
        /\ SavPduLike(input, base) /\ NoAsduLike(input, base)
        /\ ByteAt(input, SeqAsduOf(input, base)) = 162

Astray ==
  \E n \in 0..Len(input.asdus) :
    /\ LostAfter(n)
    /\ pc = "frame" => NoFrameAt(offset, n)
    /\ InPDU => \/ InHeader /\ NoFrameAt(base - EtherHeader, n)
                \/ n > 0 /\ InAsduAt(AsduEnd(input.asdus[n]))

Place == AtEnd \/ Behind \/ Astray \/ \E f \in Whole(input) : InFrame(f)

LEMMA ModSmall == ASSUME NEW l \in 0..(U16Mod - 1) PROVE l % U16Mod = l
<1>1. l \in Int /\ 0 <= l /\ l < 65536
  BY DEF U16Mod
<1>2. l % 65536 = l
  BY <1>1
<1>3. QED BY <1>2 DEF U16Mod

(* A length that is the rest of the frame passes the parser's check.       *)
LEMMA RestIsLeft ==
  ASSUME Inv, InPDU, NEW n \in Nat, NEW l \in 0..(U16Mod - 1), offset + n + l = base + length
  PROVE  (internalFrameLength - n) % U16Mod = l
<1>1. internalFrameLength = (length - (offset - base)) % U16Mod
  BY DEF Inv, LengthIsAccounted
<1>2. offset \in Nat /\ base \in Nat /\ length \in Nat
  BY U16Range DEF Inv, TypeOK
<1> DEFINE a == length - (offset - base)
<1>3. a \in Int /\ a - n = l
  BY <1>2, U16Range
<1> HIDE DEF a
<1>4. (internalFrameLength - n) % U16Mod = (a - n) % U16Mod
  BY <1>1, <1>3, ModSubtract DEF a
<1>5. l % U16Mod = l
  BY ModSmall
<1>6. QED BY <1>3, <1>4, <1>5

LEMMA EnclosingAccepts ==
  ASSUME Inv, InPDU, NEW from, NEW tag, NEW to, Enclosing(from, tag, to),
         NEW n \in 0..4, NEW l \in Int, AsnFits(l, n), offset + n + 2 < Size,
         Holds(input, offset, <<tag>>), Holds(input, offset + 1, AsnOctets(l, n)),
         offset + 2 + n + l = base + length
  PROVE  pc' = to /\ offset' = offset + 2 + n /\ UNCHANGED <<input, base, length, seqCount, sequence>>
<1>1. offset \in Nat /\ offset + 1 \in Nat /\ Size \in Nat
  BY SizeType DEF Inv, TypeOK
<1>2. ReadU8(offset) = tag
  <2>1. 1 \in 1..Len(<<tag>>) /\ <<tag>>[1] = tag /\ offset + (1 - 1) = offset /\ offset + 1 < Size
    BY <1>1
  <2>2. QED BY <1>1, <2>1, ByteDecoded
<1>3. AsnBytes(offset + 1) = n + 1 /\ AsnLength(offset + 1) = l /\ l \in 0..(U16Mod - 1)
  <2>1. (offset + 1) + n + 1 < Size
    BY <1>1
  <2>2. QED BY <1>1, <2>1, AsnDecoded
<1> DEFINE m == 1 + AsnBytes(offset + 1)
<1>4. m = 2 + n /\ m \in Nat
  BY <1>3
<1>5. (internalFrameLength - m) % U16Mod = l
  <2>1. offset + m + l = base + length
    <3> HIDE DEF m
    <3>1. QED BY <1>1, <1>4
  <2>2. QED BY <1>3, <1>4, <2>1, RestIsLeft
<1> HIDE DEF m
<1>6. Accepts(m, to) /\ UNCHANGED <<asduLength, seqCount, field, smpCnt, sequence>>
  BY <1>2, <1>3, <1>5 DEF Enclosing, m
<1>7. offset' = offset + m /\ pc' = to /\ UNCHANGED <<input, base, length>>
  BY <1>6 DEF Accepts, Consume
<1>8. QED BY <1>1, <1>4, <1>6, <1>7

LEMMA StoredStays == ASSUME NEW n, Stored(n), UNCHANGED <<input, sequence>> PROVE Stored(n)'
  BY DEF Stored, PieceShort, Undamaged

(* The next sample goes where the piece is no longer missing.              *)
LEMMA StoresNext ==
  ASSUME NEW n \in Nat, Stored(n), SequenceOK, input' = input,
         Sample(input.asdus[n + 1]) \in SampleType,
         sequence' = Append(sequence, Sample(input.asdus[n + 1]))
  PROVE  Stored(n + 1)'
<1>1. PICK a \in 0..n, lost \in 0..n :
        /\ PieceShort(n, a, lost)
        /\ lost # 0 => input.damaged # 0 /\ a >= Undamaged(input)
  BY DEF Stored
<1>2. /\ Len(sequence') = Len(sequence) + 1 /\ Len(sequence) \in Nat
      /\ \A k \in 1..Len(sequence) : sequence'[k] = sequence[k]
      /\ sequence'[Len(sequence) + 1] = Sample(input.asdus[n + 1])
  BY AppendProperties DEF SequenceOK
<1>3. /\ a + lost <= n /\ Len(sequence) = n - lost
      /\ \A i \in 1..Len(sequence) : sequence[i] = Sample(input.asdus[IF i <= a THEN i ELSE i + lost])
  BY <1>1 DEF PieceShort
<1>4. Len(sequence') = (n + 1) - lost /\ a + lost <= n + 1
  <2>1. Len(sequence') = (n - lost) + 1 /\ a + lost <= n
    BY <1>2, <1>3
  <2>2. QED BY <2>1
<1>5. ASSUME NEW i \in 1..Len(sequence')
      PROVE  sequence'[i] = Sample(input.asdus[IF i <= a THEN i ELSE i + lost])
  <2>1. CASE i \in 1..Len(sequence)
    BY <1>2, <1>3, <2>1
  <2>2. CASE i = Len(sequence) + 1
    <3>1. ~(i <= a) /\ i + lost = n + 1
      BY <1>3, <2>2
    <3>2. QED BY <1>2, <2>2, <3>1
  <2>3. QED BY <1>2, <2>1, <2>2
<1>6. PieceShort(n + 1, a, lost)'
  BY <1>4, <1>5 DEF PieceShort
<1>7. a \in 0..(n + 1) /\ lost \in 0..(n + 1)
  OBVIOUS
<1>8. lost # 0 => input'.damaged # 0 /\ a >= Undamaged(input')
  BY <1>1
<1>9. QED BY <1>6, <1>7, <1>8 DEF Stored

(* In a good frame every step takes the parser to the next place in it,    *)
(* and from its end to the next good frame, if there is one.               *)
LEMMA FrameHeaderPlace ==
  ASSUME Inv, NEW f \in Whole(input), InFrame(f), FrameHeader
  PROVE  InFrame(f)'
<1> DEFINE g == input.frames[f]
           p == PduAt(input, f)
           size == FrameEnd(input, f) - p
<1>1. pc = "frame" /\ offset = FrameAt(input, f) /\ Stored(g.first - 1) /\ input \in Inputs
  BY DEF FrameHeader, InFrame, Inv, TypeOK
<1>2. p = offset + 14 /\ p \in Nat /\ offset \in Nat /\ p + 4 < Size
  <2> DEFINE first == FirstAt(input, f)
             sav == g.sav
             seq == g.seq
  <2>1. /\ offset \in Nat /\ p = offset + 14 /\ sav \in 0..4 /\ seq \in 0..4
        /\ first = offset + 29 + sav + seq /\ first + 93 <= Size /\ Size \in Nat
    BY <1>1, FramePlaces, WholeFacts, SizeType
  <2> HIDE DEF first, sav, seq, p
  <2>2. QED BY <2>1
<1>3. size \in 1..(U16Mod - 1) /\ Holds(input, p + 2, U16Octets(size))
  BY <1>1, WholeFacts DEF FrameLaid
<1> HIDE DEF p, size
<1>4. base' = p /\ offset' = p + 8 /\ UNCHANGED <<input, sequence>> /\ length' = ReadU16(base' + 2)
  BY <1>1, <1>2 DEF FrameHeader, Skipped, EtherHeader, PDUHeader
<1>5. ReadU16(p + 2) = size
  <2>1. p + 2 \in Nat /\ (p + 2) + 2 < Size /\ size \in 0..(U16Mod - 1)
    BY <1>2, <1>3, U16Range
  <2>2. QED BY <1>3, <2>1, U16Decoded
<1>6. length' = size /\ length' # 0
  BY <1>3, <1>4, <1>5
<1>7. pc' = "savPdu"
  BY <1>6 DEF FrameHeader
<1>8. Stored(g.first - 1)'
  BY <1>1, <1>4, StoredStays
<1>9. QED BY <1>4, <1>6, <1>7, <1>8 DEF InFrame, InPDU, PDUHeader, p, size

LEMMA SavPduPlace ==
  ASSUME Inv, NEW f \in Whole(input), InFrame(f), SavPdu
  PROVE  InFrame(f)'
<1> DEFINE g == input.frames[f]
           p == PduAt(input, f)
           end == FrameEnd(input, f)
           noAsdu == NoAsduAt(input, f)
           n == g.sav
           l == end - noAsdu
<1>1. /\ pc = "savPdu" /\ offset = p + 8 /\ Stored(g.first - 1) /\ input \in Inputs /\ InPDU
      /\ base = p /\ length = end - p
  BY DEF SavPdu, Enclosing, InFrame, InPDU, PDUHeader, Inv, TypeOK
<1>2. p \in Nat /\ end \in Nat /\ n \in 0..4 /\ noAsdu = p + 10 + n /\ p + 12 + n < Size /\ Size \in Nat
  <2> DEFINE at == FrameAt(input, f)
             first == FirstAt(input, f)
             seq == g.seq
  <2>1. /\ at \in Nat /\ p = at + 14 /\ n \in 0..4 /\ seq \in 0..4 /\ noAsdu = at + 24 + n /\ end \in Nat
        /\ first = at + 29 + n + seq /\ first + 93 <= Size /\ Size \in Nat
    BY <1>1, FramePlaces, WholeFacts, SizeType
  <2> HIDE DEF at, first, seq, p, n, end, noAsdu
  <2>2. QED BY <2>1
<1>3. AsnFits(l, n) /\ Holds(input, p + 8, <<96>>) /\ Holds(input, p + 8 + 1, AsnOctets(l, n))
  BY <1>1, WholeFacts DEF FrameLaid, PDUHeader
<1> HIDE DEF g, p, end, noAsdu, n
<1>4. l \in Int /\ offset + n + 2 < Size /\ offset + 2 + n + l = base + length
  <2>1. offset + n + 2 < Size
    BY <1>1, <1>2
  <2>2. l \in Int /\ offset + 2 + n + l = base + length
    BY <1>1, <1>2
  <2>3. QED BY <2>1, <2>2
<1> HIDE DEF l
<1>5. /\ pc' = "noAsdu" /\ offset' = offset + 2 + n
      /\ UNCHANGED <<input, base, length, seqCount, sequence>>
  BY <1>1, <1>2, <1>3, <1>4, EnclosingAccepts DEF SavPdu
<1>6. offset' = noAsdu
  BY <1>1, <1>2, <1>5
<1>7. Stored(g.first - 1)'
  BY <1>1, <1>5, StoredStays DEF g
<1>8. QED BY <1>1, <1>5, <1>6, <1>7 DEF InFrame, InPDU, g, p, end, noAsdu

LEMMA NoAsduPlace ==
  ASSUME Inv, NEW f \in Whole(input), InFrame(f), NoAsdu
  PROVE  InFrame(f)'
<1> DEFINE g == input.frames[f]
           at == NoAsduAt(input, f)
           o == <<128, 1, g.count>>
<1>1. /\ pc = "noAsdu" /\ offset = at /\ Stored(g.first - 1) /\ input \in Inputs /\ InPDU
      /\ base = PduAt(input, f) /\ length = FrameEnd(input, f) - PduAt(input, f)
  BY DEF NoAsdu, InFrame, InPDU, Inv, TypeOK
<1>2. at \in Nat /\ at + 3 < Size /\ SeqAsduAt(input, f) = at + 3 /\ g.count \in 1..16
  <2> DEFINE first == FirstAt(input, f)
             q == FrameAt(input, f)
             sav == g.sav
             seq == g.seq
             s == SeqAsduAt(input, f)
  <2>1. /\ q \in Nat /\ sav \in 0..4 /\ seq \in 0..4 /\ at = q + 24 + sav /\ s = q + 27 + sav
        /\ first = q + 29 + sav + seq /\ first + 93 <= Size /\ Size \in Nat
    BY <1>1, FramePlaces, WholeFacts, SizeType
  <2>2. g.count \in 1..16
    BY <1>1, WholeFacts
  <2> HIDE DEF first, q, sav, seq, s, at
  <2>3. at \in Nat /\ at + 3 < Size /\ s = at + 3
    BY <2>1
  <2>4. QED BY <2>2, <2>3 DEF s
<1>3. Holds(input, at, o)
  BY <1>1, WholeFacts DEF FrameLaid
<1>4. Len(o) = 3 /\ o[1] = 128 /\ o[2] = 1 /\ o[3] = g.count
  OBVIOUS
<1> HIDE DEF g, at, o
<1>5. ReadU8(at + (1 - 1)) = o[1] /\ ReadU8(at + (2 - 1)) = o[2] /\ ReadU8(at + (3 - 1)) = o[3]
  <2>1. Size \in Nat /\ at + 1 < Size /\ at + 2 < Size /\ 1 \in 1..Len(o) /\ 2 \in 1..Len(o) /\ 3 \in 1..Len(o)
    BY <1>2, <1>4, SizeType
  <2>2. QED BY <1>2, <1>3, <2>1, ByteDecoded
<1>6. ReadU8(offset) = 128 /\ ReadU8(offset + 1) = 1 /\ ReadU8(offset + 2) = g.count
  <2>1. at + (1 - 1) = offset /\ at + (2 - 1) = offset + 1 /\ at + (3 - 1) = offset + 2
    BY <1>1, <1>2
  <2>2. QED BY <1>4, <1>5, <2>1
<1>7. Accepts(3, "seqAsdu") /\ seqCount' = g.count /\ sequence' = sequence
  BY <1>2, <1>6 DEF NoAsdu
<1>8. /\ pc' = "seqAsdu" /\ offset' = SeqAsduAt(input, f) /\ UNCHANGED <<input, base, length, sequence>>
  BY <1>1, <1>2, <1>7 DEF Accepts, Consume
<1>9. Stored(g.first - 1)'
  BY <1>1, <1>8, StoredStays DEF g
<1>10. QED BY <1>1, <1>7, <1>8, <1>9 DEF InFrame, InPDU, g

LEMMA SeqAsduPlace ==
  ASSUME Inv, NEW f \in Whole(input), InFrame(f), SeqAsdu
  PROVE  InFrame(f)'
<1> DEFINE g == input.frames[f]
           p == PduAt(input, f)
           end == FrameEnd(input, f)
           at == SeqAsduAt(input, f)
           first == FirstAt(input, f)
           n == g.seq
           l == end - first
<1>1. /\ pc = "seqAsdu" /\ offset = at /\ seqCount = g.count /\ Stored(g.first - 1) /\ input \in Inputs
      /\ InPDU /\ base = p /\ length = end - p
  BY DEF SeqAsdu, Enclosing, InFrame, InPDU, Inv, TypeOK
<1>2. p \in Nat /\ end \in Nat /\ at \in Nat /\ n \in 0..4 /\ first = at + 2 + n /\ at + n + 2 < Size
  <2> DEFINE q == FrameAt(input, f)
             sav == g.sav
  <2>1. /\ q \in Nat /\ sav \in 0..4 /\ n \in 0..4 /\ at = q + 27 + sav /\ end \in Nat /\ p = q + 14
        /\ first = q + 29 + sav + n /\ first + 93 <= Size /\ Size \in Nat
    BY <1>1, FramePlaces, WholeFacts, SizeType
  <2> HIDE DEF q, first, sav, p, n, end, at
  <2>2. QED BY <2>1
<1>3. AsnFits(l, n) /\ Holds(input, at, <<162>>) /\ Holds(input, at + 1, AsnOctets(l, n))
  BY <1>1, WholeFacts DEF FrameLaid
<1>4. /\ g.count \in 1..16 /\ NextFirst(input, f) = g.first + g.count /\ g.first \in Nat
      /\ input.asdus[g.first].at = first
  <2>1. g.count \in 1..16 /\ NextFirst(input, f) = g.first + g.count /\ g.first \in 1..Len(input.asdus)
    BY <1>1, WholeFacts
  <2>2. input.asdus[g.first].at = first
    BY <1>1, WholeFacts DEF FrameLaid
  <2>3. QED BY <2>1, <2>2
<1> HIDE DEF g, p, end, at, first, n
<1>5. l \in Int /\ offset + n + 2 < Size /\ offset + 2 + n + l = base + length
  BY <1>1, <1>2
<1> HIDE DEF l
<1>6. /\ pc' = "asdu" /\ offset' = offset + 2 + n
      /\ UNCHANGED <<input, base, length, seqCount, sequence>>
  BY <1>1, <1>2, <1>3, <1>5, EnclosingAccepts DEF SeqAsdu
<1>7. Current(f)' = g.first
  <2> DEFINE i == g.first
             c == g.count
  <2>1. i \in Nat /\ c \in 1..16 /\ NextFirst(input', f) = i + c /\ seqCount' = c
    BY <1>1, <1>4, <1>6
  <2>2. Current(f)' = NextFirst(input', f) - seqCount'
    BY DEF Current
  <2> HIDE DEF i, c
  <2>3. Current(f)' = i
    BY <2>1, <2>2
  <2>4. QED BY <2>3 DEF i
<1>8. offset' = input'.asdus[Current(f)'].at /\ seqCount' # 0 /\ seqCount' \in 0..g.count
  <2>1. offset' = first
    BY <1>1, <1>2, <1>6
  <2>2. input' = input /\ seqCount' = g.count
    BY <1>1, <1>6
  <2>3. g.count # 0 /\ g.count \in 0..g.count
    BY <1>4
  <2>4. QED BY <1>4, <1>7, <2>1, <2>2, <2>3
<1>9. Stored(g.first - 1)'
  BY <1>1, <1>6, StoredStays DEF g
<1>10. (Stored(Current(f) - 1))'
  BY <1>6, <1>7, <1>9 DEF Stored, PieceShort, Undamaged, g
<1>11. QED BY <1>1, <1>6, <1>8, <1>10 DEF InFrame, InPDU, g, p, end

(* The ASDU under the parser is one of the frame's, and what comes next.   *)
LEMMA CurrentFacts ==
  ASSUME input \in Inputs, NEW f \in Whole(input), seqCount \in 1..input.frames[f].count,
         NEW i, i = Current(f)
  PROVE  /\ i \in 1..Len(input.asdus) /\ AsduLaid(input, input.asdus[i])
         /\ AsduEnd(input.asdus[i]) <= Size
         /\ seqCount = 1 => AsduEnd(input.asdus[i]) = FrameEnd(input, f)
         /\ seqCount # 1 => input.asdus[i + 1].at = AsduEnd(input.asdus[i])
<1> DEFINE g     == input.frames[f]
           next  == NextFirst(input, f)
           first == g.first
           count == g.count
           n     == Len(input.asdus)
<1>1. /\ next = first + count /\ count \in 1..16 /\ first \in 1..n /\ next - 1 \in 1..n /\ n \in Nat
      /\ FrameEnd(input, f) = AsduEnd(input.asdus[next - 1])
      /\ \A a \in (first + 1)..(next - 1) : input.asdus[a].at = AsduEnd(input.asdus[a - 1])
      /\ \A a \in first..(next - 1) : AsduLaid(input, input.asdus[a])
  <2>1. input.asdus \in Seq(AsduType)
    BY BatchAssumption DEF Good
  <2>2. FrameLaid(input, f)
    BY WholeFacts
  <2>3. /\ \A a \in (first + 1)..(next - 1) : input.asdus[a].at = AsduEnd(input.asdus[a - 1])
        /\ \A a \in first..(next - 1) : AsduLaid(input, input.asdus[a])
    BY <2>2 DEF FrameLaid
  <2>4. /\ next = first + count /\ count \in 1..16 /\ first \in 1..n /\ next - 1 \in 1..n
        /\ FrameEnd(input, f) = AsduEnd(input.asdus[next - 1])
    BY WholeFacts
  <2>5. n \in Nat
    BY <2>1
  <2>6. QED BY <2>3, <2>4, <2>5
<1>2. i = next - seqCount /\ seqCount \in 1..count
  BY DEF Current
<1> HIDE DEF g, next, first, count, n
<1>3. i \in 1..n /\ i \in first..(next - 1) /\ (seqCount = 1 => i = next - 1)
  BY <1>1, <1>2
<1>4. seqCount # 1 => i + 1 \in (first + 1)..(next - 1) /\ (i + 1) - 1 = i
  BY <1>1, <1>2
<1>5. AsduLaid(input, input.asdus[i]) /\ AsduEnd(input.asdus[i]) <= Size
  <2>1. AsduLaid(input, input.asdus[i])
    BY <1>1, <1>3
  <2>2. AsduEnd(input.asdus[i]) \in Nat
    BY <1>3, AsduFacts DEF n
  <2>3. QED BY <2>1, <2>2, LaidFits
<1>6. QED BY <1>1, <1>3, <1>4, <1>5 DEF n

LEMMA AsduHeaderPlace ==
  ASSUME Inv, NEW f \in Whole(input), InFrame(f), AsduHeader
  PROVE  InFrame(f)'
<1> DEFINE i == Current(f)
           s == input.asdus[i]
           at == s.at
           v == s.svId
<1>1. /\ pc = "asdu" /\ seqCount \in 1..input.frames[f].count /\ Stored(i - 1) /\ offset = at
      /\ input \in Inputs /\ InPDU
      /\ base = PduAt(input, f) /\ length = FrameEnd(input, f) - PduAt(input, f)
  <2>1. seqCount # 0 /\ seqCount \in Nat
    BY DEF AsduHeader, Inv, TypeOK
  <2>2. pc = "asdu"
    BY DEF AsduHeader
  <2>3. /\ seqCount \in 0..input.frames[f].count /\ Stored(i - 1) /\ offset = at
        /\ base = PduAt(input, f) /\ length = FrameEnd(input, f) - PduAt(input, f)
    BY <2>1, <2>2 DEF InFrame, InPDU
  <2>4. input \in Inputs
    BY DEF Inv, TypeOK
  <2>5. seqCount \in 1..input.frames[f].count
    BY <2>1, <2>3
  <2>6. QED BY <2>2, <2>3, <2>4, <2>5 DEF InPDU
<1>2. i \in 1..Len(input.asdus) /\ AsduLaid(input, s) /\ AsduEnd(s) <= Size
  BY <1>1, CurrentFacts
<1>3. /\ at \in Nat /\ v \in 10..34 /\ AsduEnd(s) = at + v + 83 /\ AsduEnd(s) <= Size /\ Size \in Nat
      /\ Holds(input, at, <<48, v + 81>>)
  <2>1. Holds(input, at, <<48, v + 81>>)
    BY <1>2 DEF AsduLaid
  <2>2. QED BY <1>1, <1>2, <2>1, AsduFacts, SizeType
<1>4. at + 2 < Size /\ v + 81 \in 91..115
  <2> DEFINE end == AsduEnd(s)
  <2>1. end = at + v + 83 /\ end <= Size
    BY <1>3
  <2> HIDE DEF at, v, end
  <2>2. QED BY <1>3, <2>1
<1>5. ReadU8(offset) = 48 /\ ReadU8(offset + 1) = v + 81
  BY <1>1, <1>3, <1>4, TwoBytesDecoded
<1>6. Accepts(2, "field") /\ asduLength' = v + 81 /\ field' = 1 /\ UNCHANGED <<seqCount, smpCnt, sequence>>
  BY <1>4, <1>5 DEF AsduHeader
<1>7. /\ pc' = "field" /\ offset' = at + 2 /\ UNCHANGED <<input, base, length, seqCount, sequence>>
  BY <1>1, <1>6 DEF Accepts, Consume
<1>8. FieldPlace(s, 1) = at + 2
  BY DEF FieldPlace
<1>9. v + 81 = AsduEnd(s) - (at + 2)
  <2> DEFINE end == AsduEnd(s)
  <2>1. end = at + v + 83
    BY <1>3
  <2> HIDE DEF at, v, end
  <2>2. v + 81 = end - (at + 2)
    BY <1>3, <2>1
  <2>3. QED BY <2>2 DEF end
<1>10. Current(f)' = i /\ input' = input
  BY <1>7 DEF Current
<1>11. (Stored(Current(f) - 1))'
  BY <1>1, <1>7, <1>10 DEF Stored, PieceShort, Undamaged
<1> HIDE DEF i
<1>12. /\ asduLength' = AsduEnd(input'.asdus[Current(f)']) - offset'
       /\ offset' = FieldPlace(input'.asdus[Current(f)'], field')
  BY <1>6, <1>7, <1>8, <1>9, <1>10
<1>13. QED BY <1>1, <1>6, <1>7, <1>11, <1>12 DEF InFrame, InPDU

LEMMA FieldFacts ==
  ASSUME NEW s, s.at \in Nat, s.svId \in 10..34, AsduLaid(input, s), NEW k \in 1..5
  PROVE  \E n \in Fields[k].lengths :
           /\ n \in 1..64 /\ FieldPlace(s, k) \in Nat /\ FieldPlace(s, k) + 4 < AsduEnd(s)
           /\ Holds(input, FieldPlace(s, k), <<Fields[k].tag, n>>)
           /\ FieldPlace(s, k) + 2 + n = IF k < 5 THEN FieldPlace(s, k + 1) ELSE AsduEnd(s)
           /\ AsduEnd(s) - (FieldPlace(s, k) + 2 + n) \in 0..79
<1> DEFINE at == s.at
           v == s.svId
<1>1. /\ FieldPlace(s, 1) = at + 2 /\ FieldPlace(s, 2) = at + (4 + v) /\ FieldPlace(s, 3) = at + (8 + v)
      /\ FieldPlace(s, 4) = at + (14 + v) /\ FieldPlace(s, 5) = at + (17 + v) /\ AsduEnd(s) = at + v + 83
  BY DEF FieldPlace, AsduEnd
<1>2. /\ Fields[1].tag = 128 /\ Fields[2].tag = 130 /\ Fields[3].tag = 131
      /\ Fields[4].tag = 133 /\ Fields[5].tag = 135
      /\ Fields[1].lengths = 10..34 /\ Fields[2].lengths = {2} /\ Fields[3].lengths = {4}
      /\ Fields[4].lengths = {1} /\ Fields[5].lengths = {64}
  BY DEF Fields
<1>3. /\ Holds(input, FieldPlace(s, 1), <<128, v>>) /\ Holds(input, FieldPlace(s, 2), <<130, 2>>)
      /\ Holds(input, FieldPlace(s, 3), <<131, 4>>) /\ Holds(input, FieldPlace(s, 4), <<133, 1>>)
      /\ Holds(input, FieldPlace(s, 5), <<135, 64>>)
  BY DEF AsduLaid
<1>4. at \in Nat /\ v \in 10..34
  OBVIOUS
<1> DEFINE f1 == FieldPlace(s, 1)
           f2 == FieldPlace(s, 2)
           f3 == FieldPlace(s, 3)
           f4 == FieldPlace(s, 4)
           f5 == FieldPlace(s, 5)
           end == AsduEnd(s)
<1>5. /\ f1 = at + 2 /\ f2 = at + (4 + v) /\ f3 = at + (8 + v) /\ f4 = at + (14 + v) /\ f5 = at + (17 + v)
      /\ end = at + v + 83
  BY <1>1
<1>6. /\ f1 \in Nat /\ f1 + 4 < end /\ f1 + 2 + v = f2 /\ end - (f1 + 2 + v) \in 0..79
      /\ f2 \in Nat /\ f2 + 4 < end /\ f2 + 2 + 2 = f3 /\ end - (f2 + 2 + 2) \in 0..79
      /\ f3 \in Nat /\ f3 + 4 < end /\ f3 + 2 + 4 = f4 /\ end - (f3 + 2 + 4) \in 0..79
      /\ f4 \in Nat /\ f4 + 4 < end /\ f4 + 2 + 1 = f5 /\ end - (f4 + 2 + 1) \in 0..79
      /\ f5 \in Nat /\ f5 + 4 < end /\ f5 + 2 + 64 = end /\ end - (f5 + 2 + 64) \in 0..79
  <2> HIDE DEF at, v, f1, f2, f3, f4, f5, end
  <2>1. QED BY <1>4, <1>5
<1>7. CASE k = 1
  <2>1. v \in Fields[k].lengths /\ v \in 1..64
    BY <1>2, <1>4, <1>7
  <2>2. QED BY <1>2, <1>3, <1>6, <1>7, <2>1
<1>8. CASE k = 2
  BY <1>2, <1>3, <1>6, <1>8
<1>9. CASE k = 3
  BY <1>2, <1>3, <1>6, <1>9
<1>10. CASE k = 4
  BY <1>2, <1>3, <1>6, <1>10
<1>11. CASE k = 5
  BY <1>2, <1>3, <1>6, <1>11
<1>12. k = 1 \/ k = 2 \/ k = 3 \/ k = 4 \/ k = 5
  OBVIOUS
<1>13. QED BY <1>7, <1>8, <1>9, <1>10, <1>11, <1>12, Zenon

LEMMA UnitsDecoded ==
  ASSUME input \in Inputs, NEW a \in 1..Len(input.asdus), NEW s, s = input.asdus[a],
         AsduHolds(input, s), AsduEnd(s) <= Size
  PROVE  [u \in Units |-> ReadI32(UnitAt(FieldPlace(s, 5) + 2, u))] = s.data
<1>1. s.at \in Nat /\ s.svId \in 10..34 /\ s.data \in [Units -> I32]
  BY AsduFacts
<1> DEFINE at == FieldPlace(s, 5)
           end == AsduEnd(s)
<1>2. at \in Nat /\ at + 66 <= Size /\ Size \in Nat
  <2> DEFINE p == s.at
             v == s.svId
  <2>1. p \in Nat /\ v \in 10..34 /\ at = p + (17 + v) /\ end = p + v + 83 /\ end <= Size /\ Size \in Nat
    BY <1>1, SizeType DEF FieldPlace, AsduEnd
  <2> HIDE DEF p, v, at, end
  <2>2. at \in Nat /\ end = at + 66
    BY <2>1
  <2>3. QED BY <2>1, <2>2
<1>3. ASSUME NEW u \in Units PROVE ReadI32(UnitAt(at + 2, u)) = s.data[u]
  <2>1. Holds(input, at + 2 + 8 * u, I32Octets(s.data[u])) /\ s.data[u] \in I32
    BY <1>1 DEF AsduHolds
  <2> HIDE DEF at
  <2>2. UnitAt(at + 2, u) = at + 2 + 8 * u
    BY DEF UnitAt
  <2>3. at + 2 + 8 * u \in Nat /\ (at + 2 + 8 * u) + 4 < Size
    BY <1>2 DEF Units
  <2>4. QED BY <2>1, <2>2, <2>3, I32Decoded
<1> HIDE DEF at
<1>4. [u \in Units |-> ReadI32(UnitAt(at + 2, u))] = [u \in Units |-> s.data[u]]
  BY <1>3
<1>5. [u \in Units |-> s.data[u]] = s.data
  BY <1>1
<1>6. QED BY <1>4, <1>5 DEF at

LEMMA ModSmall8 == ASSUME NEW l \in 0..79 PROVE l % U8Mod = l
<1>1. l % 256 = l
  OBVIOUS
<1>2. QED BY <1>1 DEF U8Mod

LEMMA AsduFieldPlace ==
  ASSUME Inv, SequenceOK, NEW f \in Whole(input), InFrame(f), AsduField
  PROVE  InFrame(f)'
<1> DEFINE i == Current(f)
           s == input.asdus[i]
           end == AsduEnd(s)
           at == FieldPlace(s, field)
           p == PduAt(input, f)
           size == FrameEnd(input, f) - p
<1>1. /\ pc = "field" /\ seqCount \in 1..input.frames[f].count /\ Stored(i - 1) /\ offset = at
      /\ asduLength = end - at /\ (field > 2 => smpCnt = s.smpCnt)
      /\ input \in Inputs /\ InPDU /\ base = p /\ length = size /\ field \in 1..5
  BY FieldsType DEF AsduField, InFrame, InPDU, Inv, TypeOK
<1>2. i \in 1..Len(input.asdus) /\ AsduLaid(input, s) /\ AsduHolds(input, s) /\ end <= Size
  <2>1. i \in 1..Len(input.asdus) /\ AsduLaid(input, s) /\ end <= Size
    BY <1>1, CurrentFacts
  <2>2. QED BY <2>1 DEF AsduLaid
<1>3. /\ s.at \in Nat /\ s.svId \in 10..34 /\ s.smpCnt \in 0..(U16Mod - 1)
      /\ end \in Nat /\ Size \in Nat
  BY <1>1, <1>2, AsduFacts, SizeType
<1>4. PICK n \in Fields[field].lengths :
           /\ n \in 1..64 /\ at \in Nat /\ at + 4 < end
           /\ Holds(input, at, <<Fields[field].tag, n>>)
           /\ at + 2 + n = IF field < 5 THEN FieldPlace(s, field + 1) ELSE end
           /\ end - (at + 2 + n) \in 0..79
  BY <1>1, <1>2, <1>3, FieldFacts
<1> DEFINE rest == end - (at + 2 + n)
           next == FieldPlace(s, field + 1)
<1>5. at \in Nat /\ at + 2 \in Nat /\ at + 2 < Size /\ (at + 2) + 2 < Size
  <2> HIDE DEF at, end
  <2>1. QED BY <1>2, <1>3, <1>4
<1>6. ReadU8(offset) = Fields[field].tag /\ ReadU8(offset + 1) = n
  BY <1>1, <1>4, <1>5, TwoBytesDecoded
<1>7. (asduLength - 2 - n) % U8Mod = rest
  <2>1. asduLength - 2 - n = rest
    <3> HIDE DEF at, end
    <3>1. QED BY <1>1, <1>3, <1>4
  <2> HIDE DEF rest
  <2>2. rest \in 0..79
    BY <1>4 DEF rest
  <2>3. QED BY <2>1, <2>2, ModSmall8
<1>8. field = 2 => ReadU16(offset + 2) = s.smpCnt
  <2>1. CASE field = 2
    <3>1. Holds(input, at + 2, U16Octets(s.smpCnt))
      BY <1>2, <2>1 DEF AsduHolds
    <3> HIDE DEF at, s
    <3>2. ReadU16(at + 2) = s.smpCnt
      BY <1>3, <1>5, <3>1, U16Decoded
    <3>3. QED BY <1>1, <3>2
  <2>2. QED BY <2>1
<1>9. field = 5 => [u \in Units |-> ReadI32(UnitAt(offset + 2, u))] = s.data
  BY <1>1, <1>2, UnitsDecoded
<1> HIDE DEF i, s, end, at, p, size, rest, next
<1>10. /\ Consume(2 + n, 2 + n) /\ asduLength' = rest /\ UNCHANGED frame
       /\ smpCnt' = IF field = 2 THEN ReadU16(offset + 2) ELSE smpCnt
       /\ IF field < 5 THEN field' = field + 1 /\ UNCHANGED <<pc, seqCount, sequence, outcome>>
          ELSE /\ StoreAsdu(offset + 2)
               /\ rest = 0 => pc' = "asdu" /\ seqCount' = seqCount - 1
  BY <1>1, <1>4, <1>6, <1>7, FieldsType, AsduFieldReads DEF FieldRead, Inv
<1>11. offset' = at + 2 + n /\ UNCHANGED <<input, base, length>>
  <2>1. offset' = offset + (2 + n) /\ UNCHANGED <<input, base, length>>
    BY <1>10 DEF Consume, frame
  <2>2. offset = at /\ at \in Nat /\ n \in 1..64
    BY <1>1, <1>4
  <2>3. offset' = at + 2 + n
    BY <2>1, <2>2
  <2>4. QED BY <2>1, <2>3
<1>12. field >= 2 => smpCnt' = s.smpCnt
  BY <1>1, <1>8, <1>10
<1>13. InPDU => base' = PduAt(input', f) /\ length' = FrameEnd(input', f) - PduAt(input', f)
  BY <1>1, <1>11 DEF p, size
<1>14. CASE field < 5
  <2>1. field' = field + 1 /\ UNCHANGED <<pc, seqCount, sequence>>
    BY <1>10, <1>14
  <2>2. Current(f)' = i
    BY <1>11, <2>1 DEF Current, i
  <2>3. (Stored(Current(f) - 1))'
    BY <1>1, <1>11, <2>1, <2>2 DEF Stored, PieceShort, Undamaged
  <2>4. offset' = FieldPlace(input'.asdus[Current(f)'], field')
    BY <1>4, <1>11, <1>14, <2>1, <2>2 DEF s, next
  <2>5. asduLength' = AsduEnd(input'.asdus[Current(f)']) - offset'
    BY <1>10, <1>11, <2>2 DEF s, end, rest
  <2>6. field' > 2 => smpCnt' = input'.asdus[Current(f)'].smpCnt
    <3>1. field' > 2 => field >= 2
      BY <1>1, <2>1
    <3>2. QED BY <1>11, <1>12, <2>2, <3>1 DEF s
  <2>7. pc' = "field" /\ seqCount' \in 1..input'.frames[f].count
    BY <1>1, <1>11, <2>1
  <2>8. QED BY <1>1, <1>13, <2>3, <2>4, <2>5, <2>6, <2>7 DEF InFrame
<1>15. CASE field = 5
  <2>1. at + 2 + n = end
    BY <1>4, <1>15
  <2>2. rest = 0
    <3>1. rest = end - (at + 2 + n) /\ end \in Nat
      BY <1>3 DEF rest
    <3>2. QED BY <2>1, <3>1
  <2>3. pc' = "asdu" /\ seqCount' = seqCount - 1 /\ StoreAsdu(offset + 2)
    BY <1>10, <1>15, <2>2
  <2>4. sequence' = Append(sequence, Sample(s))
    <3>1. smpCnt = s.smpCnt /\ [u \in Units |-> ReadI32(UnitAt(offset + 2, u))] = s.data
      BY <1>1, <1>9, <1>15
    <3>2. QED BY <2>3, <3>1 DEF StoreAsdu, Sample
  <2>5. Sample(s) \in SampleType
    <3>1. s.smpCnt \in Nat /\ s.data \in [Units -> I32]
      BY <1>1, <1>2, <1>3, AsduFacts, U16Range DEF s
    <3>2. s.data \in [Units -> Int]
      BY <3>1 DEF I32
    <3>3. QED BY <3>1, <3>2 DEF Sample, SampleType
  <2>8. i \in Nat /\ seqCount \in Nat /\ i = NextFirst(input, f) - seqCount /\ NextFirst(input, f) \in Nat
    <3>1. i \in Nat
      BY <1>2
    <3>2. seqCount \in Nat
      BY DEF Inv, TypeOK
    <3>3. input.frames[f].first \in Nat /\ input.frames[f].count \in Nat
      <4>1. input.frames[f].first \in Nat /\ input.frames[f].count \in 1..16
        BY <1>1, WholeFacts
      <4>2. QED BY <4>1
    <3>4. NextFirst(input, f) \in Nat
      BY <3>3 DEF NextFirst
    <3>5. QED BY <3>1, <3>2, <3>4 DEF i, Current
  <2>9. PICK k \in Nat : k = i - 1
    <3>1. i - 1 \in Nat
      BY <1>2
    <3>2. QED BY <3>1
  <2>10. Current(f)' = i + 1
    <3>1. Current(f)' = NextFirst(input, f) - (seqCount - 1)
      BY <1>11, <2>3 DEF Current
    <3>2. QED BY <2>8, <3>1
  <2>11. (Stored(Current(f) - 1))'
    <3>1. Current(f)' - 1 = k + 1 /\ k + 1 = i
      BY <2>8, <2>9, <2>10
    <3>2. Stored(k)
      BY <1>1, <2>9
    <3>3. s = input.asdus[k + 1]
      BY <3>1 DEF s
    <3>4. Stored(k + 1)'
      BY <1>11, <2>4, <2>5, <3>2, <3>3, StoresNext
    <3>5. QED BY <3>1, <3>4 DEF Stored, PieceShort
  <2>12. offset' = IF seqCount' = 0 THEN FrameEnd(input', f) ELSE input'.asdus[Current(f)'].at
    <3>1. seqCount = 1 => end = FrameEnd(input, f)
      BY <1>1, CurrentFacts DEF i, s, end
    <3>2. seqCount # 1 => input.asdus[i + 1].at = end
      BY <1>1, CurrentFacts DEF i, s, end
    <3>3. offset' = end /\ input' = input
      BY <1>11, <2>1
    <3>4. seqCount' = 0 <=> seqCount = 1
      BY <2>3, <2>8
    <3>5. QED BY <2>10, <3>1, <3>2, <3>3, <3>4
  <2>13. seqCount' \in 0..input'.frames[f].count
    <3>1. input.frames[f].count \in 1..16
      BY <1>1, WholeFacts
    <3> DEFINE count == input.frames[f].count
    <3>2. seqCount \in 1..count /\ count \in 1..16
      BY <1>1, <3>1
    <3> HIDE DEF count
    <3>4. seqCount - 1 \in 0..count
      BY <3>2
    <3>3. QED BY <1>11, <2>3, <3>4 DEF count
  <2>14. QED BY <1>1, <1>13, <2>3, <2>11, <2>12, <2>13 DEF InFrame
<1>16. QED BY <1>1, <1>14, <1>15

-----------------------------------------------------------------------------
(* What the parser reads wherever it stands, in the terms in which a       *)
(* buffer is unmistakable.                                                 *)
LEMMA ByteRead == ASSUME NEW at \in Nat PROVE ReadU8(at) = ByteAt(input, at)
<1>1. at + 1 - 1 = at
  OBVIOUS
<1>2. Read(at, 1)[1] = IF InBuffer(at, 1) THEN input.data[at + 1 - 1] ELSE 0
  BY DEF Read
<1>3. QED BY <1>1, <1>2 DEF ReadU8, ByteAt

LEMMA WordRead ==
  ASSUME input \in Inputs, NEW at \in Nat PROVE ReadU16(at) = WordAt(input, at)
<1>1. CASE InBuffer(at, 2)
  <2>1. at + 2 < Size /\ at + 1 < Size /\ at < Size /\ at + 1 \in Nat
    BY <1>1, SizeType DEF InBuffer
  <2>2. input.data[at] \in 0..255 /\ input.data[at + 1] \in 0..255
    BY <2>1, DataType
  <2>3. ReadU16(at) = input.data[at + 1] + 256 * input.data[at]
    BY <2>1, ReadU16Data
  <2> DEFINE high == input.data[at]
             low == input.data[at + 1]
  <2>4. high \in Int /\ low \in Int /\ ReadU16(at) = low + 256 * high
    BY <2>2, <2>3
  <2>5. WordAt(input, at) = high * 256 + low
    BY <1>1 DEF WordAt
  <2> HIDE DEF high, low
  <2>6. QED BY <2>4, <2>5
<1>2. CASE ~InBuffer(at, 2)
  <2> DEFINE word == Read(at, 2)
  <2>1. word[1] = 0 /\ word[2] = 0 /\ Len(word) = 2 /\ DOMAIN word = 1..2
    BY <1>2 DEF Read
  <2> HIDE DEF word
  <2>2. ByteSwap(word)[1] = 0 /\ ByteSwap(word)[2] = 0
    BY <2>1 DEF ByteSwap
  <2>3. ReadU16(at) = 0
    BY <2>2 DEF ReadU16, word
  <2>4. QED BY <1>2, <2>3 DEF WordAt
<1>3. QED BY <1>1, <1>2

LEMMA ByteAtType == ASSUME input \in Inputs, NEW at \in Nat PROVE ByteAt(input, at) \in 0..255
  BY ByteRead, ReadU8Type

LEMMA AsnRead ==
  ASSUME input \in Inputs, NEW at \in Nat
  PROVE  /\ AsnBytes(at) = AsnSize(input, at) /\ AsnLength(at) = AsnValue(input, at)
         /\ AsnSize(input, at) \in 1..5
<1> DEFINE byte == ByteAt(input, at)
           n == byte - 128
<1>1. byte \in 0..255 /\ ReadU8(at) = byte
  BY ByteAtType, ByteRead
<1>2. AsnBytes(at) = (IF n \in 1..4 THEN 1 + n ELSE 1) /\ AsnBytes(at) = AsnSize(input, at)
  BY <1>1 DEF AsnBytes, AsnSize
<1> HIDE DEF byte
<1>3. AsnSize(input, at) \in 1..5
  BY <1>1, <1>2
<1>4. /\ n < 0 => AsnLength(at) = byte /\ AsnValue(input, at) = byte
      /\ n = 1 => AsnLength(at) = ReadU8(at + 1) /\ AsnValue(input, at) = ByteAt(input, at + 1)
      /\ n \in 2..4 => /\ AsnLength(at) = ReadU8(at + n - 1) * 256 + ReadU8(at + n)
                       /\ AsnValue(input, at) = ByteAt(input, at + n - 1) * 256 + ByteAt(input, at + n)
      /\ ~(n < 0) /\ n # 1 /\ n \notin 2..4 => AsnLength(at) = 0 /\ AsnValue(input, at) = 0
  BY <1>1 DEF AsnLength, AsnValue, byte
<1>5. AsnLength(at) = AsnValue(input, at)
  <2>1. CASE n < 0
    BY <1>4, <2>1
  <2>2. CASE n = 1
    <3>1. at + 1 \in Nat
      OBVIOUS
    <3>2. QED BY <1>4, <2>2, <3>1, ByteRead
  <2>3. CASE n \in 2..4
    <3>1. at + n - 1 \in Nat /\ at + n \in Nat
      BY <1>1, <2>3
    <3> HIDE DEF n
    <3>2. QED BY <1>4, <2>3, <3>1, ByteRead
  <2>4. CASE ~(n < 0) /\ n # 1 /\ n \notin 2..4
    BY <1>4, <2>4
  <2>5. QED BY <2>1, <2>2, <2>3, <2>4
<1>6. QED BY <1>2, <1>3, <1>5

(* A byte that is not zero lies in the buffer.                             *)
LEMMA NonzeroInside ==
  ASSUME NEW at \in Nat, ByteAt(input, at) # 0 PROVE at \in 0..Size
<1>1. Size > at + 1
  BY DEF ByteAt, InBuffer
<1>2. QED BY <1>1, SizeType

LEMMA HeaderPlaces ==
  ASSUME input \in Inputs, NEW at \in Nat
  PROVE  /\ SavPduOf(at) = at + 8 /\ SavPduOf(at) \in Nat
         /\ NoAsduOf(input, at) = at + 8 + (1 + AsnSize(input, at + 8 + 1)) /\ NoAsduOf(input, at) \in Nat
         /\ SeqAsduOf(input, at) = NoAsduOf(input, at) + 3 /\ SeqAsduOf(input, at) \in Nat
         /\ FirstOf(input, at) = SeqAsduOf(input, at) + (1 + AsnSize(input, SeqAsduOf(input, at) + 1))
         /\ FirstOf(input, at) \in Nat
<1>1. SavPduOf(at) = at + 8 /\ SavPduOf(at) \in Nat /\ at + 8 + 1 \in Nat
  BY DEF SavPduOf, PDUHeader
<1>2. AsnSize(input, at + 8 + 1) \in 1..5
  BY <1>1, AsnRead
<1>3. NoAsduOf(input, at) = at + 8 + (1 + AsnSize(input, at + 8 + 1)) /\ NoAsduOf(input, at) \in Nat
  <2>1. NoAsduOf(input, at) = at + 8 + 1 + AsnSize(input, at + 8 + 1)
    BY <1>1 DEF NoAsduOf
  <2>2. QED BY <1>2, <2>1
<1>4. SeqAsduOf(input, at) = NoAsduOf(input, at) + 3 /\ SeqAsduOf(input, at) \in Nat
  BY <1>3 DEF SeqAsduOf
<1>5. AsnSize(input, SeqAsduOf(input, at) + 1) \in 1..5
  <2>1. SeqAsduOf(input, at) + 1 \in Nat
    BY <1>4
  <2>2. QED BY <2>1, AsnRead
<1>6. /\ FirstOf(input, at) = SeqAsduOf(input, at) + (1 + AsnSize(input, SeqAsduOf(input, at) + 1))
      /\ FirstOf(input, at) \in Nat
  <2>1. FirstOf(input, at) = SeqAsduOf(input, at) + 1 + AsnSize(input, SeqAsduOf(input, at) + 1)
    BY DEF FirstOf
  <2>2. QED BY <1>4, <1>5, <2>1
<1>7. QED BY <1>1, <1>3, <1>4, <1>6

LEMMA FieldAtNext ==
  ASSUME input \in Inputs, NEW at \in Nat, NEW k \in 1..5
  PROVE  /\ FieldAt(input, at, k) \in Nat /\ ByteAt(input, at + 3) \in 0..255
         /\ FieldAt(input, at, 1) = at + 2
         /\ FieldLike(input, at, k) =>
              FieldAt(input, at, k) + 2 + ByteAt(input, FieldAt(input, at, k) + 1)
                = IF k < 5 THEN FieldAt(input, at, k + 1) ELSE at + ByteAt(input, at + 3) + 83
<1> DEFINE v == ByteAt(input, at + 3)
           len == ByteAt(input, FieldAt(input, at, k) + 1)
<1>1. v \in 0..255
  BY ByteAtType
<1>2. /\ FieldAt(input, at, 1) = at + 2 /\ FieldAt(input, at, 2) = at + (4 + v)
      /\ FieldAt(input, at, 3) = at + (8 + v) /\ FieldAt(input, at, 4) = at + (14 + v)
      /\ FieldAt(input, at, 5) = at + (17 + v)
  BY DEF FieldAt, FieldPlace
<1>3. /\ Fields[2].lengths = {2} /\ Fields[3].lengths = {4}
      /\ Fields[4].lengths = {1} /\ Fields[5].lengths = {64}
  BY DEF Fields
<1>4. FieldLike(input, at, k) => len \in Fields[k].lengths
  BY DEF FieldLike
<1>5. k = 1 => len = v
  <2>1. at + 2 + 1 = at + 3
    OBVIOUS
  <2>2. QED BY <1>2, <2>1
<1> HIDE DEF v, len
<1>6. CASE k = 1
  BY <1>1, <1>2, <1>5, <1>6 DEF v, len
<1>7. CASE k = 2
  BY <1>1, <1>2, <1>3, <1>4, <1>7 DEF v, len
<1>8. CASE k = 3
  BY <1>1, <1>2, <1>3, <1>4, <1>8 DEF v, len
<1>9. CASE k = 4
  BY <1>1, <1>2, <1>3, <1>4, <1>9 DEF v, len
<1>10. CASE k = 5
  BY <1>1, <1>2, <1>3, <1>4, <1>10 DEF v, len
<1>11. QED BY <1>6, <1>7, <1>8, <1>9, <1>10

-----------------------------------------------------------------------------
(* Frames and ASDU are told from each other by their places.               *)
LEMMA SameFrame ==
  ASSUME input \in Inputs, NEW f \in 1..Len(input.frames), NEW g \in 1..Len(input.frames),
         FrameAt(input, f) = FrameAt(input, g)
  PROVE  f = g
<1>1. f < g => FrameAt(input, f) < FrameAt(input, g)
  BY BatchAssumption DEF Good, InOrder
<1>2. g < f => FrameAt(input, g) < FrameAt(input, f)
  BY BatchAssumption DEF Good, InOrder
<1>3. FrameAt(input, f) \in Nat /\ FrameAt(input, g) \in Nat
  BY FrameFacts
<1>4. f \in Nat /\ g \in Nat
  OBVIOUS
<1>5. QED BY <1>1, <1>2, <1>3, <1>4

LEMMA AsduOrder ==
  ASSUME input \in Inputs, NEW a \in 1..Len(input.asdus), NEW c \in 1..Len(input.asdus), a < c
  PROVE  /\ AsduEnd(input.asdus[a]) <= input.asdus[c].at /\ AsduEnd(input.asdus[a]) \in Nat
         /\ input.asdus[a].at < AsduEnd(input.asdus[a])
         /\ input.asdus[a].at \in Nat /\ input.asdus[c].at \in Nat
<1>1. AsduEnd(input.asdus[a]) <= input.asdus[c].at
  BY BatchAssumption DEF Good, InOrder
<1> DEFINE s == input.asdus[a]
           at == s.at
           v == s.svId
           end == AsduEnd(s)
<1>2. at \in Nat /\ v \in 10..34 /\ end \in Nat /\ end = at + v + 83 /\ input.asdus[c].at \in Nat
  BY AsduFacts
<1>3. at < end
  <2> HIDE DEF at, v, end
  <2>1. QED BY <1>2
<1>4. QED BY <1>1, <1>2, <1>3

LEMMA SameAsdu ==
  ASSUME input \in Inputs, NEW a \in 1..Len(input.asdus), NEW c \in 1..Len(input.asdus),
         input.asdus[a].at = input.asdus[c].at
  PROVE  a = c
<1>1. ASSUME NEW x \in 1..Len(input.asdus), NEW y \in 1..Len(input.asdus), x < y
      PROVE  input.asdus[x].at # input.asdus[y].at
  <2>1. /\ AsduEnd(input.asdus[x]) <= input.asdus[y].at /\ AsduEnd(input.asdus[x]) \in Nat
        /\ input.asdus[x].at < AsduEnd(input.asdus[x])
        /\ input.asdus[x].at \in Nat /\ input.asdus[y].at \in Nat
    BY <1>1, AsduOrder
  <2> DEFINE p == input.asdus[x].at
             q == input.asdus[y].at
             end == AsduEnd(input.asdus[x])
  <2>2. end <= q /\ end \in Nat /\ p < end /\ p \in Nat /\ q \in Nat
    BY <2>1
  <2> HIDE DEF p, q, end
  <2>3. p # q
    BY <2>2
  <2>4. QED BY <2>3 DEF p, q
<1>2. a \in Nat /\ c \in Nat
  OBVIOUS
<1>3. QED BY <1>1, <1>2

LEMMA NextAsdu ==
  ASSUME input \in Inputs, NEW n \in 1..Len(input.asdus), NEW a \in 1..Len(input.asdus),
         input.asdus[a].at = AsduEnd(input.asdus[n])
  PROVE  a = n + 1
<1>1. a \in Nat /\ n \in Nat /\ Len(input.asdus) \in Nat
  BY BatchAssumption DEF Good
<1>2. input.asdus[n].at < AsduEnd(input.asdus[n]) /\ AsduEnd(input.asdus[n]) \in Nat /\ input.asdus[n].at \in Nat
  <2> DEFINE at == input.asdus[n].at
             v == input.asdus[n].svId
             end == AsduEnd(input.asdus[n])
  <2>1. at \in Nat /\ v \in 10..34 /\ end \in Nat /\ end = at + v + 83
    BY AsduFacts
  <2>2. at < end
    <3> HIDE DEF at, v, end
    <3>1. QED BY <2>1
  <2>3. QED BY <2>1, <2>2
<1>3. a # n
  BY <1>2
<1>4. ~(a < n)
  <2>1. CASE a < n
    <3>1. /\ AsduEnd(input.asdus[a]) <= input.asdus[n].at /\ AsduEnd(input.asdus[a]) \in Nat
          /\ input.asdus[a].at < AsduEnd(input.asdus[a]) /\ input.asdus[a].at \in Nat
      BY <2>1, AsduOrder
    <3>2. QED BY <1>2, <3>1
  <2>2. QED BY <2>1
<1>5. ~(n + 1 < a)
  <2>1. CASE n + 1 < a
    <3>1. n + 1 \in 1..Len(input.asdus)
      BY <1>1, <2>1
    <3>2. AsduEnd(input.asdus[n]) <= input.asdus[n + 1].at /\ input.asdus[n + 1].at \in Nat
      BY <1>1, <3>1, AsduOrder
    <3>3. /\ AsduEnd(input.asdus[n + 1]) <= input.asdus[a].at /\ AsduEnd(input.asdus[n + 1]) \in Nat
          /\ input.asdus[n + 1].at < AsduEnd(input.asdus[n + 1]) /\ input.asdus[a].at \in Nat
      BY <2>1, <3>1, AsduOrder
    <3>4. QED BY <1>2, <3>2, <3>3
  <2>2. QED BY <2>1
<1>6. QED BY <1>1, <1>3, <1>4, <1>5

(* The damaged frame, if there is one.                                     *)
LEMMA DamagedFacts ==
  ASSUME input \in Inputs, input.damaged # 0, NEW d, d = input.damaged
  PROVE  /\ d \in 1..Len(input.frames) /\ FrameAt(input, d) \in Nat
         /\ Undamaged(input) = input.frames[d].first - 1 /\ Undamaged(input) \in 0..Len(input.asdus)
         /\ Len(input.asdus) \in Nat
<1>1. input.damaged \in 0..Len(input.frames) /\ input.frames \in Seq(FrameType)
  BY BatchAssumption DEF Good
<1>2. d \in 1..Len(input.frames)
  BY <1>1
<1>3. Undamaged(input) = input.frames[d].first - 1
  BY DEF Undamaged
<1>4. QED BY <1>2, <1>3, FrameFacts

-----------------------------------------------------------------------------
(* Behind the damage.  Where parse takes what comes for a frame, it either *)
(* has found one that is whole, and all that is missing lies between, or   *)
(* none starts there.                                                      *)
LEMMA Resumes ==
  ASSUME input \in Inputs, input' = input, offset' \in Nat, NEW n \in 0..Len(input.asdus), LostAfter(n)',
         pc' = "frame", offset' > FrameAt(input, input.damaged)
  PROVE  Place'
<1>1. /\ input.damaged # 0 /\ n >= Undamaged(input) /\ Len(sequence') = n
      /\ \A a \in 1..n : sequence'[a] = Sample(input.asdus[a])
      /\ n > 0 => input.asdus[n].at <= offset'
  BY DEF LostAfter
<1>2. ~InPDU'
  BY DEF InPDU
<1>3. CASE \E f \in 1..Len(input.frames) : FrameAt(input, f) = offset'
  <2>1. PICK f \in 1..Len(input.frames) : FrameAt(input, f) = offset'
    BY <1>3
  <2>2. f # input.damaged
    <3>1. FrameAt(input, f) \in Nat
      BY FrameFacts
    <3>2. QED BY <2>1, <3>1
  <2>3. f \in Whole(input)
    BY <2>2 DEF Whole
  <2>4. PICK m : m = input.frames[f].first - 1
    OBVIOUS
  <2>5. m \in Nat /\ input.frames[f].first = m + 1
    <3> DEFINE first == input.frames[f].first
    <3>1. first \in Nat \ {0} /\ m = first - 1
      BY <2>4, FrameFacts
    <3> HIDE DEF first
    <3>2. m \in Nat /\ first = m + 1
      BY <3>1
    <3>3. QED BY <3>2 DEF first
  <2>6. n \in Nat /\ n <= m
    <3>1. Len(input.asdus) \in Nat
      BY FrameFacts
    <3>2. CASE n = 0
      BY <2>5, <3>2
    <3>3. CASE n # 0
      <4>1. n \in 1..Len(input.asdus)
        BY <3>1, <3>3
      <4>2. n >= input.frames[f].first <=> input.asdus[n].at > FrameAt(input, f)
        BY <4>1, BatchAssumption DEF Good, InOrder
      <4>3. input.asdus[n].at <= FrameAt(input, f) /\ input.asdus[n].at \in Nat /\ FrameAt(input, f) \in Nat
        BY <1>1, <2>1, <4>1, AsduFacts, FrameFacts
      <4>4. ~(n >= m + 1)
        BY <2>5, <4>2, <4>3
      <4>5. QED BY <2>5, <4>1, <4>4
    <3>4. QED BY <3>2, <3>3
  <2>7. n \in 0..m /\ m - n \in 0..m /\ n + (m - n) <= m /\ n = m - (m - n)
    BY <2>5, <2>6
  <2>8. PieceShort(m, n, m - n)'
    <3>1. \A i \in 1..n : i <= n
      BY <2>6
    <3>2. QED BY <1>1, <2>7, <3>1 DEF PieceShort
  <2>9. Stored(m)'
    BY <1>1, <2>7, <2>8 DEF Stored
  <2>10. Stored(input.frames[f].first - 1)'
    BY <2>4, <2>9 DEF Stored, PieceShort
  <2>11. InFrame(f)'
    BY <1>2, <2>1, <2>10 DEF InFrame
  <2>12. QED BY <2>3, <2>11 DEF Place
<1>4. CASE ~\E f \in 1..Len(input.frames) : FrameAt(input, f) = offset'
  <2>1. NoFrameAt(offset, n)'
    BY <1>4 DEF NoFrameAt
  <2>2. Astray'
    BY <1>2, <2>1 DEF Astray
  <2>3. QED BY <2>2 DEF Place
<1>5. QED BY <1>3, <1>4

LEMMA LostStays ==
  ASSUME Inv, NEW n \in 0..Len(input.asdus), LostAfter(n), UNCHANGED <<input, sequence>>,
         offset' \in Nat, offset' >= offset, InPDU' => InPDU \/ offset' > offset
  PROVE  LostAfter(n)' /\ (InPDU' \/ InPDU \/ offset' > offset => offset' > FrameAt(input, input.damaged))
<1>1. input \in Inputs /\ offset \in Nat
  BY DEF Inv, TypeOK
<1>2. /\ input.damaged # 0 /\ Unmistakable(input) /\ n >= Undamaged(input)
      /\ Len(sequence) = n /\ \A a \in 1..n : sequence[a] = Sample(input.asdus[a])
      /\ n > 0 => input.asdus[n].at <= offset
      /\ offset >= FrameAt(input, input.damaged)
      /\ InPDU => offset > FrameAt(input, input.damaged)
  BY DEF LostAfter
<1>3. FrameAt(input, input.damaged) \in Nat /\ Len(input.asdus) \in Nat
  BY <1>1, <1>2, DamagedFacts
<1>4. n > 0 => input.asdus[n].at <= offset'
  <2>1. CASE n > 0
    <3>1. n \in 1..Len(input.asdus)
      BY <1>3, <2>1
    <3>2. input.asdus[n].at \in Nat
      BY <1>1, <3>1, AsduFacts
    <3>3. QED BY <1>1, <1>2, <2>1, <3>2
  <2>2. QED BY <2>1
<1>5. /\ offset' >= FrameAt(input, input.damaged)
      /\ InPDU' \/ InPDU \/ offset' > offset => offset' > FrameAt(input, input.damaged)
  BY <1>1, <1>2, <1>3
<1>6. QED BY <1>2, <1>4, <1>5 DEF LostAfter

LEMMA RejectAstray ==
  ASSUME Inv, InPDU, NEW n \in 0..Len(input.asdus), LostAfter(n), NEW m \in Nat, Reject(m)
  PROVE  Place'
<1>1. input \in Inputs /\ offset \in Nat
  BY DEF Inv, TypeOK
<1>2. UNCHANGED <<input, sequence>> /\ offset' = offset + m /\ pc' = "frame"
  BY DEF Reject, Consume, frame
<1>3. offset' \in Nat /\ offset' >= offset
  BY <1>1, <1>2
<1>4. LostAfter(n)' /\ offset' > FrameAt(input, input.damaged)
  BY <1>2, <1>3, LostStays
<1>5. QED BY <1>1, <1>2, <1>3, <1>4, Resumes

(* The header of what it takes for a frame, up to the first ASDU.          *)
LEMMA FrameHeaderAstray ==
  ASSUME Inv, NEW n \in 0..Len(input.asdus), LostAfter(n), NoFrameAt(offset, n), FrameHeader
  PROVE  Place'
<1>1. /\ input \in Inputs /\ offset \in Nat /\ pc = "frame" /\ UNCHANGED <<input, sequence>>
      /\ base' = offset + 14 /\ offset' = offset + 22 /\ length' = ReadU16(base' + 2)
  BY DEF FrameHeader, Skipped, EtherHeader, PDUHeader, Inv, TypeOK
<1>2. offset' \in Nat /\ offset' > offset /\ base' \in Nat /\ base' + 2 \in Nat
  BY <1>1
<1>3. LostAfter(n)' /\ offset' > FrameAt(input, input.damaged)
  BY <1>1, <1>2, LostStays
<1>4. CASE length' = 0
  <2>1. pc' = "frame"
    BY <1>4 DEF FrameHeader
  <2>2. QED BY <1>1, <1>2, <1>3, <2>1, Resumes
<1>5. CASE length' # 0
  <2>1. pc' = "savPdu"
    BY <1>5 DEF FrameHeader
  <2>2. offset' = SavPduOf(base') /\ base' - EtherHeader = offset
    BY <1>1 DEF SavPduOf, PDUHeader, EtherHeader
  <2>3. length' = WordAt(input', base' + 2)
    BY <1>1, <1>2, WordRead
  <2>4. InHeader'
    BY <2>1, <2>2, <2>3 DEF InHeader
  <2>5. NoFrameAt(base - EtherHeader, n)'
    BY <1>1, <2>2 DEF NoFrameAt
  <2>6. Astray'
    BY <1>1, <1>3, <2>1, <2>4, <2>5 DEF Astray
  <2>7. QED BY <2>6 DEF Place
<1>6. QED BY <1>4, <1>5

(* One more piece of the header is read.                                   *)
LEMMA HeaderAstray ==
  ASSUME Inv, InPDU, NEW n \in 0..Len(input.asdus), LostAfter(n), NoFrameAt(base - EtherHeader, n),
         NEW m \in Nat, NEW to, Accepts(m, to), sequence' = sequence, to # "frame", InHeader'
  PROVE  Place'
<1>1. /\ UNCHANGED <<input, sequence, base>> /\ offset' = offset + m /\ pc' = to /\ offset \in Nat
  BY DEF Accepts, Consume, Inv, TypeOK
<1>2. offset' \in Nat /\ offset' >= offset
  BY <1>1
<1>3. LostAfter(n)'
  BY <1>1, <1>2, LostStays
<1>4. NoFrameAt(base - EtherHeader, n)'
  BY <1>1 DEF NoFrameAt
<1>5. Astray'
  BY <1>1, <1>3, <1>4 DEF Astray
<1>6. QED BY <1>5 DEF Place

LEMMA SavPduAstray ==
  ASSUME Inv, NEW n \in 0..Len(input.asdus), LostAfter(n), NoFrameAt(base - EtherHeader, n), InHeader, SavPdu
  PROVE  Place'
<1> DEFINE m == 1 + AsnBytes(offset + 1)
<1>1. /\ input \in Inputs /\ base \in Nat /\ pc = "savPdu" /\ InPDU
      /\ offset = SavPduOf(base) /\ length = WordAt(input, base + 2)
      /\ internalFrameLength = (length - (offset - base)) % U16Mod /\ length \in Nat
  <2>1. pc = "savPdu"
    BY DEF SavPdu, Enclosing
  <2>2. offset = SavPduOf(base) /\ length = WordAt(input, base + 2)
    BY <2>1 DEF InHeader, InAsduAt
  <2>3. /\ input \in Inputs /\ base \in Nat /\ length \in Nat
        /\ internalFrameLength = (length - (offset - base)) % U16Mod
    BY <2>1, U16Range DEF Inv, TypeOK, LengthIsAccounted, InPDU
  <2>4. QED BY <2>1, <2>2, <2>3 DEF InPDU
<1>2. /\ offset = base + 8 /\ offset \in Nat /\ offset + 1 = base + 8 + 1 /\ offset + 1 \in Nat
      /\ NoAsduOf(input, base) = base + 8 + (1 + AsnSize(input, base + 8 + 1)) /\ NoAsduOf(input, base) \in Nat
  <2>1. SavPduOf(base) = base + 8
    BY <1>1, HeaderPlaces
  <2>2. NoAsduOf(input, base) = base + 8 + (1 + AsnSize(input, base + 8 + 1)) /\ NoAsduOf(input, base) \in Nat
    BY <1>1, HeaderPlaces
  <2>3. QED BY <1>1, <2>1, <2>2
<1>3. /\ ReadU8(offset) = ByteAt(input, offset) /\ AsnBytes(offset + 1) = AsnSize(input, offset + 1)
      /\ AsnLength(offset + 1) = AsnValue(input, offset + 1) /\ AsnBytes(offset + 1) \in 1..5
  BY <1>1, <1>2, ByteRead, AsnRead
<1>4. m \in Nat /\ NoAsduOf(input, base) = offset + m
  BY <1>2, <1>3
<1>5. (internalFrameLength - m) % U16Mod = (length - (NoAsduOf(input, base) - base)) % U16Mod
  <2> DEFINE a == length - (offset - base)
  <2>1. a \in Int /\ a - m = length - (NoAsduOf(input, base) - base)
    <3> DEFINE next == NoAsduOf(input, base)
    <3>1. offset \in Nat /\ base \in Nat /\ length \in Nat /\ next \in Nat /\ m \in Nat /\ next = offset + m
      BY <1>1, <1>2, <1>4
    <3> HIDE DEF m, next
    <3>2. a \in Int /\ a - m = length - (next - base)
      BY <3>1
    <3>3. QED BY <3>2 DEF next
  <2>2. internalFrameLength = a % U16Mod
    BY <1>1
  <2> HIDE DEF a, m
  <2>3. QED BY <1>4, <2>1, <2>2, ModSubtract
<1> HIDE DEF m
<1>6. CASE Reject(1) \/ Reject(m)
  BY <1>1, <1>4, <1>6, RejectAstray
<1>7. CASE /\ ReadU8(offset) = 96 /\ AsnLength(offset + 1) = (internalFrameLength - m) % U16Mod
           /\ Accepts(m, "noAsdu") /\ sequence' = sequence
  <2>1. SavPduLike(input, base)
    BY <1>1, <1>2, <1>3, <1>5, <1>7 DEF SavPduLike
  <2>2. UNCHANGED <<input, base, length>> /\ pc' = "noAsdu" /\ offset' = NoAsduOf(input, base)
    BY <1>4, <1>7 DEF Accepts, Consume
  <2>3. InHeader'
    BY <1>1, <2>1, <2>2 DEF InHeader
  <2>4. QED BY <1>1, <1>4, <1>7, <2>3, HeaderAstray
<1>8. QED BY <1>6, <1>7 DEF SavPdu, Enclosing, m

LEMMA NoAsduAstray ==
  ASSUME Inv, NEW n \in 0..Len(input.asdus), LostAfter(n), NoFrameAt(base - EtherHeader, n), InHeader, NoAsdu
  PROVE  Place'
<1>1. /\ input \in Inputs /\ base \in Nat /\ pc = "noAsdu" /\ InPDU
      /\ offset = NoAsduOf(input, base) /\ length = WordAt(input, base + 2) /\ SavPduLike(input, base)
  <2>1. pc = "noAsdu"
    BY DEF NoAsdu
  <2>2. offset = NoAsduOf(input, base) /\ length = WordAt(input, base + 2) /\ SavPduLike(input, base)
    BY <2>1 DEF InHeader, InAsduAt
  <2>3. QED BY <2>1, <2>2 DEF InPDU, Inv, TypeOK
<1>2. offset \in Nat /\ offset + 1 \in Nat /\ offset + 2 \in Nat /\ SeqAsduOf(input, base) = offset + 3
  <2>1. NoAsduOf(input, base) \in Nat /\ SeqAsduOf(input, base) = NoAsduOf(input, base) + 3
    BY <1>1, HeaderPlaces
  <2>2. QED BY <1>1, <2>1
<1>3. /\ ReadU8(offset) = ByteAt(input, offset) /\ ReadU8(offset + 1) = ByteAt(input, offset + 1)
      /\ ReadU8(offset + 2) = ByteAt(input, offset + 2)
  BY <1>2, ByteRead
<1>4. CASE Reject(1) \/ Reject(2) \/ Reject(3)
  BY <1>1, <1>4, RejectAstray
<1>5. CASE /\ ReadU8(offset) = 128 /\ ReadU8(offset + 1) = 1 /\ ReadU8(offset + 2) \in 1..16
           /\ Accepts(3, "seqAsdu") /\ sequence' = sequence
  <2>1. NoAsduLike(input, base)
    BY <1>1, <1>3, <1>5 DEF NoAsduLike
  <2>2. UNCHANGED <<input, base, length>> /\ pc' = "seqAsdu" /\ offset' = SeqAsduOf(input, base)
    BY <1>2, <1>5 DEF Accepts, Consume
  <2>3. InHeader'
    BY <1>1, <2>1, <2>2 DEF InHeader
  <2>4. QED BY <1>1, <1>5, <2>3, HeaderAstray
<1>6. QED BY <1>4, <1>5 DEF NoAsdu

LEMMA SeqAsduAstray ==
  ASSUME Inv, NEW n \in 0..Len(input.asdus), LostAfter(n), NoFrameAt(base - EtherHeader, n), InHeader, SeqAsdu
  PROVE  Place'
<1> DEFINE m == 1 + AsnBytes(offset + 1)
<1>1. /\ input \in Inputs /\ base \in Nat /\ pc = "seqAsdu" /\ InPDU
      /\ offset = SeqAsduOf(input, base) /\ length = WordAt(input, base + 2)
      /\ SavPduLike(input, base) /\ NoAsduLike(input, base)
  <2>1. pc = "seqAsdu"
    BY DEF SeqAsdu, Enclosing
  <2>2. /\ offset = SeqAsduOf(input, base) /\ length = WordAt(input, base + 2)
        /\ SavPduLike(input, base) /\ NoAsduLike(input, base)
    BY <2>1 DEF InHeader, InAsduAt
  <2>3. QED BY <2>1, <2>2 DEF InPDU, Inv, TypeOK
<1>2. /\ offset \in Nat /\ offset + 1 \in Nat
      /\ FirstOf(input, base) = offset + (1 + AsnSize(input, offset + 1))
  <2>1. /\ SeqAsduOf(input, base) \in Nat
        /\ FirstOf(input, base) = SeqAsduOf(input, base) + (1 + AsnSize(input, SeqAsduOf(input, base) + 1))
    BY <1>1, HeaderPlaces
  <2>2. QED BY <1>1, <2>1
<1>3. /\ ReadU8(offset) = ByteAt(input, offset) /\ AsnBytes(offset + 1) = AsnSize(input, offset + 1)
      /\ AsnBytes(offset + 1) \in 1..5
  BY <1>1, <1>2, ByteRead, AsnRead
<1>4. m \in Nat /\ FirstOf(input, base) = offset + m
  BY <1>2, <1>3
<1> HIDE DEF m
<1>5. CASE Reject(1) \/ Reject(m)
  BY <1>1, <1>4, <1>5, RejectAstray
<1>6. CASE ReadU8(offset) = 162 /\ Accepts(m, "asdu") /\ sequence' = sequence
  <2>1. UNCHANGED <<input, base, length>> /\ pc' = "asdu" /\ offset' = FirstOf(input, base)
    BY <1>4, <1>6 DEF Accepts, Consume
  <2>2. InAsduAt(FirstOf(input, base))'
    BY <2>1 DEF InAsduAt
  <2>3. ByteAt(input, SeqAsduOf(input, base)) = 162
    BY <1>1, <1>3, <1>6
  <2>4. InHeader'
    BY <1>1, <2>1, <2>2, <2>3 DEF InHeader
  <2>5. QED BY <1>1, <1>4, <1>6, <2>4, HeaderAstray
<1>7. QED BY <1>5, <1>6 DEF SeqAsdu, Enclosing, m

(* The ASDU, be it the first of a PDU or one behind another.               *)
LEMMA AsduHeaderAt ==
  ASSUME Inv, NEW at \in Nat, offset = at, AsduHeader
  PROVE  \/ Reject(1) \/ Reject(2)
         \/ /\ InAsduAt(at)' /\ pc' = "field" /\ offset' = offset + 2
            /\ UNCHANGED <<input, base, length, sequence>>
<1>1. input \in Inputs /\ ReadU8(at) = ByteAt(input, at)
  BY ByteRead DEF Inv, TypeOK
<1>2. CASE ReadU8(at) = 48 /\ Accepts(2, "field") /\ field' = 1 /\ sequence' = sequence
  <2>1. /\ pc' = "field" /\ offset' = at + 2 /\ UNCHANGED <<input, base, length, sequence>> /\ field' = 1
    BY <1>2 DEF Accepts, Consume
  <2>2. FieldAt(input, at, 1) = at + 2
    BY <1>1, FieldAtNext
  <2>3. ByteAt(input, at) = 48
    BY <1>1, <1>2
  <2>4. \A f \in 1..(field' - 1) : FALSE
    BY <2>1
  <2>5. InAsduAt(at)'
    BY <2>1, <2>2, <2>3, <2>4 DEF InAsduAt
  <2>6. QED BY <2>1, <2>5
<1>3. QED BY <1>2 DEF AsduHeader

LEMMA AsduFieldAt ==
  ASSUME Inv, NEW at \in Nat, InAsduAt(at), AsduField
  PROVE  \/ Reject(1) \/ Reject(2)
         \/ /\ InAsduAt(at)' /\ pc' = "field" /\ offset' \in Nat /\ offset' >= offset
            /\ UNCHANGED <<input, base, length, sequence>>
         \/ /\ AsduLike(input, at) /\ smpCnt = ReadU16(FieldAt(input, at, 2) + 2)
            /\ StoreAsdu(FieldAt(input, at, 5) + 2) /\ offset' = at + ByteAt(input, at + 3) + 83
            /\ pc' \in {"asdu", "frame"} /\ offset' \in Nat /\ offset' >= offset
            /\ UNCHANGED <<input, base, length>>
<1> DEFINE v == ByteAt(input, at + 3)
           n == ReadU8(offset + 1)
<1>1. /\ input \in Inputs /\ offset \in Nat /\ pc = "field" /\ field \in 1..5
      /\ offset = FieldAt(input, at, field) /\ ByteAt(input, at) = 48
      /\ \A f \in 1..(field - 1) : FieldLike(input, at, f)
      /\ field > 2 => smpCnt = ReadU16(FieldAt(input, at, 2) + 2)
  BY FieldsType DEF AsduField, InAsduAt, Inv, TypeOK
<1>2. offset + 1 \in Nat /\ ReadU8(offset) = ByteAt(input, offset) /\ n = ByteAt(input, offset + 1) /\ n \in 0..255
  <2>1. offset + 1 \in Nat
    BY <1>1
  <2>2. QED BY <1>1, <2>1, ByteRead, ByteAtType
<1> HIDE DEF n
<1>3. CASE /\ ReadU8(offset) = Fields[field].tag /\ n \in Fields[field].lengths
           /\ Consume(2 + n, 2 + n) /\ UNCHANGED frame
           /\ smpCnt' = IF field = 2 THEN ReadU16(offset + 2) ELSE smpCnt
           /\ IF field < 5
                THEN field' = field + 1 /\ UNCHANGED <<pc, sequence>>
                ELSE StoreAsdu(offset + 2) /\ pc' \in {"asdu", "frame"}
  <2>1. FieldLike(input, at, field)
    BY <1>1, <1>2, <1>3 DEF FieldLike
  <2>2. \A f \in 1..field : FieldLike(input, at, f)
    <3>1. \A f \in 1..field : f \in 1..(field - 1) \/ f = field
      BY <1>1
    <3>2. QED BY <1>1, <2>1, <3>1
  <2>3. /\ offset + 2 + n = IF field < 5 THEN FieldAt(input, at, field + 1) ELSE at + v + 83
        /\ v \in 0..255
    <3>1. /\ FieldAt(input, at, field) + 2 + ByteAt(input, FieldAt(input, at, field) + 1)
               = IF field < 5 THEN FieldAt(input, at, field + 1) ELSE at + v + 83
          /\ v \in 0..255
      BY <1>1, <2>1, FieldAtNext
    <3>2. FieldAt(input, at, field) = offset /\ ByteAt(input, FieldAt(input, at, field) + 1) = n
      BY <1>1, <1>2
    <3>3. QED BY <3>1, <3>2
  <2>4. offset' = offset + 2 + n /\ offset' \in Nat /\ offset' >= offset /\ UNCHANGED <<input, base, length>>
    <3>1. offset' = offset + (2 + n) /\ UNCHANGED <<input, base, length>>
      BY <1>3 DEF Consume, frame
    <3>2. QED BY <1>1, <1>2, <3>1
  <2>5. CASE field < 5
    <3>1. field' = field + 1 /\ pc' = "field" /\ sequence' = sequence /\ field' - 1 = field
      BY <1>1, <1>3, <2>5
    <3>2. offset' = FieldAt(input', at, field')
      BY <2>3, <2>4, <2>5, <3>1
    <3>3. field' > 2 => smpCnt' = ReadU16(FieldAt(input, at, 2) + 2)
      <4>1. CASE field = 1
        BY <3>1, <4>1
      <4>2. CASE field = 2
        BY <1>1, <1>3, <4>2
      <4>3. CASE field > 2
        BY <1>1, <1>3, <4>3
      <4>4. QED BY <1>1, <4>1, <4>2, <4>3
    <3>4. ReadU16(FieldAt(input, at, 2) + 2)' = ReadU16(FieldAt(input, at, 2) + 2)
      BY <2>4 DEF ReadU16, Read
    <3>5. \A f \in 1..(field' - 1) : FieldLike(input', at, f)
      BY <2>2, <2>4, <3>1
    <3>6. ByteAt(input', at) = 48
      BY <1>1, <2>4
    <3>7. InAsduAt(at)'
      BY <3>1, <3>2, <3>3, <3>4, <3>5, <3>6 DEF InAsduAt
    <3>8. QED BY <2>4, <3>1, <3>7
  <2>6. CASE field = 5
    <3>1. AsduLike(input, at)
      BY <1>1, <2>2, <2>6, FieldsType DEF AsduLike
    <3>2. smpCnt = ReadU16(FieldAt(input, at, 2) + 2)
      BY <1>1, <2>6
    <3>3. StoreAsdu(FieldAt(input, at, 5) + 2) /\ pc' \in {"asdu", "frame"}
      BY <1>1, <1>3, <2>6
    <3>4. offset' = at + v + 83
      BY <2>3, <2>4, <2>6
    <3>5. QED BY <2>4, <3>1, <3>2, <3>3, <3>4
  <2>7. QED BY <1>1, <2>5, <2>6
<1>4. Reject(1) \/ Reject(2) \/
      ( /\ ReadU8(offset) = Fields[field].tag /\ n \in Fields[field].lengths
        /\ Consume(2 + n, 2 + n) /\ UNCHANGED frame
        /\ smpCnt' = IF field = 2 THEN ReadU16(offset + 2) ELSE smpCnt
        /\ IF field < 5
             THEN field' = field + 1 /\ UNCHANGED <<pc, sequence>>
             ELSE StoreAsdu(offset + 2) /\ pc' \in {"asdu", "frame"})
  BY FieldsType, AsduFieldReads DEF FieldRead, Inv, n
<1>5. QED BY <1>3, <1>4

(* What looks like an ASDU holds what was sent: that is stored.            *)
LEMMA StoresSent ==
  ASSUME input \in Inputs, NEW at \in Nat, NEW a \in 1..Len(input.asdus), NEW s, s = input.asdus[a],
         s.at = at, s.svId = ByteAt(input, at + 3), AsduEnd(s) <= Size, AsduHolds(input, s),
         smpCnt = ReadU16(FieldAt(input, at, 2) + 2), StoreAsdu(FieldAt(input, at, 5) + 2)
  PROVE  /\ sequence' = Append(sequence, Sample(s)) /\ Sample(s) \in SampleType
         /\ at + ByteAt(input, at + 3) + 83 = AsduEnd(s)
<1>1. /\ s.at \in Nat /\ s.svId \in 10..34 /\ s.smpCnt \in 0..(U16Mod - 1) /\ s.data \in [Units -> I32]
      /\ AsduEnd(s) = s.at + s.svId + 83
  BY AsduFacts
<1>2. FieldAt(input, at, 2) = FieldPlace(s, 2) /\ FieldAt(input, at, 5) = FieldPlace(s, 5)
  BY DEF FieldAt, FieldPlace
<1>3. [u \in Units |-> ReadI32(UnitAt(FieldPlace(s, 5) + 2, u))] = s.data
  BY UnitsDecoded
<1>4. smpCnt = s.smpCnt
  <2> DEFINE p == FieldPlace(s, 2) + 2
  <2>1. p \in Nat /\ p + 2 < Size
    <3> DEFINE v == s.svId
               end == AsduEnd(s)
    <3>1. v \in 10..34 /\ end = at + v + 83 /\ end <= Size /\ p = at + (4 + v) + 2 /\ Size \in Nat
      BY <1>1, SizeType DEF FieldPlace
    <3> HIDE DEF v, end, p
    <3>2. QED BY <3>1
  <2>2. Holds(input, p, U16Octets(s.smpCnt))
    BY DEF AsduHolds
  <2> HIDE DEF p
  <2>3. ReadU16(p) = s.smpCnt
    BY <1>1, <2>1, <2>2, U16Decoded
  <2>4. QED BY <1>2, <2>3 DEF p
<1>5. sequence' = Append(sequence, Sample(s))
  BY <1>2, <1>3, <1>4 DEF StoreAsdu, Sample
<1>6. Sample(s) \in SampleType
  <2>1. s.smpCnt \in Nat
    BY <1>1, U16Range
  <2>2. s.data \in [Units -> Int]
    BY <1>1 DEF I32
  <2>3. QED BY <2>1, <2>2 DEF Sample, SampleType
<1>7. QED BY <1>1, <1>5, <1>6

LEMMA Appended ==
  ASSUME SequenceOK, NEW n \in Nat, Len(sequence) = n, NEW e \in SampleType,
         sequence' = Append(sequence, e)
  PROVE  /\ Len(sequence') = n + 1 /\ sequence'[n + 1] = e
         /\ \A k \in 1..n : sequence'[k] = sequence[k]
  BY AppendProperties DEF SequenceOK

(* One more sample is stored, the next that was sent.                      *)
LEMMA StoreAstray ==
  ASSUME Inv, InPDU, NEW n \in 0..Len(input.asdus), LostAfter(n), n + 1 \in 1..Len(input.asdus),
         Len(sequence') = n + 1, \A k \in 1..n : sequence'[k] = sequence[k],
         sequence'[n + 1] = Sample(input.asdus[n + 1]),
         offset' = AsduEnd(input.asdus[n + 1]), offset' >= offset, pc' \in {"asdu", "frame"}, input' = input
  PROVE  Place'
<1>1. input \in Inputs /\ offset \in Nat
  BY DEF Inv, TypeOK
<1>2. offset' \in Nat /\ input.asdus[n + 1].at <= offset'
  <2> DEFINE at == input.asdus[n + 1].at
             v == input.asdus[n + 1].svId
             end == AsduEnd(input.asdus[n + 1])
  <2>1. at \in Nat /\ v \in 10..34 /\ end = at + v + 83 /\ end \in Nat
    BY <1>1, AsduFacts
  <2>2. at <= end
    <3> HIDE DEF at, v, end
    <3>1. QED BY <2>1
  <2>3. QED BY <2>1, <2>2
<1>3. /\ input.damaged # 0 /\ Unmistakable(input) /\ n >= Undamaged(input)
      /\ Len(sequence) = n /\ \A c \in 1..n : sequence[c] = Sample(input.asdus[c])
      /\ offset > FrameAt(input, input.damaged)
  BY DEF LostAfter
<1>4. /\ FrameAt(input, input.damaged) \in Nat /\ Undamaged(input) \in Nat /\ Len(input.asdus) \in Nat
      /\ n \in Nat
  <2>1. /\ FrameAt(input, input.damaged) \in Nat /\ Undamaged(input) \in 0..Len(input.asdus)
        /\ Len(input.asdus) \in Nat
    BY <1>1, <1>3, DamagedFacts
  <2>2. QED BY <2>1
<1>5. offset' > FrameAt(input, input.damaged)
  BY <1>1, <1>2, <1>3, <1>4
<1>6. \A c \in 1..(n + 1) : sequence'[c] = Sample(input.asdus[c])
  <2>1. \A c \in 1..(n + 1) : c \in 1..n \/ c = n + 1
    BY <1>4
  <2>2. QED BY <1>3, <2>1
<1>7. n + 1 \in 0..Len(input.asdus) /\ n + 1 >= Undamaged(input) /\ n + 1 > 0
  BY <1>3, <1>4
<1>8. LostAfter(n + 1)'
  <2>1. offset' >= FrameAt(input, input.damaged)
    BY <1>2, <1>4, <1>5
  <2>2. QED BY <1>2, <1>3, <1>5, <1>6, <1>7, <2>1 DEF LostAfter
<1>9. CASE pc' = "frame"
  BY <1>1, <1>2, <1>5, <1>7, <1>8, <1>9, Resumes
<1>10. CASE pc' = "asdu"
  <2>1. InAsduAt(AsduEnd(input.asdus[n + 1]))'
    BY <1>2, <1>10 DEF InAsduAt
  <2>2. PICK m : m = n + 1
    OBVIOUS
  <2>3. m \in 0..Len(input'.asdus) /\ LostAfter(m)' /\ m > 0 /\ InAsduAt(AsduEnd(input.asdus[m]))'
    BY <1>7, <1>8, <2>1, <2>2
  <2>4. Astray'
    BY <1>10, <2>3 DEF Astray
  <2>5. QED BY <2>4 DEF Place
<1>11. QED BY <1>9, <1>10

(* Nothing looks like a PDU but one that was sent: it is the damaged       *)
(* frame's.                                                                *)
LEMMA HeaderSent ==
  ASSUME Inv, NEW n \in 0..Len(input.asdus), LostAfter(n), NoFrameAt(base - EtherHeader, n),
         PduLike(input, base)
  PROVE  n + 1 \in 1..Len(input.asdus) /\ input.asdus[n + 1].at = FirstOf(input, base)
<1>1. input \in Inputs /\ base \in Nat /\ Unmistakable(input)
  BY DEF Inv, TypeOK, LostAfter
<1>2. base \in 0..Size
  <2>1. ByteAt(input, SavPduOf(base)) = 96 /\ SavPduOf(base) = base + 8 /\ SavPduOf(base) \in Nat
    BY <1>1, HeaderPlaces DEF PduLike, SavPduLike
  <2>2. SavPduOf(base) \in 0..Size
    BY <2>1, NonzeroInside
  <2>3. QED BY <1>1, <2>1, <2>2, SizeType
<1>3. PICK f \in 1..Len(input.frames) :
        /\ base = PduAt(input, f) /\ input.frames[f].first <= Len(input.asdus)
        /\ input.asdus[input.frames[f].first].at = FirstOf(input, base)
  BY <1>1, <1>2 DEF Unmistakable
<1>4. FrameAt(input, f) = base - EtherHeader
  <2>1. FrameAt(input, f) \in Nat /\ base = FrameAt(input, f) + EtherHeader
    BY <1>1, <1>3, FrameFacts DEF PduAt
  <2>2. QED BY <2>1 DEF EtherHeader
<1>5. n = input.frames[f].first - 1
  BY <1>4 DEF NoFrameAt
<1>6. input.frames[f].first = n + 1 /\ n \in Nat /\ Len(input.asdus) \in Nat
  <2> DEFINE first == input.frames[f].first
  <2>1. first \in Nat \ {0} /\ n = first - 1 /\ Len(input.asdus) \in Nat
    BY <1>1, <1>5, FrameFacts
  <2> HIDE DEF first
  <2>2. first = n + 1 /\ n \in Nat
    BY <2>1
  <2>3. QED BY <2>1, <2>2 DEF first
<1>7. QED BY <1>3, <1>6

(* It goes on in the same ASDU.                                            *)
LEMMA WithinAstray ==
  ASSUME Inv, InPDU, NEW n \in 0..Len(input.asdus), LostAfter(n),
         NEW at \in Nat, InAsduAt(at),
         \/ InHeader /\ NoFrameAt(base - EtherHeader, n) /\ at = FirstOf(input, base)
         \/ n > 0 /\ at = AsduEnd(input.asdus[n]),
         InAsduAt(at)', pc' = "field", offset' \in Nat, offset' >= offset,
         UNCHANGED <<input, base, length, sequence>>
  PROVE  Place'
<1>1. LostAfter(n)'
  BY LostStays
<1>2. CASE InHeader /\ NoFrameAt(base - EtherHeader, n) /\ at = FirstOf(input, base)
  <2>1. InAsduAt(FirstOf(input, base))'
    BY <1>2 DEF InAsduAt
  <2>2. /\ length = WordAt(input, base + 2) /\ SavPduLike(input, base) /\ NoAsduLike(input, base)
        /\ ByteAt(input, SeqAsduOf(input, base)) = 162
    BY <1>2 DEF InHeader, InAsduAt
  <2>3. InHeader'
    BY <2>1, <2>2 DEF InHeader
  <2>4. NoFrameAt(base - EtherHeader, n)'
    BY <1>2 DEF NoFrameAt
  <2>5. Astray'
    BY <1>1, <2>3, <2>4 DEF Astray
  <2>6. QED BY <2>5 DEF Place
<1>3. CASE n > 0 /\ at = AsduEnd(input.asdus[n])
  <2>1. InAsduAt(AsduEnd(input.asdus[n]))'
    BY <1>3 DEF InAsduAt
  <2>2. Astray'
    BY <1>1, <1>3, <2>1 DEF Astray
  <2>3. QED BY <2>2 DEF Place
<1>4. QED BY <1>2, <1>3

LEMMA AsduHeaderAstray ==
  ASSUME Inv, InPDU, NEW n \in 0..Len(input.asdus), LostAfter(n),
         NEW at \in Nat, InAsduAt(at), AsduHeader,
         \/ InHeader /\ NoFrameAt(base - EtherHeader, n) /\ at = FirstOf(input, base)
         \/ n > 0 /\ at = AsduEnd(input.asdus[n])
  PROVE  Place'
<1>1. offset = at /\ pc = "asdu"
  BY DEF AsduHeader, InAsduAt
<1>2. CASE Reject(1) \/ Reject(2)
  BY <1>2, RejectAstray
<1>3. CASE /\ InAsduAt(at)' /\ pc' = "field" /\ offset' = offset + 2
           /\ UNCHANGED <<input, base, length, sequence>>
  <2>1. offset' \in Nat /\ offset' >= offset
    BY <1>1, <1>3
  <2>2. QED BY <1>3, <2>1, WithinAstray
<1>4. QED BY <1>1, <1>2, <1>3, AsduHeaderAt

LEMMA AsduFieldAstray ==
  ASSUME Inv, SequenceOK, InPDU, NEW n \in 0..Len(input.asdus), LostAfter(n),
         NEW at \in Nat, InAsduAt(at), AsduField,
         \/ InHeader /\ NoFrameAt(base - EtherHeader, n) /\ at = FirstOf(input, base)
         \/ n > 0 /\ at = AsduEnd(input.asdus[n])
  PROVE  Place'
<1>1. input \in Inputs /\ offset \in Nat /\ Unmistakable(input) /\ Len(input.asdus) \in Nat /\ pc = "field"
  BY DamagedFacts DEF Inv, TypeOK, LostAfter, AsduField
<1>2. CASE Reject(1) \/ Reject(2)
  BY <1>1, <1>2, RejectAstray
<1>3. CASE /\ InAsduAt(at)' /\ pc' = "field" /\ offset' \in Nat /\ offset' >= offset
           /\ UNCHANGED <<input, base, length, sequence>>
  BY <1>3, WithinAstray
<1>4. CASE /\ AsduLike(input, at) /\ smpCnt = ReadU16(FieldAt(input, at, 2) + 2)
           /\ StoreAsdu(FieldAt(input, at, 5) + 2) /\ offset' = at + ByteAt(input, at + 3) + 83
           /\ pc' \in {"asdu", "frame"} /\ offset' \in Nat /\ offset' >= offset
           /\ UNCHANGED <<input, base, length>>
  <2>1. at \in 0..Size
    <3>1. ByteAt(input, at) = 48
      BY <1>4 DEF AsduLike
    <3>2. QED BY <3>1, NonzeroInside
  <2>2. PICK a \in 1..Len(input.asdus) :
          /\ input.asdus[a].at = at /\ input.asdus[a].svId = ByteAt(input, at + 3)
          /\ AsduEnd(input.asdus[a]) <= Size /\ AsduHolds(input, input.asdus[a])
    BY <1>1, <1>4, <2>1 DEF Unmistakable
  <2>3. a = n + 1
    <3>1. CASE InHeader /\ NoFrameAt(base - EtherHeader, n) /\ at = FirstOf(input, base)
      <4>1. PduLike(input, base)
        BY <1>1, <1>4, <3>1 DEF InHeader, PduLike
      <4>2. n + 1 \in 1..Len(input.asdus) /\ input.asdus[n + 1].at = FirstOf(input, base)
        BY <3>1, <4>1, HeaderSent
      <4>3. QED BY <1>1, <2>2, <3>1, <4>2, SameAsdu
    <3>2. CASE n > 0 /\ at = AsduEnd(input.asdus[n])
      <4>1. n \in 1..Len(input.asdus)
        BY <1>1, <3>2
      <4>2. QED BY <1>1, <2>2, <3>2, <4>1, NextAsdu
    <3>3. QED BY <3>1, <3>2
  <2>4. /\ sequence' = Append(sequence, Sample(input.asdus[n + 1]))
        /\ Sample(input.asdus[n + 1]) \in SampleType /\ offset' = AsduEnd(input.asdus[n + 1])
    BY <1>1, <1>4, <2>2, <2>3, StoresSent
  <2>5. n \in Nat /\ Len(sequence) = n
    BY <1>1 DEF LostAfter
  <2>6. /\ Len(sequence') = n + 1 /\ \A k \in 1..n : sequence'[k] = sequence[k]
        /\ sequence'[n + 1] = Sample(input.asdus[n + 1])
    BY <2>4, <2>5, Appended
  <2>7. QED BY <1>4, <2>2, <2>3, <2>4, <2>6, StoreAstray
<1>5. QED BY <1>2, <1>3, <1>4, AsduFieldAt

LEMMA AstrayStep == ASSUME Inv, SequenceOK, Astray, Next PROVE Place'
<1>1. PICK n \in 0..Len(input.asdus) :
        /\ LostAfter(n)
        /\ pc = "frame" => NoFrameAt(offset, n)
        /\ InPDU => \/ InHeader /\ NoFrameAt(base - EtherHeader, n)
                    \/ n > 0 /\ InAsduAt(AsduEnd(input.asdus[n]))
  BY DEF Astray
<1>2. input \in Inputs /\ offset \in Nat /\ base \in Nat /\ Len(input.asdus) \in Nat
  BY DamagedFacts, <1>1 DEF Inv, TypeOK, LostAfter
<1>3. CASE FrameHeader
  BY <1>1, <1>3, FrameHeaderAstray DEF FrameHeader
<1>4. CASE SavPdu \/ NoAsdu \/ SeqAsdu
  <2>1. pc \in {"savPdu", "noAsdu", "seqAsdu"} /\ InPDU
    BY <1>4 DEF SavPdu, NoAsdu, SeqAsdu, Enclosing, InPDU
  <2>2. InHeader /\ NoFrameAt(base - EtherHeader, n)
    BY <1>1, <2>1 DEF InAsduAt
  <2>3. QED BY <1>1, <1>4, <2>2, SavPduAstray, NoAsduAstray, SeqAsduAstray
<1>5. CASE AsduHeader \/ AsduField
  <2>1. pc \in {"asdu", "field"} /\ InPDU
    BY <1>5 DEF AsduHeader, AsduField, InPDU
  <2>2. \E at \in Nat :
          /\ InAsduAt(at)
          /\ \/ InHeader /\ NoFrameAt(base - EtherHeader, n) /\ at = FirstOf(input, base)
             \/ n > 0 /\ at = AsduEnd(input.asdus[n])
    <3>1. CASE InHeader /\ NoFrameAt(base - EtherHeader, n)
      <4>1. InAsduAt(FirstOf(input, base))
        BY <2>1, <3>1 DEF InHeader
      <4>2. FirstOf(input, base) \in Nat
        BY <1>2, HeaderPlaces
      <4>3. QED BY <3>1, <4>1, <4>2
    <3>2. CASE n > 0 /\ InAsduAt(AsduEnd(input.asdus[n]))
      <4>1. n \in 1..Len(input.asdus)
        BY <1>2, <3>2
      <4>2. AsduEnd(input.asdus[n]) \in Nat
        BY <1>2, <4>1, AsduFacts
      <4>3. QED BY <3>2, <4>2
    <3>3. QED BY <1>1, <2>1, <3>1, <3>2
  <2>3. QED BY <1>1, <1>5, <2>1, <2>2, AsduHeaderAstray, AsduFieldAstray
<1>6. CASE EndOfFrame
  <2>1. InPDU /\ pc' = "frame" /\ UNCHANGED <<input, offset, sequence>>
    BY <1>6 DEF EndOfFrame, InPDU, frame
  <2>2. LostAfter(n)' /\ offset' > FrameAt(input, input.damaged)
    BY <1>1, <1>2, <2>1, LostStays
  <2>3. QED BY <1>2, <2>1, <2>2, Resumes
<1>7. CASE Return
  <2>1. pc' = "done" /\ ~InPDU' /\ UNCHANGED <<input, offset, sequence>>
    BY <1>7 DEF Return, InPDU
  <2>2. LostAfter(n)'
    BY <1>1, <1>2, <2>1, LostStays
  <2>3. Astray'
    BY <2>1, <2>2 DEF Astray
  <2>4. QED BY <2>3 DEF Place
<1>8. QED BY <1>3, <1>4, <1>5, <1>6, <1>7 DEF Next

(* At the damage, with all that was sent before it and nothing else.       *)
AtDamage ==
  /\ input \in Inputs /\ input.damaged # 0 /\ pc = "frame"
  /\ offset = FrameAt(input, input.damaged) /\ Stored(Undamaged(input))

LEMMA Enters == AtDamage => Place
<1> SUFFICES ASSUME input \in Inputs, input.damaged # 0, pc = "frame",
                    offset = FrameAt(input, input.damaged), Stored(Undamaged(input))
             PROVE  Place
  BY DEF AtDamage
<1> DEFINE d == input.damaged
<1>1. /\ d \in 1..Len(input.frames) /\ FrameAt(input, d) \in Nat
      /\ Undamaged(input) = input.frames[d].first - 1 /\ Undamaged(input) \in 0..Len(input.asdus)
      /\ Len(input.asdus) \in Nat
  BY DamagedFacts
<1>2. PICK n \in Nat : n = Undamaged(input)
  <2>1. Undamaged(input) \in Nat
    BY <1>1
  <2>2. QED BY <2>1
<1>3. Len(sequence) = n /\ \A i \in 1..n : sequence[i] = Sample(input.asdus[i])
  <2>1. PICK a \in 0..n, lost \in 0..n :
          /\ PieceShort(n, a, lost)
          /\ lost # 0 => input.damaged # 0 /\ a >= n
    BY <1>2 DEF Stored
  <2>2. /\ a + lost <= n /\ Len(sequence) = n - lost
        /\ \A i \in 1..Len(sequence) : sequence[i] = Sample(input.asdus[IF i <= a THEN i ELSE i + lost])
    BY <2>1 DEF PieceShort
  <2>3. lost = 0
    BY <2>1, <2>2
  <2>4. QED BY <2>2, <2>3
<1>4. CASE ~Unmistakable(input)
  BY <1>2, <1>3, <1>4 DEF Behind, Place
<1>5. CASE Unmistakable(input)
  <2>1. n > 0 => input.asdus[n].at <= offset
    <3>1. CASE n > 0
      <4>1. n \in 1..Len(input.asdus)
        BY <1>1, <1>2, <3>1
      <4>2. n >= input.frames[d].first <=> input.asdus[n].at > FrameAt(input, d)
        BY <1>1, <4>1, BatchAssumption DEF Good, InOrder
      <4>3. ~(n >= input.frames[d].first)
        <5> DEFINE first == input.frames[d].first
        <5>1. first \in Nat \ {0} /\ n = first - 1
          BY <1>1, <1>2, FrameFacts
        <5> HIDE DEF first
        <5>2. ~(n >= first)
          BY <5>1
        <5>3. QED BY <5>2 DEF first
      <4>4. input.asdus[n].at \in Nat
        BY <4>1, AsduFacts
      <4> DEFINE p == input.asdus[n].at
                 q == FrameAt(input, d)
      <4>5. p \in Nat /\ q \in Nat /\ ~(p > q) /\ offset = q
        BY <1>1, <4>2, <4>3, <4>4
      <4> HIDE DEF p, q
      <4>6. p <= offset
        BY <4>5
      <4>7. QED BY <4>6 DEF p
    <3>2. QED BY <3>1
  <2>2. ~InPDU /\ n \in 0..Len(input.asdus) /\ n >= Undamaged(input)
    BY <1>1, <1>2 DEF InPDU
  <2>3. LostAfter(n)
    <3> DEFINE q == FrameAt(input, d)
    <3>1. q \in Nat /\ offset = q
      BY <1>1
    <3> HIDE DEF q
    <3>2. offset >= q
      BY <3>1
    <3>3. QED BY <1>3, <1>5, <2>1, <2>2, <3>2 DEF LostAfter, q
  <2>4. NoFrameAt(offset, n)
    BY <1>1, <1>2, SameFrame DEF NoFrameAt
  <2>5. Astray
    BY <2>2, <2>3, <2>4 DEF Astray
  <2>6. QED BY <2>5 DEF Place
<1>6. QED BY <1>4, <1>5

LEMMA NextEnters == AtDamage' => Place'
BY Enters, PTL

LEMMA EndOfFramePlace ==
  ASSUME Inv, NEW f \in Whole(input), InFrame(f), EndOfFrame
  PROVE  Place'
<1>1. /\ pc = "asdu" /\ seqCount = 0 /\ pc' = "frame" /\ input \in Inputs
      /\ UNCHANGED <<input, offset, sequence>>
  BY DEF EndOfFrame, frame, Inv, TypeOK
<1>2. offset = FrameEnd(input, f) /\ Stored(NextFirst(input, f) - 1)
  <2>1. NextFirst(input, f) \in Nat
    <3>1. NextFirst(input, f) = input.frames[f].first + input.frames[f].count
      BY DEF NextFirst
    <3>2. input.frames[f].first \in Nat /\ input.frames[f].count \in 1..16
      BY <1>1, WholeFacts
    <3>3. \A x \in Nat : \A y \in 1..16 : x + y \in Nat
      OBVIOUS
    <3>4. QED BY <3>1, <3>2, <3>3
  <2>2. Current(f) = NextFirst(input, f)
    BY <1>1, <2>1 DEF Current
  <2>3. Stored(Current(f) - 1) /\ offset = FrameEnd(input, f)
    BY <1>1 DEF InFrame
  <2>4. QED BY <2>2, <2>3
<1>3. (Stored(NextFirst(input, f) - 1))'
  BY <1>1, <1>2 DEF Stored, PieceShort
<1>4. /\ input.frames \in Seq(FrameType) /\ Len(input.frames) \in Nat /\ f \in 1..Len(input.frames)
      /\ offset \in Nat
  BY <1>1, BatchAssumption DEF Good, Whole, Inv, TypeOK
<1>5. CASE f = Len(input.frames)
  <2>1. Len(input.asdus) = NextFirst(input, f) - 1 /\ FrameEnd(input, f) = input.written
    BY <1>1, <1>5, BatchAssumption DEF Good
  <2>2. Stored(Len(input.asdus))'
    BY <1>1, <1>3, <2>1 DEF Stored, PieceShort
  <2>3. offset' >= input'.written
    BY <1>1, <1>2, <1>4, <2>1
  <2>4. QED BY <1>1, <2>2, <2>3 DEF AtEnd, Place
<1>6. CASE f # Len(input.frames)
  <2>1. f \in 1..(Len(input.frames) - 1) /\ f + 1 \in 1..Len(input.frames)
    BY <1>4, <1>6
  <2>2. FrameAt(input, f + 1) = FrameEnd(input, f) /\ input.frames[f + 1].first = NextFirst(input, f)
    BY <1>1, <2>1, BatchAssumption DEF Good
  <2>3. (Stored(input.frames[f + 1].first - 1))'
    BY <1>1, <1>3, <2>2 DEF Stored, PieceShort
  <2>4. CASE f + 1 \in Whole(input)
    <3>1. InFrame(f + 1)'
      BY <1>1, <1>2, <2>2, <2>3 DEF InFrame, InPDU
    <3>2. PICK g \in Whole(input) : g = f + 1
      BY <2>4
    <3>3. InFrame(g)'
      BY <3>1, <3>2
    <3>4. QED BY <1>1, <3>2, <3>3 DEF Place
  <2>5. CASE f + 1 \notin Whole(input)
    <3>1. f + 1 = input.damaged /\ input.damaged # 0
      BY <2>1, <2>5 DEF Whole
    <3>2. Undamaged(input) = input.frames[f + 1].first - 1
      BY <3>1 DEF Undamaged
    <3>3. Stored(Undamaged(input))'
      BY <1>1, <2>3, <3>2 DEF Stored, PieceShort
    <3>4. offset' = FrameAt(input', input'.damaged)
      BY <1>1, <1>2, <2>2, <3>1
    <3>5. input' \in Inputs /\ input'.damaged # 0
      BY <1>1, <3>1
    <3>6. AtDamage'
      BY <1>1, <3>3, <3>4, <3>5 DEF AtDamage
    <3>7. QED BY <3>6, NextEnters
  <2>6. QED BY <2>4, <2>5
<1>7. QED BY <1>5, <1>6

LEMMA BehindStays ==
  ASSUME Behind, SequenceOK, input \in Inputs, input' = input,
         sequence' = sequence \/ \E e \in SampleType : sequence' = Append(sequence, e)
  PROVE  Behind'
<1>1. Undamaged(input) \in Nat
  <2>1. Undamaged(input) \in 0..Len(input.asdus) /\ Len(input.asdus) \in Nat
    BY DamagedFacts DEF Behind
  <2>2. QED BY <2>1
<1>2. CASE sequence' = sequence
  BY <1>2 DEF Behind
<1>3. CASE \E e \in SampleType : sequence' = Append(sequence, e)
  <2>1. PICK n \in Nat : n = Len(sequence)
    BY DEF SequenceOK
  <2>2. Len(sequence') = n + 1 /\ \A k \in 1..n : sequence'[k] = sequence[k]
    BY <1>3, <2>1, Appended
  <2>3. Undamaged(input) <= n /\ \A a \in 1..Undamaged(input) : sequence[a] = Sample(input.asdus[a])
    BY <2>1 DEF Behind
  <2>4. Undamaged(input) <= n + 1 /\ \A a \in 1..Undamaged(input) : a \in 1..n
    BY <1>1, <2>1, <2>3
  <2>5. QED BY <2>2, <2>3, <2>4 DEF Behind
<1>4. QED BY <1>2, <1>3

LEMMA PlaceStep == ASSUME Inv, SequenceOK, Place, [Next]_vars PROVE Place' /\ SequenceOK'
<1>1. CASE UNCHANGED vars
  <2>1. UNCHANGED <<input, offset, asduLength, seqCount, field, smpCnt, sequence, pc, base, length>>
    BY <1>1 DEF vars
  <2>2. Behind => Behind'
    BY <2>1 DEF Behind
  <2>3. AtEnd => AtEnd'
    BY <2>1 DEF AtEnd, Stored, PieceShort
  <2>4. Astray => Astray'
    BY <2>1 DEF Astray, LostAfter, NoFrameAt, InPDU, InHeader, InAsduAt, ReadU16, Read
  <2>5. ASSUME NEW f \in Whole(input), InFrame(f) PROVE InFrame(f)'
    BY <2>1, <2>5 DEF InFrame, InPDU, Stored, PieceShort, Current
  <2>6. QED BY <2>1, <2>2, <2>3, <2>4, <2>5 DEF Place, SequenceOK
<1>2. CASE Next /\ Behind
  <2>1. input \in Inputs
    BY DEF Inv, TypeOK
  <2>2. /\ SequenceOK' /\ input' = input
        /\ sequence' = sequence \/ \E e \in SampleType : sequence' = Append(sequence, e)
    BY <1>2, SequenceStep
  <2>3. QED BY <1>2, <2>1, <2>2, BehindStays DEF Place
<1>3. CASE Next /\ AtEnd   \* only Return is left
  <2>1. pc \in {"frame", "done"} /\ offset >= input.written /\ Stored(Len(input.asdus))
    BY <1>3 DEF AtEnd
  <2>2. offset \in Nat /\ input.written \in Nat
    BY SizeType DEF Inv, TypeOK
  <2>3. ~(offset < input.written)
    BY <2>1, <2>2
  <2>4. Return
    BY <1>3, <2>1, <2>3 DEF Next, FrameHeader, SavPdu, SeqAsdu, Enclosing, NoAsdu, AsduHeader, AsduField,
                            EndOfFrame
  <2>5. pc' = "done" /\ UNCHANGED <<input, offset, sequence>>
    BY <2>4 DEF Return
  <2>6. AtEnd'
    BY <2>1, <2>5 DEF AtEnd, Stored, PieceShort
  <2>7. QED BY <1>3, <2>6, SequenceStep DEF Place
<1>4. CASE Next /\ Astray
  BY <1>4, AstrayStep, SequenceStep
<1>5. ASSUME NEW f \in Whole(input), InFrame(f), Next PROVE Place' /\ SequenceOK'
  <2>1. SequenceOK' /\ input' = input
    BY <1>5, SequenceStep
  <2>2. InFrame(f)' => Place'
    BY <2>1 DEF Place
  <2>3. ~Return
    <3>1. CASE Return
      <4>1. pc = "frame" /\ offset >= input.written /\ input \in Inputs
        BY <3>1 DEF Return, Inv, TypeOK
      <4>2. offset = FrameAt(input, f)
        BY <1>5, <4>1 DEF InFrame
      <4>3. offset \in Nat /\ offset < input.written /\ input.written \in Nat
        BY <4>1, <4>2, FramePlaces, SizeType
      <4>4. QED BY <4>1, <4>3
    <3>2. QED BY <3>1
  <2>4. QED BY <1>5, <2>1, <2>2, <2>3, FrameHeaderPlace, SavPduPlace, NoAsduPlace, SeqAsduPlace,
               AsduHeaderPlace, AsduFieldPlace, EndOfFramePlace DEF Next
<1>6. QED BY <1>1, <1>2, <1>3, <1>4, <1>5 DEF Place

LEMMA InitPlace == Init => Place /\ SequenceOK
<1> SUFFICES ASSUME Init PROVE Place /\ SequenceOK
  OBVIOUS
<1>1. input \in Inputs /\ offset = 0 /\ pc = "frame" /\ sequence = <<>> /\ smpCnt = 0
  BY DEF Init
<1>2. Len(sequence) = 0 /\ SequenceOK
  BY <1>1 DEF SequenceOK
<1>3. /\ input.frames \in Seq(FrameType) /\ input.frames # <<>>
      /\ FrameAt(input, 1) = 0 /\ input.frames[1].first = 1
  BY <1>1, BatchAssumption DEF Good
<1>4. 1 \in 1..Len(input.frames)
  <2>1. Len(input.frames) \in Nat /\ Len(input.frames) # 0
    BY <1>3, EmptySeq
  <2>2. QED BY <2>1
<1>5. Stored(0)
  <2>1. PieceShort(0, 0, 0)
    BY <1>2 DEF PieceShort
  <2>2. QED BY <2>1 DEF Stored
<1>6. CASE 1 \in Whole(input)
  <2>1. InFrame(1)
    BY <1>1, <1>3, <1>5 DEF InFrame, InPDU
  <2>2. QED BY <1>2, <1>6, <2>1 DEF Place
<1>7. CASE 1 \notin Whole(input)
  <2>1. input.damaged = 1
    BY <1>4, <1>7 DEF Whole
  <2>2. Undamaged(input) = 0
    BY <1>3, <2>1 DEF Undamaged
  <2>3. QED BY <1>1, <1>2, <1>3, <1>5, <2>1, <2>2, Enters DEF AtDamage
<1>8. QED BY <1>6, <1>7

(* convert, entry by entry.                                                *)
LEMMA Converted ==
  ASSUME sequence \in Seq(SampleType), NEW a \in 1..Len(sequence)
  PROVE  Convert(sequence, <<>>)[a] = [u \in Units |-> sequence[a].data[u] * IF u < 4 THEN 1 ELSE 10]
<1> DEFINE points == [i \in 1..Len(sequence) |-> [u \in Units |-> sequence[i].data[u] * IF u < 4 THEN 1 ELSE 10]]
           Points == {points[i] : i \in 1..Len(sequence)}
<1>1. Len(sequence) \in Nat
  OBVIOUS
<1>2. points \in Seq(Points)
  BY <1>1
<1>3. Convert(sequence, <<>>) = <<>> \o points
  BY DEF Convert
<1>4. points[a] = [u \in Units |-> sequence[a].data[u] * IF u < 4 THEN 1 ELSE 10]
  OBVIOUS
<1> HIDE DEF points, Points
<1>5. <<>> \o points = points
  BY <1>2, ConcatEmptySeq
<1>6. QED BY <1>3, <1>4, <1>5

(* What was sent before the damage is there when parse returns, and all of *)
(* it but one piece where the buffer is unmistakable.                      *)
LEMMA PlaceAtEnd ==
  ASSUME Inv, SequenceOK, Place, pc = "done"
  PROVE  /\ Undamaged(input) <= Len(sequence)
         /\ \A a \in 1..Undamaged(input) : sequence[a] = Sample(input.asdus[a])
         /\ input.damaged = 0 => Len(sequence) = Len(input.asdus)
         /\ Unmistakable(input) => OnePieceShort(Len(input.asdus))
<1>1. input \in Inputs /\ Len(sequence) \in Nat
  BY DEF Inv, TypeOK, SequenceOK
<1>2. Len(input.asdus) \in Nat /\ Undamaged(input) \in 0..Len(input.asdus)
  <2>1. input.asdus \in Seq(AsduType)
    BY <1>1, BatchAssumption DEF Good
  <2>2. CASE input.damaged = 0
    BY <2>1, <2>2 DEF Undamaged
  <2>3. CASE input.damaged # 0
    BY <1>1, <2>3, DamagedFacts
  <2>4. QED BY <2>2, <2>3
<1>3. PICK n \in Nat : n = Len(input.asdus)
  BY <1>2
<1>4. PICK u \in 0..n : u = Undamaged(input)
  BY <1>2, <1>3
<1>5. input.damaged = 0 => u = n
  BY <1>3, <1>4 DEF Undamaged
<1>6. CASE AtEnd
  <2>1. PICK a \in 0..n, lost \in 0..n :
          /\ PieceShort(n, a, lost)
          /\ lost # 0 => input.damaged # 0 /\ a >= u
    BY <1>3, <1>4, <1>6 DEF AtEnd, Stored
  <2>2. /\ a + lost <= n /\ Len(sequence) = n - lost
        /\ \A i \in 1..Len(sequence) : sequence[i] = Sample(input.asdus[IF i <= a THEN i ELSE i + lost])
    BY <2>1 DEF PieceShort
  <2>3. u <= Len(sequence)
    BY <2>1, <2>2
  <2>4. ASSUME NEW i \in 1..u PROVE sequence[i] = Sample(input.asdus[i])
    <3>1. i \in 1..Len(sequence) /\ (IF i <= a THEN i ELSE i + lost) = i
      BY <1>1, <2>1, <2>3
    <3>2. sequence[i] = Sample(input.asdus[IF i <= a THEN i ELSE i + lost])
      BY <2>2, <3>1
    <3>3. QED BY <3>1, <3>2
  <2>5. input.damaged = 0 => Len(sequence) = n
    BY <2>1, <2>2
  <2>6. OnePieceShort(n)
    BY <2>1 DEF OnePieceShort
  <2>7. QED BY <1>3, <1>4, <2>3, <2>4, <2>5, <2>6
<1>7. CASE Behind
  BY <1>7 DEF Behind
<1>8. CASE Astray
  <2>1. PICK k \in 0..n : LostAfter(k)
    BY <1>3, <1>8 DEF Astray
  <2>2. /\ input.damaged # 0 /\ k >= u /\ Len(sequence) = k
        /\ \A a \in 1..k : sequence[a] = Sample(input.asdus[a])
    BY <1>4, <2>1 DEF LostAfter
  <2>3. \A i \in 1..u : i \in 1..k
    BY <2>2
  <2>4. k + (n - k) <= n /\ n - k \in 0..n /\ k = n - (n - k) /\ \A i \in 1..k : i <= k
    OBVIOUS
  <2>5. PieceShort(n, k, n - k)
    BY <2>2, <2>4 DEF PieceShort
  <2>6. OnePieceShort(n)
    BY <2>4, <2>5 DEF OnePieceShort
  <2>7. u <= Len(sequence)
    BY <2>2
  <2>8. QED BY <1>3, <1>4, <2>2, <2>3, <2>6, <2>7
<1>9. QED BY <1>6, <1>7, <1>8 DEF Place, InFrame

LEMMA PlaceParses == ASSUME Inv, SequenceOK, Place PROVE GoodFramesParse
<1> SUFFICES ASSUME pc = "done"
             PROVE  /\ Undamaged(input) <= Len(sequence)
                    /\ \A a \in 1..Undamaged(input) :
                         /\ sequence[a] = Sample(input.asdus[a])
                         /\ Convert(sequence, <<>>)[a] = PointOf(input.asdus[a])
                    /\ input.damaged = 0 => Len(sequence) = Len(input.asdus)
  BY DEF GoodFramesParse
<1>1. /\ Undamaged(input) <= Len(sequence)
      /\ \A a \in 1..Undamaged(input) : sequence[a] = Sample(input.asdus[a])
      /\ input.damaged = 0 => Len(sequence) = Len(input.asdus)
  BY PlaceAtEnd
<1>2. sequence \in Seq(SampleType) /\ Len(sequence) \in Nat
  BY DEF SequenceOK
<1>3. Undamaged(input) \in Int
  <2>1. input \in Inputs /\ input.asdus \in Seq(AsduType)
    BY BatchAssumption DEF Good, Inv, TypeOK
  <2>2. CASE input.damaged = 0
    BY <2>1, <2>2 DEF Undamaged
  <2>3. CASE input.damaged # 0
    <3>1. Undamaged(input) \in 0..Len(input.asdus) /\ Len(input.asdus) \in Nat
      BY <2>1, <2>3, DamagedFacts
    <3>2. QED BY <3>1
  <2>4. QED BY <2>2, <2>3
<1>4. ASSUME NEW a \in 1..Undamaged(input)
      PROVE  sequence[a] = Sample(input.asdus[a]) /\ Convert(sequence, <<>>)[a] = PointOf(input.asdus[a])
  <2>1. sequence[a] = Sample(input.asdus[a]) /\ a \in 1..Len(sequence)
    BY <1>1, <1>2, <1>3
  <2>2. sequence[a].data = input.asdus[a].data
    BY <2>1 DEF Sample
  <2>3. \A u \in Units : Resolution[u + 1] = IF u < 4 THEN 1 ELSE 10
    <3>1. Units = {0, 1, 2, 3, 4, 5, 6, 7}
      BY DEF Units
    <3>2. QED BY <3>1 DEF Resolution
  <2>4. Convert(sequence, <<>>)[a] = PointOf(input.asdus[a])
    <3>1. Convert(sequence, <<>>)[a] = [u \in Units |-> sequence[a].data[u] * IF u < 4 THEN 1 ELSE 10]
      BY <1>2, <2>1, Converted
    <3>2. QED BY <2>2, <2>3, <3>1 DEF PointOf
  <2>5. QED BY <2>1, <2>4
<1>5. QED BY <1>1, <1>4

LEMMA PlaceInvariance == Spec => [](Inv /\ SequenceOK /\ Place)
<1>1. Inv /\ SequenceOK /\ Place /\ [Next]_vars => Inv' /\ SequenceOK' /\ Place'
  BY NextInv, PlaceStep
<1>2. QED BY <1>1, InitInv, InitPlace, PTL DEF Spec

(* Whatever happened to the damaged frame, parse (iec_parser.h:329-340)    *)
(* returns the samples of those in front of it first, in order and with    *)
(* the values that were sent, and convert the points they stand for: for   *)
(* any svID, any form of the lengths, up to 16 ASDU in a frame and any     *)
(* number of frames.  Of a batch without damage it returns nothing else.   *)
THEOREM GoodFramesTheorem == Spec => []GoodFramesParse
<1>1. Inv /\ SequenceOK /\ Place => GoodFramesParse
  BY PlaceParses
<1>2. QED BY <1>1, PlaceInvariance, PTL

(* Of a batch with damage anywhere, the returns false of parsePDU          *)
(* (iec_parser.h:147-216) and the loop that goes on behind them            *)
(* (iec_parser.h:329-340) lose one piece of what was sent and nothing      *)
(* else, take nothing twice and invent nothing, as long as nothing but an  *)
(* ASDU and a PDU that were sent looks like one.                           *)
THEOREM OnePieceTheorem == Spec => []LosesOnePiece
<1>1. Inv /\ SequenceOK /\ Place => LosesOnePiece
  BY PlaceAtEnd DEF LosesOnePiece
<1>2. QED BY <1>1, PlaceInvariance, PTL
=============================================================================
