----------------------------- MODULE GoodFrames -----------------------------
(***************************************************************************)
(* What the parser owes the senders: the samples of the frames that reach  *)
(* the buffer whole.  The bytes of a whole frame are described here as IEC *)
(* 61850-9-2 LE lays them out, from where each piece of it starts.  A      *)
(* batch is a row of frames; one of them, the last or any other, may be    *)
(* damaged in any way, or cut off and followed by anything.                *)
(*                                                                         *)
(* An input also tells what was sent: frames, each with its place, the     *)
(* octets behind the first of the lengths of its savPDU and its seqASDU,   *)
(* its first ASDU and how many it has; which of them is damaged, if any;   *)
(* asdus, the ASDU of all, each with the place it was sent at, the length  *)
(* of its svID, its counter and the eight magnitudes.                      *)
(***************************************************************************)
EXTENDS IecParser

I32 == {v \in Int : v \div 16777216 \in -128..127}

FrameType == [at : Nat, sav : 0..4, seq : 0..4, first : Nat \ {0}, count : 0..16]
AsduType  == [at : Nat, svId : 10..34, smpCnt : 0..(U16Mod - 1), data : [Units -> I32]]

(* Big-endian words, and a length in ASN.1's definite form: one octet, or  *)
(* n more that the first one announces.                                    *)
U16Octets(v) == <<v \div 256, v % 256>>
I32Octets(v) == <<(v \div 16777216) % 256, (v \div 65536) % 256, (v \div 256) % 256, v % 256>>

AsnOctets(l, n) ==
  IF n = 0 THEN <<l>>
  ELSE [k \in 1..(n + 1) |-> IF k = 1 THEN 128 + n ELSE IF k = n + 1 THEN l % 256
                             ELSE IF k = n THEN l \div 256 ELSE 0]
AsnFits(l, n) == l \in 0..((IF n = 0 THEN 128 ELSE IF n = 1 THEN 256 ELSE U16Mod) - 1)

Holds(b, at, octets) == \A k \in 1..Len(octets) : b.data[at + k - 1] = octets[k]

(* Where the fields of an ASDU start, and where it ends.                   *)
FieldPlace(asdu, f) == asdu.at + <<2, 4 + asdu.svId, 8 + asdu.svId, 14 + asdu.svId, 17 + asdu.svId>>[f]
AsduEnd(asdu) == asdu.at + asdu.svId + 83

(* What an ASDU holds, and all of it with its header.                      *)
AsduHolds(b, asdu) ==
  /\ Holds(b, FieldPlace(asdu, 2) + 2, U16Octets(asdu.smpCnt))
  /\ \A u \in Units : Holds(b, FieldPlace(asdu, 5) + 2 + 8 * u, I32Octets(asdu.data[u]))

AsduLaid(b, asdu) ==
  /\ AsduEnd(asdu) <= b.written
  /\ Holds(b, asdu.at, <<48, asdu.svId + 81>>)
  /\ Holds(b, FieldPlace(asdu, 1), <<128, asdu.svId>>)
  /\ Holds(b, FieldPlace(asdu, 2), <<130, 2>>)
  /\ Holds(b, FieldPlace(asdu, 3), <<131, 4>>)
  /\ Holds(b, FieldPlace(asdu, 4), <<133, 1>>)
  /\ Holds(b, FieldPlace(asdu, 5), <<135, 64>>)
  /\ AsduHolds(b, asdu)

(* One frame follows the other, as do its ASDU.                            *)
NextFirst(b, f) == b.frames[f].first + b.frames[f].count
FrameEnd(b, f)  == AsduEnd(b.asdus[NextFirst(b, f) - 1])
FrameAt(b, f)   == b.frames[f].at
PduAt(b, f)     == FrameAt(b, f) + EtherHeader
NoAsduAt(b, f)  == PduAt(b, f) + PDUHeader + 2 + b.frames[f].sav
SeqAsduAt(b, f) == NoAsduAt(b, f) + 3
FirstAt(b, f)   == SeqAsduAt(b, f) + 2 + b.frames[f].seq

FrameLaid(b, f) ==
  LET g       == b.frames[f]
      pduSize == FrameEnd(b, f) - PduAt(b, f)
      savRest == FrameEnd(b, f) - NoAsduAt(b, f)
      seqRest == FrameEnd(b, f) - FirstAt(b, f) IN
  /\ g.count # 0
  /\ pduSize \in 1..(U16Mod - 1) /\ AsnFits(savRest, g.sav) /\ AsnFits(seqRest, g.seq)
  /\ Holds(b, PduAt(b, f) + 2, U16Octets(pduSize))
  /\ Holds(b, PduAt(b, f) + PDUHeader, <<96>>)
  /\ Holds(b, PduAt(b, f) + PDUHeader + 1, AsnOctets(savRest, g.sav))
  /\ Holds(b, NoAsduAt(b, f), <<128, 1, g.count>>)
  /\ Holds(b, SeqAsduAt(b, f), <<162>>)
  /\ Holds(b, SeqAsduAt(b, f) + 1, AsnOctets(seqRest, g.seq))
  /\ b.asdus[g.first].at = FirstAt(b, f)
  /\ \A a \in (g.first + 1)..(NextFirst(b, f) - 1) : b.asdus[a].at = AsduEnd(b.asdus[a - 1])
  /\ \A a \in g.first..(NextFirst(b, f) - 1) : AsduLaid(b, b.asdus[a])

(* Frames and ASDU were sent one behind the other.                         *)
InOrder(b) ==
  /\ \A f, g \in 1..Len(b.frames) : f < g => FrameAt(b, f) < FrameAt(b, g)
  /\ \A a, c \in 1..Len(b.asdus) : a < c => AsduEnd(b.asdus[a]) <= b.asdus[c].at
  /\ \A f \in 1..Len(b.frames), a \in 1..Len(b.asdus) :
       a >= b.frames[f].first <=> b.asdus[a].at > FrameAt(b, f)

Whole(b) == (1..Len(b.frames)) \ {b.damaged}

(* How many ASDU were sent before the damage.                              *)
Undamaged(b) == IF b.damaged = 0 THEN Len(b.asdus) ELSE b.frames[b.damaged].first - 1

Good(b) ==
  /\ b.frames \in Seq(FrameType) /\ b.asdus \in Seq(AsduType)
  /\ b.frames # <<>> /\ b.damaged \in 0..Len(b.frames)
  /\ FrameAt(b, 1) = 0 /\ b.frames[1].first = 1
  /\ \A f \in 1..(Len(b.frames) - 1) : /\ b.frames[f + 1].first = NextFirst(b, f)
                                       /\ f \in Whole(b) => FrameAt(b, f + 1) = FrameEnd(b, f)
  /\ \A f \in 1..Len(b.frames) : NextFirst(b, f) - 1 <= Len(b.asdus)
  /\ Len(b.asdus) = NextFirst(b, Len(b.frames)) - 1
  /\ Len(b.frames) \in Whole(b) => FrameEnd(b, Len(b.frames)) = b.written
  /\ \A f \in Whole(b) : FrameLaid(b, f)
  /\ InOrder(b)

ASSUME BatchAssumption == \A b \in Inputs : Good(b)
-----------------------------------------------------------------------------
(* What is read at a place in the buffer, and what a parser that has lost  *)
(* its place takes there for an ASDU, and for a PDU up to its first ASDU:  *)
(* the tags with lengths that are allowed, one behind the other, the first *)
(* length being the rest of the one in the PDU's header.                   *)
ByteAt(b, at) == IF InBuffer(at, 1) THEN b.data[at] ELSE 0
WordAt(b, at) == IF InBuffer(at, 2) THEN b.data[at] * 256 + b.data[at + 1] ELSE 0

AsnSize(b, at)  == LET n == ByteAt(b, at) - 128 IN IF n \in 1..4 THEN 1 + n ELSE 1
AsnValue(b, at) == LET n == ByteAt(b, at) - 128 IN
                   CASE n < 0      -> ByteAt(b, at)
                     [] n = 1      -> ByteAt(b, at + 1)
                     [] n \in 2..4 -> ByteAt(b, at + n - 1) * 256 + ByteAt(b, at + n)
                     [] OTHER      -> 0

FieldAt(b, at, f) == FieldPlace([at |-> at, svId |-> ByteAt(b, at + 3)], f)
FieldLike(b, at, f) ==
  /\ ByteAt(b, FieldAt(b, at, f)) = Fields[f].tag
  /\ ByteAt(b, FieldAt(b, at, f) + 1) \in Fields[f].lengths
AsduLike(b, at) == ByteAt(b, at) = 48 /\ \A f \in 1..Len(Fields) : FieldLike(b, at, f)

SavPduOf(at)     == at + PDUHeader
NoAsduOf(b, at)  == SavPduOf(at) + 1 + AsnSize(b, SavPduOf(at) + 1)
SeqAsduOf(b, at) == NoAsduOf(b, at) + 3
FirstOf(b, at)   == SeqAsduOf(b, at) + 1 + AsnSize(b, SeqAsduOf(b, at) + 1)
SavPduLike(b, at) ==
  /\ ByteAt(b, SavPduOf(at)) = 96
  /\ AsnValue(b, SavPduOf(at) + 1) = (WordAt(b, at + 2) - (NoAsduOf(b, at) - at)) % U16Mod
NoAsduLike(b, at) ==
  /\ ByteAt(b, NoAsduOf(b, at)) = 128 /\ ByteAt(b, NoAsduOf(b, at) + 1) = 1
  /\ ByteAt(b, NoAsduOf(b, at) + 2) \in 1..16
PduLike(b, at) ==
  /\ SavPduLike(b, at) /\ NoAsduLike(b, at)
  /\ ByteAt(b, SeqAsduOf(b, at)) = 162
  /\ AsduLike(b, FirstOf(b, at))

(* Nothing in the buffer, what an earlier batch left in it included, looks *)
(* like an ASDU or a PDU but those sent.                                   *)
Unmistakable(b) ==
  \A at \in 0..Size :
    /\ AsduLike(b, at) =>
         \E a \in 1..Len(b.asdus) :
           /\ b.asdus[a].at = at /\ b.asdus[a].svId = ByteAt(b, at + 3)
           /\ AsduEnd(b.asdus[a]) <= Size /\ AsduHolds(b, b.asdus[a])
    /\ PduLike(b, at) =>
         \E f \in 1..Len(b.frames) :
           /\ at = PduAt(b, f) /\ b.frames[f].first <= Len(b.asdus)
           /\ b.asdus[b.frames[f].first].at = FirstOf(b, at)
-----------------------------------------------------------------------------
Sample(asdu) == [smpCnt |-> asdu.smpCnt, data |-> asdu.data]

(* What one step of a magnitude stands for, in thousandths: a milliampere  *)
(* in the currents of three phases and the neutral, ten millivolts in the  *)
(* voltages.                                                               *)
Resolution == <<1, 1, 1, 1, 10, 10, 10, 10>>
PointOf(asdu) == [u \in Units |-> asdu.data[u] * Resolution[u + 1]]

(* What parse returns for the frames up to the damaged one is what was     *)
(* sent, in order, and convert makes of it the currents and voltages that  *)
(* were measured, in thousandths.  Where all frames are whole it returns   *)
(* nothing else.                                                           *)
GoodFramesParse ==
  pc = "done" =>
    /\ Undamaged(input) <= Len(sequence)
    /\ \A a \in 1..Undamaged(input) :
         /\ sequence[a] = Sample(input.asdus[a])
         /\ Convert(sequence, <<>>)[a] = PointOf(input.asdus[a])
    /\ input.damaged = 0 => Len(sequence) = Len(input.asdus)

(* The first n samples sent, but for a piece of them behind the a-th.      *)
PieceShort(n, a, lost) ==
  /\ a + lost <= n /\ Len(sequence) = n - lost
  /\ \A i \in 1..Len(sequence) :
       sequence[i] = Sample(input.asdus[IF i <= a THEN i ELSE i + lost])
OnePieceShort(n) == \E a, lost \in 0..n : PieceShort(n, a, lost)

(* Damage that makes nothing look like what was not sent, in whatever      *)
(* bytes, costs the parser samples of one place, up to the end of the      *)
(* batch or until it has found a frame's start again; it never invents     *)
(* one, nor takes one twice or in another order (iec_parser.h:329-340).    *)
LosesOnePiece ==
  pc = "done" /\ Unmistakable(input) => OnePieceShort(Len(input.asdus))
=============================================================================
