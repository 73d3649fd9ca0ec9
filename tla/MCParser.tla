----------------------------- MODULE MCParser ------------------------------
(* The parser over batches of two or three frames, built as the streams of *)
(* the code's comments look like, whole or with one byte damaged or cut    *)
(* off in the middle.                                                      *)
EXTENDS GoodFrames

CONSTANT Damages   \* the values a damaged byte takes

Bytes(n, b) == [i \in 1..n |-> b]
TLV(tag, value) == <<tag, Len(value)>> \o value
LongTLV(tag, value) == <<tag, 130, Len(value) \div 256, Len(value) % 256>> \o value

(* The data of sample c: with c it alternates above and below zero, and no *)
(* two units, nor a magnitude and its quality, are alike.                  *)
Magnitude(c, u) == (IF c % 2 = 0 THEN -1 ELSE 1) * (1000 * c + u)
Dataset(c) == [i \in 1..64 |->
  IF i % 8 \in 1..4 THEN I32Octets(Magnitude(c, (i - 1) \div 8))[i % 8] ELSE 7]

(* An ASDU with an svID of 10 characters; the contents nobody looks at are *)
(* non-zero bytes.                                                         *)
MCAsdu(c) == TLV(48, TLV(128, Bytes(10, 65)) \o TLV(130, <<0, c>>) \o TLV(131, Bytes(4, 1))
                       \o TLV(133, <<1>>) \o TLV(135, Dataset(c)))

Envelope(pdu) == Bytes(14, 9) \o <<64, 0, (Len(pdu) + 8) \div 256, (Len(pdu) + 8) % 256>>
                   \o Bytes(4, 0) \o pdu

(* One ASDU as in an 80-point stream, two as the 256-point stream's eight. *)
Frame80p(c)  == Envelope(TLV(96, TLV(128, <<1>>) \o TLV(162, MCAsdu(c))))
Frame256p(c) == Envelope(LongTLV(96, TLV(128, <<2>>) \o LongTLV(162, MCAsdu(c) \o MCAsdu(c + 1))))

Buffer(bytes) == [i \in 0..(Size - 1) |-> IF i < Len(bytes) THEN bytes[i + 1] ELSE 0]

(* What was sent: the ASDU of sample c with its place, and a frame's form. *)
AsduOf(c, at) == [at |-> at, svId |-> 10, smpCnt |-> c, data |-> [u \in Units |-> Magnitude(c, u)]]
FrameOf(at, octets, first, count) ==
  [at |-> at, sav |-> octets, seq |-> octets, first |-> first, count |-> count]

Batch80p  == Frame80p(1) \o Frame80p(2) \o Frame80p(3)
Batch256p == Frame256p(1) \o Frame256p(3)
Earlier   == Frame80p(7)

AsduLength  == Len(MCAsdu(1))
Length80p   == Len(Frame80p(1))
Length256p  == Len(Frame256p(1))

Input80p(bytes, written, damaged) ==
  [data |-> Buffer(bytes), written |-> written, damaged |-> damaged,
   frames |-> [f \in 1..3 |-> FrameOf(Length80p * (f - 1), 0, f, 1)],
   asdus |-> [c \in 1..3 |-> AsduOf(c, Length80p * c - AsduLength)]]
Input256p(bytes, written, damaged) ==
  [data |-> Buffer(bytes), written |-> written, damaged |-> damaged,
   frames |-> [f \in 1..2 |-> FrameOf(Length256p * (f - 1), 2, 2 * f - 1, 2)],
   asdus |-> [c \in 1..4 |-> AsduOf(c, Length256p * ((c + 1) \div 2) - (1 + (c % 2)) * AsduLength)]]

WholeInputs == {Input80p(Batch80p, Len(Batch80p), 0), Input256p(Batch256p, Len(Batch256p), 0)}

(* Damage in the second frame, anywhere outside the counter and the data.  *)
DamagedInputs ==
  LET n == Length80p
      skipped == {n - 76, n - 75} \cup (n - 63)..n IN
  {Input80p([Batch80p EXCEPT ![n + i] = b], Len(Batch80p), 2) : i \in (1..n) \ skipped, b \in Damages}
  \cup
  {Input256p([Batch256p EXCEPT ![Length256p + i] = b], Len(Batch256p), 2) :
     i \in 1..40, b \in Damages}

(* The last frame is cut off, and the rest of it is what an earlier batch  *)
(* left in the buffer: by chance the same bytes, or another frame's.       *)
CutInputs == {Input80p(Batch80p, Len(Batch80p) - k, 3) : k \in 1..Length80p - 1}

StaleInputs ==
  LET kept(k) == Len(Batch80p) - k IN
  {Input80p(SubSeq(Batch80p, 1, kept(k)) \o SubSeq(Earlier, Length80p + 1 - k, Length80p), kept(k), 3) :
     k \in 1..Length80p - 1}

MCInputs == WholeInputs \cup DamagedInputs \cup CutInputs \cup StaleInputs

(* LosesOnePiece is about all of them but those with samples of an earlier *)
(* batch behind the cut.                                                   *)
ASSUME UnmistakableAssumption == \A b \in MCInputs \ StaleInputs : Unmistakable(b)

=============================================================================
