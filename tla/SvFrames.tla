------------------------------ MODULE SvFrames ------------------------------
(***************************************************************************)
(* The frames on the network as IEC 61850-9-2 lays them out, for what the  *)
(* BPF program reads of them.  A savPDU with one ASDU has lengths of one   *)
(* octet, with two ASDU lengths of one octet more, with the eight of a     *)
(* 256-point stream of two more; the savPDU and its seqASDU alike.  A      *)
(* frame may be cut off anywhere before the svID ends.                     *)
(***************************************************************************)
EXTENDS Setup

(* Octets that follow the first one of a length.                           *)
LongForm(layout) == IF layout = "80p" THEN 0 ELSE IF layout = "two" THEN 1 ELSE 2

(* Where the first ASDU starts, and where its svID ends.                   *)
AsduAt(n)        == 7 + 2 * n
SvIdEnd(n, svID) == AsduAt(n) + 4 + Len(svID)

(* The octets of the frame that are there are those of a savPDU, and of an *)
(* ASDU that begins with its svID.                                         *)
Laid(frame, n) ==
  \A k \in 1..Len(frame.pdu) :
    LET octet == frame.pdu[k] IN
    /\ k = 1 => octet = SV_PDU_ID_80P
    /\ k = 2 => IF n = 0 THEN octet < 128 ELSE octet = 128 + n
    /\ k = AsduAt(n) + 1 => octet = 48
    /\ k = AsduAt(n) + 3 => octet = 128
    /\ k = AsduAt(n) + 4 => octet = Len(frame.svID)
    /\ k \in (AsduAt(n) + 5)..SvIdEnd(n, frame.svID) => octet = frame.svID[k - (AsduAt(n) + 4)]

Whole(frame, n) == Len(frame.pdu) >= SvIdEnd(n, frame.svID)

(* With its VLAN tag in place the frame's reserved words are read as the   *)
(* PDU: the first is zero but for the bit of simulated samples.            *)
FramesAssumption ==
  \A frame \in Frames :
    /\ frame.svID \in Seq(1..127) /\ Len(frame.svID) < 128
    /\ \/ /\ frame.layout \in {"80p", "two", "256p"} /\ frame.type = SV_ETHERTYPE
          /\ Laid(frame, LongForm(frame.layout)) /\ Whole(frame, LongForm(frame.layout))
       \/ /\ frame.layout = "cut"
          /\ \E n \in 0..2 : Laid(frame, n) /\ ~Whole(frame, n)
       \/ /\ frame.layout = "tagged"
          /\ frame.pdu # <<>> => frame.pdu[1] \in {0, 128}
       \/ /\ frame.layout = "IP" /\ frame.type \notin {IEC_PROTO, SV_ETHERTYPE}

ASSUME SvFramesAssumption == FramesAssumption
=============================================================================
