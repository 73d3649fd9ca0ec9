------------------------------ MODULE MCSetup -------------------------------
(* Frames of two senders and of the interface itself, with svIDs that are  *)
(* prefixes of one another, in the layouts a sender may use: short lengths *)
(* (80p), two-byte lengths (256p), one-byte long-form lengths (two ASDU of *)
(* an 80-point stream), cut off inside the svID or at the first byte, with *)
(* the VLAN tag still in place, or of another protocol.                    *)
EXTENDS SvFrames

CONSTANTS m1, m2, eth

MCSettings == {[iface |-> eth, srcMac |-> m1, svID |-> <<65, 66>>],
               [iface |-> eth, srcMac |-> m2, svID |-> <<65, 66, 67>>],
               [iface |-> eth, srcMac |-> m1, svID |-> <<>>],
               [iface |-> NoIface, srcMac |-> m1, svID |-> <<65, 66>>]}

MCSvIDs == {<<65>>, <<65, 66>>, <<65, 67>>, <<65, 66, 67>>}

(* The svID of the first ASDU and the tag that comes next.                 *)
Asdu(svID) == <<48, 81 + Len(svID), 128, Len(svID)>> \o svID \o <<130, 2>>
SeqLength(n, svID) == n * (83 + Len(svID))

Pdu80p(svID)  == <<96, SeqLength(1, svID) + 5, 128, 1, 1, 162, SeqLength(1, svID)>> \o Asdu(svID)
PduTwo(svID)  == <<96, 129, SeqLength(2, svID) + 6, 128, 1, 2, 162, 129, SeqLength(2, svID)>>
                   \o Asdu(svID)
Pdu256p(svID) == LET n == SeqLength(8, svID) IN
                 <<96, 130, (n + 7) \div 256, (n + 7) % 256, 128, 1, 8,
                   162, 130, n \div 256, n % 256>> \o Asdu(svID)

MCFrame(type, src, pdu, layout, svID) ==
  [type |-> type, src |-> src, pdu |-> pdu, layout |-> layout, svID |-> svID, ours |-> TRUE]

Sent(src, svID) ==
  {MCFrame(SV_ETHERTYPE, src, Pdu80p(svID), "80p", svID),
   MCFrame(SV_ETHERTYPE, src, Pdu256p(svID), "256p", svID),
   MCFrame(SV_ETHERTYPE, src, PduTwo(svID), "two", svID),
   MCFrame(SV_ETHERTYPE, src, SubSeq(Pdu80p(svID), 1, 11 + Len(svID) - 1), "cut", svID),
   MCFrame(SV_ETHERTYPE, src, <<96>>, "cut", svID),
   MCFrame(IEC_PROTO, src, <<0, 0, 0, 0>> \o Pdu80p(svID), "tagged", svID),
   MCFrame(2048, src, Pdu80p(svID), "IP", svID)}

(* A frame of the first settings, one of the second, one of another        *)
(* interface.                                                              *)
MCArrivals == {MCFrame(SV_ETHERTYPE, m1, Pdu80p(<<65, 66>>), "80p", <<65, 66>>),
               MCFrame(SV_ETHERTYPE, m2, Pdu256p(<<65, 66, 67>>), "256p", <<65, 66, 67>>),
               [MCFrame(2048, m2, <<>>, "IP", <<>>) EXCEPT !.ours = FALSE]}

MCFrames == MCArrivals \cup UNION {UNION {Sent(src, svID) : svID \in MCSvIDs} :
                                    src \in {m1, m2, OwnMac}}
=============================================================================
