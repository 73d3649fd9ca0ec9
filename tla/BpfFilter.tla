----------------------------- MODULE BpfFilter ------------------------------
(***************************************************************************)
(* The BPF program (bpf/ethernet-parse.c) as two pure functions: what      *)
(* BPFExecutor::filterSourceCode (src/iec_core/engines/bpf_exec.cpp) makes *)
(* of its source for given settings, and whether the program so obtained   *)
(* keeps a frame.  Setup puts them to use.                                 *)
(*                                                                         *)
(* Of the source three places matter: the placeholders of the interface's  *)
(* MAC, the sender's MAC and the svID.  A frame is a record with type and  *)
(* src from its Ethernet header and pdu, its bytes from the savPDU on.     *)
(***************************************************************************)
EXTENDS Integers, Sequences

IEC_PROTO      == 33024   \* 0x8100
SV_ETHERTYPE   == 35002   \* 0x88BA
SV_PDU_ID_80P  == 96      \* 0x60
SV_PDU_ID_256P == 24706   \* 0x6082

Placeholder == <<37>>   \* text beginning with a per cent sign
Undeclared  == <<0>>    \* "char const *cmp_str = str;"
NoAddress   == <<48, 120>>   \* "0x" and nothing behind it

EthernetParse == [ifaceMac |-> Placeholder, srcMac |-> Placeholder, svID |-> Placeholder]

(* read_file of a file that is not there returns an empty text, and        *)
(* nothing asks.                                                           *)
NoSource == [ifaceMac |-> <<>>, srcMac |-> <<>>, svID |-> <<>>]

(* SourceCodeFormater::replace: only what is there is replaced.            *)
Replace(text, with) == IF text = Placeholder THEN with ELSE text

(* Mutation: with an empty svID the placeholder is left as it is.          *)
FilterSourceCodeKept(source, ifaceMac, s) ==
  [ifaceMac |-> Replace(source.ifaceMac, ifaceMac),
   srcMac   |-> Replace(source.srcMac, s.srcMac),
   svID     |-> IF s.svID # <<>> THEN Replace(source.svID, s.svID) ELSE source.svID]

(* With an empty svID cmp_str becomes a pointer to str, which nothing      *)
(* declares; the text svReplacement2 does not occur in the source, so the  *)
(* length is still compared.                                               *)
FilterSourceCode(source, ifaceMac, s) ==
  [ifaceMac |-> Replace(source.ifaceMac, ifaceMac),
   srcMac   |-> Replace(source.srcMac, s.srcMac),
   svID     |-> Replace(source.svID, IF s.svID # <<>> THEN s.svID ELSE Undeclared)]

(* Neither does an undeclared name compile nor 0x; an empty text does, but *)
(* load_func finds no iec61850_filter in it.                               *)
Compiles(source)    == source.svID # Undeclared /\ source.ifaceMac # NoAddress
HasFunction(source) == source # NoSource
-----------------------------------------------------------------------------
(* load_byte, at an offset from the savPDU's first byte: the kernel ends   *)
(* the program with 0 where the frame ends.                                *)
Loads(pdu, n) == n < Len(pdu)
Byte(pdu, n)  == pdu[n + 1]

(* EtherType, the frames the interface sends itself, the sender.           *)
HeaderPasses(program, frame) == /\ frame.type \in {IEC_PROTO, SV_ETHERTYPE}
                                /\ frame.src # program.ifaceMac
                                /\ frame.src = program.srcMac

Is256p(pdu) == Byte(pdu, 0) * 256 + Byte(pdu, 1) = SV_PDU_ID_256P
Is80p(pdu)  == ~Is256p(pdu) /\ Byte(pdu, 0) = SV_PDU_ID_80P

(* The savPDU is 11 bytes long in a 256-point frame and 7 in an 80-point   *)
(* one; the 4 bytes of ASDU_start_t behind it end with the svID's length.  *)
SvIdOffset(pdu) == (IF Is256p(pdu) THEN 11 ELSE 7) + 4

(* Mutation: the lengths are not compared.                                 *)
SvIdCmpPrefix(pdu, offset, length, svID) ==
  \A i \in 1..Len(svID) : Loads(pdu, offset + i - 1) /\ Byte(pdu, offset + i - 1) = svID[i]

SvIdCmp(pdu, offset, length, svID) ==
  /\ Len(svID) = length
  /\ \A i \in 1..Len(svID) : Loads(pdu, offset + i - 1) /\ Byte(pdu, offset + i - 1) = svID[i]

(* iec61850_filter returns -1.                                             *)
Keeps(program, frame) ==
  /\ HeaderPasses(program, frame)
  /\ Loads(frame.pdu, 1) /\ (Is256p(frame.pdu) \/ Is80p(frame.pdu))
  /\ LET offset == SvIdOffset(frame.pdu) IN
     /\ Loads(frame.pdu, offset - 1)
     /\ SvIdCmp(frame.pdu, offset, Byte(frame.pdu, offset - 1), program.svID)
=============================================================================
