------------------------------ MODULE MCEngine ------------------------------
(* The engine with the sizes of the code and the longer frames of the two  *)
(* streams main.cpp names: a 256-point frame with an svID of 12 characters *)
(* has 14 + 8 + 11 + 8 * 95 = 793 bytes.  An 80-point frame has 126.       *)
EXTENDS BPFEngine

CONSTANT p256

MCFrameSize == [f \in {p256} |-> 793]
=============================================================================
