--------------------------- MODULE OnePlaceBuffer ---------------------------
(***************************************************************************)
(* What a value exchange promises the two threads of the pipeline: a place *)
(* for one batch.  The batch of a call is the one that is put, only into   *)
(* an empty place, is taken exactly once, and the taker works on one batch *)
(* at a time.  The module is the abstract specification that               *)
(* ValueExchangeBlocking implements; it models no code of its own.         *)
(***************************************************************************)
CONSTANTS Batch, None

VARIABLES offered,   \* the batch a call wants to put, or None
          place,     \* the batch waiting to be taken, or None
          taken      \* the batch the taker is working on, or None

vars == <<offered, place, taken>>

Init == offered = None /\ place = None /\ taken = None

Offer(b) == /\ offered = None
            /\ offered' = b
            /\ UNCHANGED <<place, taken>>

Put == /\ offered # None /\ place = None
       /\ place' = offered
       /\ offered' = None
       /\ UNCHANGED taken

Take == /\ place # None /\ taken = None
        /\ taken' = place
        /\ place' = None
        /\ UNCHANGED offered

Finish == /\ taken # None
          /\ taken' = None
          /\ UNCHANGED <<offered, place>>

Next == (\E b \in Batch : Offer(b)) \/ Put \/ Take \/ Finish

Spec == Init /\ [][Next]_vars

(* A batch that was put does not stay in its place for ever.               *)
Delivery == place # None ~> place = None
=============================================================================
