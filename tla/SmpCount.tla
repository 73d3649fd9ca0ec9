------------------------------ MODULE SmpCount ------------------------------
(***************************************************************************)
(* The sample counter of a sampled-values stream, as the Validator reads   *)
(* it: the sender counts its samples from 0 to 3999 (80 points per period) *)
(* or to 12799 (256 points per period) and starts again at 0.  The         *)
(* Validator does not know which of the two streams it looks at.           *)
(***************************************************************************)
EXTENDS Integers

CONSTANTS Max80p, Max256p   \* 3999 and 12799 in the code

ASSUME SmpCountAssumption == /\ Max80p \in Nat /\ Max256p \in Nat
                             /\ Max80p < Max256p

(* Mutation: only the 80-point stream starts again.                        *)
Follows80p(capturedSmpSync, smpSync) ==
  \/ smpSync = 0 /\ capturedSmpSync = Max80p
  \/ smpSync - 1 = capturedSmpSync

(* Mutation: any greater counter will do.                                  *)
FollowsAhead(capturedSmpSync, smpSync) ==
  \/ smpSync = 0 /\ capturedSmpSync \in {Max80p, Max256p}
  \/ smpSync - 1 >= capturedSmpSync

(* The two tests of Validator::validate that lead to State::Correct.  The  *)
(* subtraction is made in int, so smpSync - 1 is -1 for 0.                 *)
Follows(capturedSmpSync, smpSync) ==
  \/ smpSync = 0 /\ capturedSmpSync \in {Max80p, Max256p}
  \/ smpSync - 1 = capturedSmpSync

(* The sender: the count lost samples after count, in a stream whose       *)
(* counter goes up to max.                                                 *)
After(count, lost, max) == (count + 1 + lost) % (max + 1)
=============================================================================
