---------------------------- MODULE SampleStream ----------------------------
(***************************************************************************)
(* What the program promises of a stream of samples, whatever its threads, *)
(* buffers and batches: what reaches the socket is delivered to the        *)
(* handler in the order of the sender, nothing is lost on the way but what *)
(* comes behind a damaged sample, and the program gives up exactly when    *)
(* what it is about to deliver does not go on where the last delivery      *)
(* ended.                                                                  *)
(***************************************************************************)
EXTENDS Integers, Sequences

CONSTANTS StreamMax,   \* the last value of the sender's counter
          Damaged,     \* a sample that cannot be told any more
          None         \* nothing delivered yet

VARIABLES next,    \* the sample the sender sends next
          pipe,    \* the samples between the socket and the handler
          last,    \* the sample delivered last
          alarmed

vars == <<next, pipe, last, alarmed>>

(* What is in the pipe at the start need not come from this sender.        *)
Init == /\ next \in 0..StreamMax /\ pipe \in Seq(0..StreamMax \cup {Damaged})
        /\ last = None /\ alarmed = FALSE

Succ(count) == (count + 1) % (StreamMax + 1)

Contiguous(samples) == \A i \in 1..(Len(samples) - 1) : samples[i + 1] = Succ(samples[i])

(* The next sample passes, is damaged or gets lost before the socket.      *)
Send == /\ next' = Succ(next)
        /\ pipe' \in {Append(pipe, next), Append(pipe, Damaged), pipe}
        /\ UNCHANGED <<last, alarmed>>

(* The first n samples in the pipe are taken out together.  All of them    *)
(* are delivered, or all but those after the first a and before b, which   *)
(* begin with a damaged one.                                               *)
Take(n) == /\ ~alarmed
           /\ pipe' = SubSeq(pipe, n + 1, Len(pipe))
           /\ UNCHANGED next

MayKeep(n, a, b) == /\ \A i \in 1..a \cup b..n : pipe[i] # Damaged
                    /\ a + 1 < b => pipe[a + 1] = Damaged
Kept(n, a, b) == SubSeq(pipe, 1, a) \o SubSeq(pipe, b, n)

GoesOn(samples) == /\ samples # <<>>
                   /\ Contiguous(IF last = None THEN samples ELSE <<last>> \o samples)

Deliver(samples) == GoesOn(samples) /\ last' = samples[Len(samples)] /\ UNCHANGED alarmed
GiveUp(samples)  == ~GoesOn(samples) /\ alarmed' = TRUE /\ UNCHANGED last

Next == \/ Send
        \/ \E n \in 1..Len(pipe) :
             /\ Take(n)
             /\ \E a \in 0..n : \E b \in (a + 1)..(n + 1) :
                  MayKeep(n, a, b) /\ (Deliver(Kept(n, a, b)) \/ GiveUp(Kept(n, a, b)))

Spec == Init /\ [][Next]_vars
=============================================================================
