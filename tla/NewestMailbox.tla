--------------------------- MODULE NewestMailbox ----------------------------
(***************************************************************************)
(* What the lock-free exchange promises: a place for the newest value.  A  *)
(* value that is put replaces the one that was not fetched in time; the    *)
(* fetcher takes what is there, once, and has it a moment later.  Values   *)
(* are numbered as they are put.  The module is the abstract specification *)
(* that ValueExchange implements; it models no code of its own.            *)
(***************************************************************************)
EXTENDS Naturals

CONSTANT Nothing

VARIABLES put,      \* how many values were put
          newest,   \* the newest of them, or Nothing once it was taken
          taken,    \* what a fetch has taken and not yet returned, or Nothing
          fetched   \* the value returned last, or Nothing

vars == <<put, newest, taken, fetched>>

Init == put = 0 /\ newest = Nothing /\ taken = Nothing /\ fetched = Nothing

Put == /\ put' = put + 1
       /\ newest' = put'
       /\ UNCHANGED <<taken, fetched>>

Take == /\ newest # Nothing /\ taken = Nothing
        /\ taken' = newest /\ newest' = Nothing
        /\ UNCHANGED <<put, fetched>>

Return == /\ taken # Nothing
          /\ fetched' = taken /\ taken' = Nothing
          /\ UNCHANGED <<put, newest>>

Next == Put \/ Take \/ Return

Spec == Init /\ [][Next]_vars
=============================================================================
