--------------------------- MODULE ValueExchange ---------------------------
(***************************************************************************)
(* utils::ValueExchange (include/iec_core/utils/value_exchange.h): the     *)
(* lock-free exchange.  Three optional slots and three pointers to them:   *)
(* set_buffer belongs to the writer, get_buffer to the reader, and the     *)
(* atomic pointer buffer is what they swap with.  Between two swaps each   *)
(* thread works on its own slot without synchronisation, so a step here is *)
(* either one atomic exchange or the work on the own slot around it.       *)
(*                                                                         *)
(* A value is the number of the accepted set call that stored it; Nothing  *)
(* is the disengaged optional.                                             *)
(***************************************************************************)
EXTENDS Naturals

CONSTANT MaxSets   \* bound: how many values the writer offers

ASSUME MaxSetsAssumption == MaxSets \in Nat

Nothing == 0
Slots   == 0..2

VARIABLES storage,                        \* the three optionals
          set_buffer, buffer, get_buffer, \* each the index of a slot
          setPc, getPc,
          accepted,                       \* the set calls that returned true
          refused,                        \* the last set call returned false
          got                             \* the value of the last get that returned true

vars == <<storage, set_buffer, buffer, get_buffer, setPc, getPc, accepted, refused, got>>

Init == /\ storage = [s \in Slots |-> Nothing]
        /\ set_buffer = 0 /\ buffer = 1 /\ get_buffer = 2
        /\ setPc = "idle" /\ getPc = "idle"
        /\ accepted = 0 /\ refused = FALSE /\ got = Nothing

SetEmplace == /\ setPc = "idle" /\ accepted < MaxSets
              /\ storage[set_buffer] = Nothing
              /\ storage' = [storage EXCEPT ![set_buffer] = accepted + 1]
              /\ setPc' = "exchange"
              /\ UNCHANGED <<set_buffer, buffer, get_buffer, getPc, accepted, refused, got>>

SetRefused == /\ setPc = "idle" /\ accepted < MaxSets
              /\ storage[set_buffer] # Nothing
              /\ refused' = TRUE
              /\ UNCHANGED <<storage, set_buffer, buffer, get_buffer, setPc, getPc, accepted, got>>

(* Mutation: the pointer is loaded and stored instead of exchanged, and    *)
(* set_buffer keeps its slot.                                              *)
SetStoreOnly == /\ setPc = "exchange"
                /\ buffer' = set_buffer
                /\ setPc' = "idle"
                /\ accepted' = accepted + 1
                /\ refused' = FALSE
                /\ UNCHANGED <<storage, set_buffer, get_buffer, getPc, got>>

SetExchange == /\ setPc = "exchange"
               /\ buffer' = set_buffer /\ set_buffer' = buffer
               /\ setPc' = "idle"
               /\ accepted' = accepted + 1
               /\ refused' = FALSE
               /\ UNCHANGED <<storage, get_buffer, getPc, got>>

(* Mutation: get gives no slot back for the one it takes.                  *)
GetLoadOnly == /\ getPc = "idle"
               /\ get_buffer' = buffer
               /\ getPc' = "fetch"
               /\ UNCHANGED <<storage, set_buffer, buffer, setPc, accepted, refused, got>>

GetExchange == /\ getPc = "idle"
               /\ buffer' = get_buffer /\ get_buffer' = buffer
               /\ getPc' = "fetch"
               /\ UNCHANGED <<storage, set_buffer, setPc, accepted, refused, got>>

(* Mutation: the slot is not reset.                                        *)
NothingEmptied == storage

(* Mutation: the slot of the exchanged pointer is reset.                   *)
SharedEmptied == [storage EXCEPT ![buffer] = Nothing]

Emptied == [storage EXCEPT ![get_buffer] = Nothing]

(* has_value, the move of the value and get_buffer->reset(); get returns   *)
(* false when the slot is empty.                                           *)
GetFetch == /\ getPc = "fetch"
            /\ got' = IF storage[get_buffer] = Nothing THEN got ELSE storage[get_buffer]
            /\ storage' = Emptied
            /\ getPc' = "idle"
            /\ UNCHANGED <<set_buffer, buffer, get_buffer, setPc, accepted, refused>>

SetStep == SetEmplace \/ SetRefused \/ SetExchange
GetStep == GetExchange \/ GetFetch
Next == SetStep \/ GetStep

Spec == Init /\ [][Next]_vars

(* Both threads call their method again and again.                         *)
FairSpec == Spec /\ WF_vars(SetStep) /\ WF_vars(GetStep)
-----------------------------------------------------------------------------
TypeOK == /\ storage \in [Slots -> 0..MaxSets]
          /\ {set_buffer, buffer, get_buffer} \subseteq Slots
          /\ setPc \in {"idle", "exchange"} /\ getPc \in {"idle", "fetch"}
          /\ accepted \in 0..MaxSets /\ got \in 0..MaxSets
          /\ refused \in BOOLEAN

(* The writer and the reader never work on the same slot, and neither on   *)
(* the one that is up for exchange: the non-atomic optionals are free of   *)
(* data races.                                                             *)
SlotsDisjoint == set_buffer # buffer /\ buffer # get_buffer /\ set_buffer # get_buffer

(* The newest accepted value is never lost: until it has been fetched it   *)
(* is in the slot the next get will pick up, or in the one get is reading. *)
NewestIsOffered == accepted > got => \/ storage[buffer] = accepted
                                     \/ getPc = "fetch" /\ storage[get_buffer] = accepted

(* What the reader sees only gets newer: no value is returned twice and    *)
(* none after a later one.                                                 *)
GotIsNewer == [][got' # got => got' > got]_vars

(* The inductive invariant behind the three.                               *)
ExchangeInv == /\ TypeOK
               /\ SlotsDisjoint
               /\ NewestIsOffered
               /\ got <= accepted
               /\ storage[buffer] \in {Nothing, accepted}
               /\ setPc = "exchange" => accepted < MaxSets /\ storage[set_buffer] = accepted + 1
               /\ storage[buffer] # Nothing => got < accepted
               /\ getPc = "idle" => storage[get_buffer] = Nothing
               /\ storage[get_buffer] # Nothing => got < storage[get_buffer] /\ storage[get_buffer] <= accepted
               /\ storage[buffer] # Nothing => storage[get_buffer] < storage[buffer]

(* The exchange from outside: a slot the writer or the reader works on     *)
(* counts only while it holds what get has exchanged and not yet returned. *)
Mailbox == INSTANCE NewestMailbox
             WITH put <- accepted, newest <- storage[buffer],
                  taken <- IF getPc = "fetch" THEN storage[get_buffer] ELSE Nothing,
                  fetched <- got

(* Three slots and three pointers make up one mailbox: get returns exactly *)
(* the value the last accepted set has put, and finds none only when it    *)
(* was fetched before; a value that set gets back from its exchange is     *)
(* never seen again.                                                       *)
ImplementsMailbox == Mailbox!Spec

(* What "lock-free" promises: a refused set is not refused for ever while  *)
(* the reader goes on calling get.                                         *)
RefusalEnds == refused /\ accepted < MaxSets ~> ~refused
=============================================================================
