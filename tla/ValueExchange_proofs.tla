------------------------ MODULE ValueExchange_proofs ------------------------
(***************************************************************************)
(* The lock-free exchange, for any number of values: the inductive         *)
(* invariant ExchangeInv, and the three properties of the reader and the   *)
(* writer it implies.                                                      *)
(***************************************************************************)
EXTENDS ValueExchange, TLAPS

(* Time for every leaf on a machine that is busy with other things.        *)
USE SMTT(60), ZenonT(60)

LEMMA InitInv == Init => ExchangeInv
<1> SUFFICES ASSUME Init PROVE ExchangeInv
  OBVIOUS
<1> USE MaxSetsAssumption DEF Init, Slots, Nothing
<1>1. storage \in [Slots -> 0..MaxSets] /\ storage[0] = 0 /\ storage[1] = 0 /\ storage[2] = 0
  OBVIOUS
<1>2. {set_buffer, buffer, get_buffer} \subseteq Slots
  OBVIOUS
<1>3. TypeOK
  BY <1>1, <1>2 DEF TypeOK
<1>4. QED BY <1>1, <1>2, <1>3 DEF ExchangeInv, SlotsDisjoint, NewestIsOffered

(* One step per action.                                                    *)
LEMMA NextInv == ExchangeInv /\ [Next]_vars => ExchangeInv'
<1> SUFFICES ASSUME ExchangeInv, [Next]_vars
             PROVE  ExchangeInv'
  OBVIOUS
<1> USE MaxSetsAssumption
    DEF ExchangeInv, TypeOK, SlotsDisjoint, NewestIsOffered, Slots, Nothing
<1>1. CASE SetEmplace
  BY <1>1 DEF SetEmplace
<1>2. CASE SetRefused
  BY <1>2 DEF SetRefused
<1>3. CASE SetExchange   \* the value put up for exchange is newer than any other
  <2>1. /\ storage' = storage /\ get_buffer' = get_buffer /\ got' = got /\ getPc' = getPc
        /\ buffer' = set_buffer /\ set_buffer' = buffer /\ setPc' = "idle"
        /\ accepted' = accepted + 1 /\ refused' = FALSE
    BY <1>3 DEF SetExchange
  <2>2. storage[set_buffer] = accepted + 1 /\ accepted < MaxSets
    BY <1>3 DEF SetExchange
  <2>3. TypeOK' /\ SlotsDisjoint' /\ NewestIsOffered'
    BY <2>1, <2>2
  <2>4. storage[get_buffer] \in Nat
    BY <2>1
  <2>5. QED BY <2>1, <2>2, <2>3, <2>4
<1>4. CASE GetExchange
  BY <1>4 DEF GetExchange
<1>5. CASE GetFetch
  BY <1>5 DEF GetFetch, Emptied
<1>6. CASE UNCHANGED vars
  BY <1>6 DEF vars
<1>7. QED BY <1>1, <1>2, <1>3, <1>4, <1>5, <1>6 DEF Next, SetStep, GetStep

(* ExchangeInv holds in every reachable state.                             *)
THEOREM ExchangeIsInvariant == Spec => []ExchangeInv
  BY InitInv, NextInv, PTL DEF Spec

(* The writer's slot, the reader's slot and the exchanged one are three    *)
(* different slots (value_exchange.h, the three exchanges of set and get). *)
THEOREM DisjointTheorem == Spec => []SlotsDisjoint
<1>1. ExchangeInv => SlotsDisjoint
  BY DEF ExchangeInv
<1>2. QED BY <1>1, ExchangeIsInvariant, PTL

(* The newest accepted value waits where the reader's next get, or the get *)
(* under way, finds it.                                                    *)
THEOREM NewestTheorem == Spec => []NewestIsOffered
<1>1. ExchangeInv => NewestIsOffered
  BY DEF ExchangeInv
<1>2. QED BY <1>1, ExchangeIsInvariant, PTL

(* The reader never sees a value twice nor an older one after a newer one. *)
THEOREM NewerTheorem == Spec => GotIsNewer
<1>1. ExchangeInv /\ [Next]_vars => [got' # got => got' > got]_vars
  BY DEF ExchangeInv, TypeOK, Slots, Nothing, Next, SetStep, GetStep, SetEmplace, SetRefused,
         SetExchange, GetExchange, GetFetch, Emptied
<1>2. QED BY <1>1, ExchangeIsInvariant, PTL DEF Spec, GotIsNewer

-----------------------------------------------------------------------------
(* The exchange implements a mailbox for the newest value: the exchange in *)
(* set puts, the one in get takes when the shared slot is filled, the      *)
(* fetch returns, and everything else is a stutter.                        *)
LEMMA RefinementInit == Init => Mailbox!Init
  BY DEF Init, Mailbox!Init, Slots, Nothing

LEMMA RefinementStep == ExchangeInv /\ [Next]_vars => [Mailbox!Next]_Mailbox!vars
<1> SUFFICES ASSUME ExchangeInv, [Next]_vars
             PROVE  Mailbox!Next \/ UNCHANGED Mailbox!vars
  OBVIOUS
<1> USE DEF ExchangeInv, TypeOK, SlotsDisjoint, Slots, Nothing
<1>1. CASE SetEmplace   \* the writer's slot is neither the shared one nor the reader's
  BY <1>1 DEF SetEmplace, Mailbox!vars
<1>2. CASE SetRefused
  BY <1>2 DEF SetRefused, Mailbox!vars
<1>3. CASE SetExchange
  BY <1>3 DEF SetExchange, Mailbox!Next, Mailbox!Put
<1>4. CASE GetExchange
  <2>1. CASE storage[buffer] = Nothing
    BY <1>4, <2>1 DEF GetExchange, Mailbox!vars
  <2>2. CASE storage[buffer] # Nothing   \* the reader's empty slot becomes the shared one
    BY <1>4, <2>2 DEF GetExchange, Mailbox!Next, Mailbox!Take
  <2> QED BY <2>1, <2>2
<1>5. CASE GetFetch
  <2>1. CASE storage[get_buffer] = Nothing
    BY <1>5, <2>1 DEF GetFetch, Emptied, Mailbox!vars
  <2>2. CASE storage[get_buffer] # Nothing
    BY <1>5, <2>2 DEF GetFetch, Emptied, Mailbox!Next, Mailbox!Return
  <2> QED BY <2>1, <2>2
<1>6. CASE UNCHANGED vars
  BY <1>6 DEF vars, Mailbox!vars
<1>7. QED BY <1>1, <1>2, <1>3, <1>4, <1>5, <1>6 DEF Next, SetStep, GetStep

THEOREM MailboxTheorem == Spec => ImplementsMailbox
<1>1. Spec => Mailbox!Init /\ [][Mailbox!Next]_Mailbox!vars
  BY RefinementInit, RefinementStep, ExchangeIsInvariant, PTL DEF Spec
<1>2. QED BY <1>1 DEF ImplementsMailbox, Mailbox!Spec
=============================================================================
