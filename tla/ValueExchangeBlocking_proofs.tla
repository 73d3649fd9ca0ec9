-------------------- MODULE ValueExchangeBlocking_proofs --------------------
(***************************************************************************)
(* The blocking exchange, for any set of batches: the inductive invariant  *)
(* ExchangeInv, the safety properties it implies, and the refinement of    *)
(* the one-place buffer.  Spec is the exchange without reset, the only way *)
(* main.cpp uses it.                                                       *)
(***************************************************************************)
EXTENDS ValueExchangeBlocking, TLAPS

(* Time for every leaf on a machine that is busy with other things.        *)
USE SMTT(60), ZenonT(60)

LEMMA InitInv == Init => ExchangeInv
  BY ExchangeAssumption
  DEF Init, ExchangeInv, TypeOK, MutexHeld, SeenFlagHolds, NoLostWakeup, GoesOn,
      Users, Engine, Handler, Nobody, Labels

(* One step per action of Next; a step of either user is split by action.  *)
LEMMA NextInv == ExchangeInv /\ [Next]_vars => ExchangeInv'
<1> SUFFICES ASSUME ExchangeInv, [Next]_vars
             PROVE  ExchangeInv'
  OBVIOUS
<1> USE ExchangeAssumption
    DEF ExchangeInv, TypeOK, MutexHeld, SeenFlagHolds, NoLostWakeup, GoesOn,
        Goto, Users, Engine, Handler, Nobody, Labels
<1>1. ASSUME NEW b \in Batch, CallSet(b) PROVE ExchangeInv'
  BY <1>1 DEF CallSet
<1>2. CASE CallGet
  BY <1>2 DEF CallGet
<1>3. CASE Processed
  BY <1>3 DEF Processed
<1>4. ASSUME NEW t \in Users, SpuriousWakeup(t) PROVE ExchangeInv'
  BY <1>4 DEF SpuriousWakeup
<1>5. ASSUME NEW t \in Users, Step(t) PROVE ExchangeInv'
  <2>1. CASE Check(t)
    BY <2>1 DEF Check, Visible, OwnLastStore
  <2>2. CASE Lock(t)
    BY <2>2 DEF Lock
  <2>3. CASE Test(t)
    BY <2>3 DEF Test
  <2>4. CASE Block(t)
    BY <2>4 DEF Block
  <2>5. CASE Enter(t)
    BY <2>5 DEF Enter
  <2>6. CASE Leave(t)
    <3>1. /\ pc[t] = "leave" /\ mutex = t /\ mutex' = Nobody
          /\ pc' = [pc EXCEPT ![t] = "idle"]
          /\ UNCHANGED <<storage, isFilled, resetPc, value, result>>
      BY <2>6 DEF Leave
    <3>2. waiters' \subseteq waiters /\ t \notin waiters
      BY <2>6, <3>1 DEF Leave, NotifyOne
    <3>3. waiters' = {}   \* only the other user can be blocked, and it is the one notified
      BY <2>6, <3>2 DEF Leave, NotifyOne
    <3>4. TypeOK' /\ MutexHeld' /\ SeenFlagHolds' /\ NoLostWakeup'
      BY <3>1, <3>3
    <3>5. QED BY <3>1, <3>3, <3>4
  <2>7. CASE GetBody
    BY <2>7 DEF GetBody
  <2>8. CASE SetBody
    BY <2>8 DEF SetBody
  <2>9. QED BY <1>5, <2>1, <2>2, <2>3, <2>4, <2>5, <2>6, <2>7, <2>8 DEF Step
<1>6. CASE UNCHANGED vars
  BY <1>6 DEF vars
<1>7. QED BY <1>1, <1>2, <1>3, <1>4, <1>5, <1>6 DEF Next

(* ExchangeInv holds in every reachable state of the exchange.             *)
THEOREM ExchangeIsInvariant == Spec => []ExchangeInv
  BY InitInv, NextInv, PTL DEF Spec

(* What a thread saw of isFilled before it took the mutex holds when it    *)
(* acts on it (value_exchange.h, 84 to 92 and 99 to 107).                  *)
THEOREM SeenFlagTheorem == Spec => []SeenFlagHolds
<1>1. ExchangeInv => SeenFlagHolds
  BY DEF ExchangeInv
<1>2. QED BY <1>1, ExchangeIsInvariant, PTL

(* No thread sleeps through the change it waits for (value_exchange.h,     *)
(* waiter.wait and waiter.notify_one in get and set).                      *)
THEOREM NoLostWakeupTheorem == Spec => []NoLostWakeup
<1>1. ExchangeInv => NoLostWakeup
  BY DEF ExchangeInv
<1>2. QED BY <1>1, ExchangeIsInvariant, PTL

(* Neither the mutex nor the condition variable can stop both threads: who *)
(* holds the mutex is running, and of two sleepers one could go on, so     *)
(* that its notification would have to be under way.                       *)
THEOREM NoDeadlockTheorem == Spec => []NoDeadlock
<1>1. ExchangeInv => NoDeadlock
  <2> SUFFICES ASSUME ExchangeInv, NEW t \in Users, pc[t] # "idle", \A u \in Users : ~CanStep(u)
               PROVE  ~GoesOn(t, isFilled) /\ \A u \in Users \ {t} : pc[u] = "idle"
    BY DEF NoDeadlock
  <2>1. mutex = Nobody
    <3>1. ASSUME NEW u \in Users, mutex = u PROVE CanStep(u)
      BY <3>1 DEF ExchangeInv, MutexHeld, CanStep
    <3>2. QED BY <3>1 DEF ExchangeInv, TypeOK
  <2>2. \A u \in Users : pc[u] = "idle" \/ u \in waiters
    BY <2>1 DEF CanStep
  <2>3. \A u \in Users : pc[u] # "leave"
    BY <2>1 DEF ExchangeInv, MutexHeld, Users, Engine, Handler, Nobody
  <2>4. \A u \in waiters : ~GoesOn(u, isFilled)
    BY <2>3 DEF ExchangeInv, NoLostWakeup
  <2>5. \A u \in Users \ {t} : u \notin waiters   \* one of the two would go on
    BY <2>2, <2>4 DEF GoesOn, Users, Engine, Handler
  <2>6. QED BY <2>2, <2>4, <2>5
<1>2. QED BY <1>1, ExchangeIsInvariant, PTL

(* get moves storage out only while the flag is up, as long as nobody      *)
(* calls reset, which raises the flag over whatever storage holds.         *)
THEOREM GetWaitsTheorem == Spec => GetWaitsForBatch
<1>1. ExchangeInv /\ [Next]_vars => [GetBody => isFilled]_vars
  BY DEF ExchangeInv, SeenFlagHolds, GoesOn, GetBody, Users, Handler, Engine
<1>2. QED BY <1>1, ExchangeIsInvariant, PTL DEF Spec, GetWaitsForBatch

(* The exchange implements the one-place buffer: the call of set offers,   *)
(* its body puts, get's body takes, every other step of get and set leaves *)
(* the buffer alone.                                                       *)
THEOREM Refinement == Spec => ImplementsBuffer
<1>1. Init => Buffer!Init
  BY DEF Init, Buffer!Init, Users, Engine, Handler
<1>2. ExchangeInv /\ [Next]_vars => [Buffer!Next]_(Buffer!vars)
  <2> SUFFICES ASSUME ExchangeInv, [Next]_vars
               PROVE  [Buffer!Next]_(Buffer!vars)
    OBVIOUS
  <2> USE DEF Buffer!vars, Goto, Users, Engine, Handler
  <2>0. pc \in [Users -> Labels]
    BY DEF ExchangeInv, TypeOK
  <2>1. ASSUME NEW b \in Batch, CallSet(b) PROVE Buffer!Next
    <3>1. pc[Engine] = "idle" /\ pc'[Engine] = "check" /\ value' = b
          /\ UNCHANGED <<isFilled, storage, result>>
      BY <2>0, <2>1 DEF CallSet
    <3>2. Buffer!Offer(b)
      BY <3>1 DEF Buffer!Offer
    <3>3. QED BY <3>2 DEF Buffer!Next
  <2>2. CASE CallGet
    BY <2>0, <2>2 DEF CallGet
  <2>3. CASE Processed
    <3>1. Buffer!Finish
      BY <2>3 DEF Processed, Buffer!Finish
    <3>2. QED BY <3>1 DEF Buffer!Next
  <2>4. ASSUME NEW t \in Users, SpuriousWakeup(t) PROVE UNCHANGED Buffer!vars
    BY <2>4 DEF SpuriousWakeup
  <2>5. ASSUME NEW t \in Users, Step(t) PROVE [Buffer!Next]_(Buffer!vars)
    <3>1. CASE Check(t) \/ Lock(t) \/ Test(t) \/ Block(t) \/ Enter(t) \/ Leave(t)
      <4>1. UNCHANGED <<isFilled, storage, result, value>>
        BY <3>1 DEF Check, Lock, Test, Block, Enter, Leave
      <4>2. pc[t] # "idle" /\ \E label \in Labels : pc' = [pc EXCEPT ![t] = label]
        BY <3>1 DEF Check, Lock, Test, Block, Enter, Leave, Labels
      <4>3. pc[t] = "leave" <=> pc'[t] \in {"idle", "leave"}
        BY <2>0, <3>1 DEF Check, Lock, Test, Block, Enter, Leave
      <4>4. pc[Engine] \in {"idle", "leave"} <=> pc'[Engine] \in {"idle", "leave"}
        BY <2>0, <4>2, <4>3
      <4>5. QED BY <4>1, <4>4
    <3>2. CASE GetBody   \* the flag is up and the handler has no batch: a Take
      <4>1. isFilled /\ storage \in Batch /\ result = None
        BY <3>2 DEF GetBody, ExchangeInv, SeenFlagHolds, GoesOn
      <4>2. pc'[Engine] = pc[Engine]
        BY <2>0, <3>2 DEF GetBody
      <4>3. Buffer!Take
        BY <3>2, <4>1, <4>2, ExchangeAssumption DEF GetBody, Buffer!Take
      <4>4. QED BY <4>3 DEF Buffer!Next
    <3>3. CASE SetBody   \* the flag is down: a Put of what was offered
      <4>1. ~isFilled /\ value \in Batch /\ pc[Engine] = "inside"
        BY <3>3 DEF SetBody, ExchangeInv, SeenFlagHolds, GoesOn
      <4>2. pc'[Engine] = "leave"
        BY <2>0, <3>3 DEF SetBody
      <4>3. Buffer!Put
        BY <3>3, <4>1, <4>2, ExchangeAssumption DEF SetBody, Buffer!Put
      <4>4. QED BY <4>3 DEF Buffer!Next
    <3>4. QED BY <2>5, <3>1, <3>2, <3>3 DEF Step
  <2>6. CASE UNCHANGED vars
    BY <2>6 DEF vars
  <2>7. QED BY <2>1, <2>2, <2>3, <2>4, <2>5, <2>6 DEF Next
<1>3. QED BY <1>1, <1>2, ExchangeIsInvariant, PTL DEF Spec, ImplementsBuffer, Buffer!Spec

(* Whatever reset does, the variables keep their types.                    *)
LEMMA TypeStep == TypeOK /\ [Next \/ Reset]_vars => TypeOK'
<1> SUFFICES ASSUME TypeOK, [Next \/ Reset]_vars
             PROVE  TypeOK'
  OBVIOUS
<1> USE DEF TypeOK, Goto, Users, Engine, Handler, Nobody, Labels
<1>1. CASE CallGet \/ Processed \/ UNCHANGED vars \/ \E b \in Batch : CallSet(b)
  BY <1>1 DEF CallGet, Processed, CallSet, vars
<1>2. CASE Reset
  BY <1>2 DEF Reset, ResetStore, ResetNotify, NotifyOne
<1>3. ASSUME NEW t \in Users, SpuriousWakeup(t) PROVE TypeOK'
  BY <1>3 DEF SpuriousWakeup
<1>4. ASSUME NEW t \in Users, Step(t) PROVE TypeOK'
  <2>1. CASE Check(t) \/ Lock(t) \/ Test(t)
    BY <2>1 DEF Check, Lock, Test
  <2>2. CASE Block(t) \/ Enter(t)
    BY <2>2 DEF Block, Enter
  <2>3. CASE Leave(t)
    BY <2>3 DEF Leave, NotifyOne
  <2>4. CASE GetBody \/ SetBody
    BY <2>4 DEF GetBody, SetBody
  <2>5. QED BY <1>4, <2>1, <2>2, <2>3, <2>4 DEF Step
<1>5. QED BY <1>1, <1>2, <1>3, <1>4 DEF Next

(* reset takes no mutex and gives none back: with reset too, the mutex is  *)
(* held exactly by the thread inside its critical section.                 *)
THEOREM MutexTheorem == ResetSpec => []MutexHeld
<1> DEFINE Inv == /\ MutexHeld
                  /\ pc \in [Users -> Labels]
                  /\ mutex \in Users \cup {Nobody}
                  /\ waiters \subseteq {t \in Users : pc[t] = "asleep"}
<1>1. Init => Inv
  BY DEF Init, MutexHeld, Users, Engine, Handler, Nobody, Labels
<1>2. Inv /\ [Next \/ Reset]_vars => Inv'
  <2> SUFFICES ASSUME Inv, [Next \/ Reset]_vars
               PROVE  Inv'
    OBVIOUS
  <2> USE DEF MutexHeld, Goto, GoesOn, Users, Engine, Handler, Nobody, Labels
  <2>1. CASE CallGet \/ Processed \/ Reset \/ UNCHANGED vars \/ \E b \in Batch : CallSet(b)
    BY <2>1 DEF CallGet, Processed, Reset, ResetStore, ResetNotify, NotifyOne, CallSet, vars
  <2>2. ASSUME NEW t \in Users, SpuriousWakeup(t) PROVE Inv'
    BY <2>2 DEF SpuriousWakeup
  <2>3. ASSUME NEW t \in Users, Step(t) PROVE Inv'
    <3>1. CASE Check(t) \/ Test(t) \/ Enter(t)
      BY <3>1 DEF Check, Test, Enter
    <3>2. CASE Lock(t) \/ Block(t)
      BY <3>2 DEF Lock, Block
    <3>3. CASE Leave(t)
      BY <3>3 DEF Leave, NotifyOne
    <3>4. CASE GetBody \/ SetBody
      BY <3>4 DEF GetBody, SetBody
    <3>5. QED BY <2>3, <3>1, <3>2, <3>3, <3>4 DEF Step
  <2>4. QED BY <2>1, <2>2, <2>3 DEF Next
<1>3. QED BY <1>1, <1>2, PTL DEF ResetSpec
=============================================================================
