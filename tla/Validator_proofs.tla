-------------------------- MODULE Validator_proofs --------------------------
(***************************************************************************)
(* The Validator tells every loss from none, for any two counter lengths,  *)
(* as long as the losses are shorter than LossIsBounded says.  The heart   *)
(* is a fact about the counter: among the samples that may come next, the  *)
(* only one that Follows is the one with nothing lost before it.           *)
(***************************************************************************)
EXTENDS Validator, TLAPS

(* Time for every leaf on a machine that is busy with other things.        *)
USE SMTT(60), ZenonT(60)

(* Counting up to 2m modulo m.                                             *)
LEMMA ModBelow == ASSUME NEW a \in Nat, NEW m \in Nat \ {0}, a < m PROVE a % m = a
  OBVIOUS

LEMMA ModAbove == ASSUME NEW a \in Nat, NEW m \in Nat \ {0}, m <= a, a < 2 * m
                  PROVE  a % m = a - m
  OBVIOUS

LEMMA AfterInRange ==
  ASSUME NEW m \in {Max80p, Max256p}, NEW c \in 0..m, NEW k \in Nat
  PROVE  After(c, k, m) \in 0..m
  BY SmpCountAssumption DEF After

(* The sample after a gap of k follows exactly when k is 0.                *)
LEMMA FollowsTellsLoss ==
  ASSUME LossIsBounded,
         NEW m \in {Max80p, Max256p}, NEW c \in 0..m, NEW k \in 0..MaxLoss
  PROVE  Follows(c, After(c, k, m)) <=> k = 0
<1> USE SmpCountAssumption, ValidatorAssumption DEF LossIsBounded, After, Follows
<1> DEFINE next == c + 1 + k
<1>1. /\ next \in Nat /\ m + 1 \in Nat \ {0} /\ next < 2 * (m + 1)
      /\ m \in Nat /\ c \in Nat /\ k \in Nat /\ k <= MaxLoss /\ MaxLoss \in Nat
  OBVIOUS
<1>2. CASE next < m + 1
  <2>1. After(c, k, m) = next
    BY <1>1, <1>2, ModBelow
  <2> HIDE DEF After
  <2>2. QED BY <1>1, <2>1
<1>3. CASE m + 1 <= next
  <2>1. After(c, k, m) = c + k - m
    <3>1. After(c, k, m) = next - (m + 1)
      BY <1>1, <1>3, ModAbove
    <3> HIDE DEF After
    <3>2. QED BY <1>1, <3>1
  <2> HIDE DEF After
  <2>2. QED BY <1>1, <1>3, <2>1
<1>4. QED BY <1>1, <1>2, <1>3

(* How far the counter is from where it would be without the loss.         *)
LEMMA AfterIs ==
  ASSUME LossIsBounded,
         NEW m \in {Max80p, Max256p}, NEW c \in 0..m, NEW k \in 0..MaxLoss
  PROVE  After(c, k, m) - (c + 1) = IF c + 1 + k > m THEN k - (m + 1) ELSE k
<1> DEFINE next == c + 1 + k
<1>1. /\ next \in Nat /\ m + 1 \in Nat \ {0} /\ next < 2 * (m + 1)
      /\ m \in Nat /\ c \in Nat /\ k \in Nat
  BY SmpCountAssumption, ValidatorAssumption DEF LossIsBounded
<1>2. After(c, k, m) = next % (m + 1)
  BY DEF After
<1>3. CASE next < m + 1
  BY <1>1, <1>2, <1>3, ModBelow
<1>4. CASE m + 1 <= next
  <2>1. next % (m + 1) = next - (m + 1)
    BY <1>1, <1>4, ModAbove
  <2> QED
    BY <1>1, <1>2, <1>4, <2>1
<1> QED
  BY <1>1, <1>3, <1>4

(* missedCount is added to modulo 2^32, and the sum is the same as if it   *)
(* were only wrapped once at the end.                                      *)
LEMMA DivMod ==
  ASSUME NEW a \in Int, NEW m \in Nat \ {0}
  PROVE  a \div m \in Int /\ a % m \in 0..(m - 1) /\ a = m * (a \div m) + (a % m)
  OBVIOUS
LEMMA Remainder ==
  ASSUME NEW m \in Nat \ {0}, NEW q \in Int, NEW r \in 0..(m - 1)
  PROVE  (m * q + r) % m = r
  OBVIOUS
LEMMA ModPlus ==
  ASSUME NEW a \in Int, NEW d \in Int, NEW m \in Nat \ {0}
  PROVE  ((a % m) + d) % m = (a + d) % m
<1> DEFINE x == (a % m) + d
<1>1. x \in Int /\ a % m \in Int
  BY DivMod
<1>2. PICK q \in Int, r \in 0..(m - 1) : x = m * q + r
  BY <1>1, DivMod
<1>3. PICK p \in Int : a = m * p + (a % m)
  BY DivMod
<1>4. p + q \in Int /\ a + d = m * (p + q) + r
  <2>1. a + d = m * p + x
    BY <1>1, <1>3
  <2> HIDE DEF x
  <2>2. m * (p + q) = m * p + m * q
    OBVIOUS
  <2>3. m * p \in Int /\ m * q \in Int /\ r \in Int /\ p + q \in Int
    OBVIOUS
  <2> QED
    BY <1>1, <1>2, <2>1, <2>2, <2>3
<1>5. (a + d) % m = r
  BY <1>4, Remainder
<1>6. x % m = r
  BY <1>2, Remainder
<1> QED
  BY <1>5, <1>6

Inv == TypeOK /\ StateTellsLoss

LEMMA InitInv == Init => Inv
<1> SUFFICES ASSUME Init PROVE Inv
  OBVIOUS
<1> USE SmpCountAssumption, ValidatorAssumption DEF Init
<1>1. {gap, lost, cuts, sent, capturedCount} \subseteq Nat
  OBVIOUS
<1>2. max \in Nat /\ 0 \in 0..max /\ 0 \in 0..(CounterMod - 1) /\ 0 \in 0..MaxBatch
  OBVIOUS
<1>3. QED BY <1>1, <1>2 DEF Inv, TypeOK, StateTellsLoss

LEMMA NextType == TypeOK /\ [Next]_vars => TypeOK'
<1> SUFFICES ASSUME TypeOK, [Next]_vars
             PROVE  TypeOK'
  OBVIOUS
<1> USE SmpCountAssumption, ValidatorAssumption DEF TypeOK
<1>1. ASSUME NEW length \in 0..MaxBatch, Update(length) PROVE TypeOK'
  BY <1>1 DEF Update, stream
<1>2. ASSUME NEW smpSync \in 0..max, FirstSample(smpSync) PROVE TypeOK'
  BY <1>2 DEF FirstSample, Validate, Accept, Reject, Capture
<1>3. ASSUME NEW k \in 0..MaxLoss, NextSample(k) PROVE TypeOK'
  <2> DEFINE smpSync == After(capturedSmpSync, k, max)
  <2>1. smpSync \in 0..max
    <3>1. max \in {Max80p, Max256p} /\ capturedSmpSync \in 0..max /\ k \in Nat
      OBVIOUS
    <3>2. QED BY <3>1, AfterInRange
  <2>2. /\ Validate(smpSync) /\ gap' = k
        /\ sent' = sent + 1 + k /\ lost' = lost + k
        /\ cuts' \in {cuts, cuts + 1}
    BY <1>3 DEF NextSample
  <2> HIDE DEF smpSync
  <2>3. CASE Accept(smpSync)
    BY <2>1, <2>2, <2>3 DEF Validate, Accept, Capture
  <2>4. CASE Reject(smpSync)
    <3>1. CASE strategy = "ThrowException"
      BY <2>2, <2>4, <3>1 DEF Validate, Reject
    <3>2. CASE strategy # "ThrowException"
      <4>1. missedCount' \in 0..(CounterMod - 1)
        BY <2>1, <2>4, <3>2 DEF Reject, CountMissed
      <4>2. QED BY <2>1, <2>2, <2>4, <3>2, <4>1 DEF Validate, Reject, Capture
    <3>3. QED BY <3>1, <3>2
  <2>5. QED BY <2>2, <2>3, <2>4 DEF Validate
<1>4. ASSUME NEW newStrategy \in {"ThrowException", "Statistics"}, SetStrategy(newStrategy)
      PROVE  TypeOK'
  BY <1>4 DEF SetStrategy, stream
<1>5. CASE Reset
  BY <1>5 DEF Reset
<1>6. CASE UNCHANGED vars
  BY <1>6 DEF vars, stream
<1>7. QED BY <1>1, <1>2, <1>3, <1>4, <1>5, <1>6 DEF Next

LEMMA NextInv == LossIsBounded /\ Inv /\ [Next]_vars => Inv'
<1> SUFFICES ASSUME LossIsBounded, Inv, [Next]_vars
             PROVE  StateTellsLoss'
  BY NextType DEF Inv
<1> USE DEF Inv, StateTellsLoss
<1>1. ASSUME NEW smpSync \in 0..max, FirstSample(smpSync) PROVE StateTellsLoss'
  BY <1>1 DEF FirstSample, Validate, Accept, Reject
<1>2. ASSUME NEW k \in 0..MaxLoss, NextSample(k) PROVE StateTellsLoss'
  <2>1. Follows(capturedSmpSync, After(capturedSmpSync, k, max)) <=> k = 0
    BY FollowsTellsLoss DEF TypeOK
  <2>2. QED BY <1>2, <2>1 DEF NextSample, Validate, Accept, Reject, TypeOK
<1>3. CASE UNCHANGED vars \/ \E length \in 0..MaxBatch : Update(length)
  BY <1>3 DEF vars, Update, stream
<1>4. CASE Reset \/ \E newStrategy \in {"ThrowException", "Statistics"} : SetStrategy(newStrategy)
  BY <1>4 DEF Reset, SetStrategy, stream
<1>5. QED BY <1>1, <1>2, <1>3, <1>4 DEF Next

(* The counters and the state keep their ranges: missedCount is a u32 and  *)
(* the captured count one of the stream's (validator.cpp), whatever the    *)
(* lengths of the losses.                                                  *)
THEOREM TypeTheorem == Spec => []TypeOK
<1>1. Init => TypeOK
  BY InitInv DEF Inv
<1>2. QED BY <1>1, NextType, PTL DEF Spec

(* After every sample the state says whether samples were lost before it   *)
(* (validator.cpp, validate), whatever the lengths of the two counters.    *)
THEOREM StateTheorem == LossIsBounded => (Spec => []StateTellsLoss)
<1> SUFFICES ASSUME LossIsBounded PROVE Spec => []StateTellsLoss
  OBVIOUS
<1>1. Inv /\ [Next]_vars => Inv'
  BY NextInv
<1>2. Inv => StateTellsLoss
  BY DEF Inv
<1>3. QED BY InitInv, <1>1, <1>2, PTL DEF Spec

(* With ThrowException the count captured last moves on only to its        *)
(* neighbour in the stream.                                                *)
THEOREM StrictTheorem == LossIsBounded => (Spec => StrictIsContiguous)
<1> SUFFICES ASSUME LossIsBounded PROVE Spec => StrictIsContiguous
  OBVIOUS
<1> DEFINE Contiguous == strategy = "ThrowException" /\ state # "Initial"
                           /\ capturedSmpSync' # capturedSmpSync => gap' = 0
<1>1. Inv /\ [Next]_vars => Inv'
  BY NextInv
<1>2. Inv /\ [Next]_vars => [Contiguous]_vars
  <2> SUFFICES ASSUME Inv, Next, strategy = "ThrowException", state # "Initial",
                      capturedSmpSync' # capturedSmpSync
               PROVE  gap' = 0
    BY DEF vars
  <2>1. PICK k \in 0..MaxLoss : NextSample(k)
    BY DEF Next, Update, FirstSample, SetStrategy, Reset
  <2>2. Accept(After(capturedSmpSync, k, max))
    BY <2>1 DEF NextSample, Validate, Reject
  <2>3. k = 0
    BY <2>2, FollowsTellsLoss DEF Accept, Inv, TypeOK
  <2>4. QED BY <2>1, <2>3 DEF NextSample
<1>3. QED BY InitInv, <1>1, <1>2, PTL DEF Spec, StrictIsContiguous

(* One loss more or less: the samples lost since the last reset, less one  *)
(* turn for each cut, move on as missedCount does.                         *)
LEMMA NextMissed ==
  LossIsBounded /\ Inv /\ MissedIsLostLessTurns /\ [Next]_vars => MissedIsLostLessTurns'
<1> SUFFICES ASSUME LossIsBounded, Inv, MissedIsLostLessTurns, [Next]_vars, ~thrown'
             PROVE  missedCount' = (lost' - cuts' * (max' + 1)) % CounterMod
  BY DEF MissedIsLostLessTurns
<1> USE DEF MissedIsLostLessTurns
<1>1. ASSUME NEW smpSync \in 0..max, FirstSample(smpSync)
      PROVE  missedCount' = (lost' - cuts' * (max' + 1)) % CounterMod
  BY <1>1 DEF FirstSample, Validate, Accept, Reject
<1>2. ASSUME NEW k \in 0..MaxLoss, NextSample(k)
      PROVE  missedCount' = (lost' - cuts' * (max' + 1)) % CounterMod
  <2> DEFINE smpSync == After(capturedSmpSync, k, max)
             owed    == lost - cuts * (max + 1)
             step    == smpSync - (capturedSmpSync + 1)
  <2>1. /\ max \in Nat /\ capturedSmpSync \in 0..max /\ lost \in Nat /\ cuts \in Nat /\ k \in Nat
        /\ CounterMod \in Nat \ {0} /\ smpSync \in 0..max
    <3>1. smpSync \in 0..max
      <4>1. max \in {Max80p, Max256p} /\ capturedSmpSync \in 0..max /\ k \in Nat
        BY ValidatorAssumption DEF Inv, TypeOK
      <4> QED
        BY <4>1, AfterInRange
    <3> QED
      BY <3>1, SmpCountAssumption, ValidatorAssumption DEF Inv, TypeOK
  <2>2. step = IF capturedSmpSync + 1 + k > max THEN k - (max + 1) ELSE k
    BY AfterIs DEF Inv, TypeOK
  <2>3. Follows(capturedSmpSync, smpSync) <=> k = 0
    BY FollowsTellsLoss DEF Inv, TypeOK
  <2>4. /\ state # "Initial" /\ ~thrown /\ Validate(smpSync) /\ lost' = lost + k /\ max' = max
        /\ cuts' = IF k > 0 /\ capturedSmpSync + 1 + k > max THEN cuts + 1 ELSE cuts
    BY <1>2 DEF NextSample, Validate
  <2>5. missedCount = owed % CounterMod
    BY <2>4
  <2>6. CASE k = 0
    <3>1. missedCount' = missedCount
      BY <2>3, <2>4, <2>6 DEF Validate, Accept, Reject
    <3>2. lost' - cuts' * (max' + 1) = owed
      BY <2>1, <2>4, <2>6
    <3> QED
      BY <2>5, <3>1, <3>2
  <2>7. CASE k # 0
    <3>1. missedCount' = (missedCount + step) % CounterMod
      <4> HIDE DEF smpSync
      <4> QED
        BY <2>3, <2>4, <2>7 DEF Validate, Accept, Reject, CountMissed
    <3>2. lost' - cuts' * (max' + 1) = owed + step
      <4>1. (cuts + 1) * (max + 1) = cuts * (max + 1) + (max + 1)
        BY <2>1
      <4>2. cuts * (max + 1) \in Int
        BY <2>1
      <4> HIDE DEF smpSync
      <4> QED
        BY <2>1, <2>2, <2>4, <2>7, <4>1, <4>2
    <3>3. owed \in Int /\ step \in Int
      BY <2>1
    <3> HIDE DEF owed, step
    <3> QED
      BY <2>1, <2>5, <3>1, <3>2, <3>3, ModPlus
  <2> QED
    BY <2>6, <2>7
<1>3. CASE Reset
  <2>1. missedCount' = 0 /\ lost' = 0 /\ cuts' = 0 /\ max' + 1 \in Nat
    BY <1>3, SmpCountAssumption DEF Reset, Inv, TypeOK
  <2>2. lost' - cuts' * (max' + 1) = 0 /\ 0 % CounterMod = 0
    BY <2>1, ValidatorAssumption
  <2> QED
    BY <2>1, <2>2
<1>4. CASE UNCHANGED vars \/ \E length \in 0..MaxBatch : Update(length)
  BY <1>4 DEF vars, Update, stream
<1>5. CASE \E newStrategy \in {"ThrowException", "Statistics"} : SetStrategy(newStrategy)
  BY <1>5 DEF SetStrategy, stream
<1> QED
  BY <1>1, <1>2, <1>3, <1>4, <1>5 DEF Next

(* What missedCount says of the stream, modulo 2^32, for counters and      *)
(* losses of any such length (validator.cpp, validate and reset).          *)
THEOREM MissedTheorem == LossIsBounded => (Spec => []MissedIsLostLessTurns)
<1> SUFFICES ASSUME LossIsBounded PROVE Spec => []MissedIsLostLessTurns
  OBVIOUS
<1>1. Inv /\ [Next]_vars => Inv'
  BY NextInv
<1>2. Inv /\ MissedIsLostLessTurns /\ [Next]_vars => MissedIsLostLessTurns'
  BY NextMissed
<1>3. Init => MissedIsLostLessTurns
  <2> SUFFICES ASSUME Init PROVE missedCount = (lost - cuts * (max + 1)) % CounterMod
    BY DEF MissedIsLostLessTurns
  <2>1. missedCount = 0 /\ lost = 0 /\ cuts = 0 /\ max + 1 \in Nat
    BY SmpCountAssumption DEF Init
  <2>2. lost - cuts * (max + 1) = 0 /\ 0 % CounterMod = 0
    BY <2>1, ValidatorAssumption
  <2> QED
    BY <2>1, <2>2
<1>4. QED BY InitInv, <1>1, <1>2, <1>3, PTL DEF Spec
=============================================================================
