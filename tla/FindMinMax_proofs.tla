------------------------- MODULE FindMinMax_proofs --------------------------
(***************************************************************************)
(* Proofs about findMinMax, for any number of signals and points and any   *)
(* samples that FindMinMaxAssumption allows.                               *)
(***************************************************************************)
EXTENDS FindMinMax, FiniteSetTheorems, TLAPS

(* Time for every leaf on a machine that is busy with other things.        *)
USE SMTT(60), ZenonT(60)

LEMMA MinIs == ASSUME NEW S \in SUBSET Int, NEW x \in S, \A y \in S : x <= y PROVE Min(S) = x
<1>1. \A z \in S : (\A y \in S : z <= y) => z = x
  OBVIOUS
<1> QED
  BY <1>1 DEF Min

LEMMA MaxIs == ASSUME NEW S \in SUBSET Int, NEW x \in S, \A y \in S : x >= y PROVE Max(S) = x
<1>1. \A z \in S : (\A y \in S : z >= y) => z = x
  OBVIOUS
<1> QED
  BY <1>1 DEF Max

-----------------------------------------------------------------------------
(* How many points the first loop has seen.                                *)
Seen == IF pc = "extremes" THEN index ELSE size

ArgumentInv ==
  /\ size \in Nat \ {0}
  /\ points \in [0..(size - 1) -> [Signal -> Samples]]
  /\ index \in Nat
  /\ pc = "extremes" => index <= size

(* The least value seen, and the greatest one that rises above zero.       *)
ArraysInv ==
  /\ minArray \in [Signal -> Int] /\ maxArray \in [Signal -> Int]
  /\ \A s \in Signal :
       /\ \A i \in 0..(Seen - 1) : minArray[s] <= points[i][s] /\ points[i][s] <= maxArray[s]
       /\ IF Seen = 0 THEN minArray[s] = f32max ELSE \E i \in 0..(Seen - 1) : minArray[s] = points[i][s]
       /\ \/ maxArray[s] = f32min
          \/ maxArray[s] > f32min /\ \E i \in 0..(Seen - 1) : maxArray[s] = points[i][s]

ExtremesInv == ArgumentInv /\ ArraysInv

LEMMA InitExtremes == Init => ExtremesInv
  BY FindMinMaxAssumption DEF Init, ExtremesInv, ArgumentInv, ArraysInv, Seen, f32min, f32max

LEMMA ASample ==
  ASSUME ArgumentInv, NEW i \in 0..(size - 1), NEW s \in Signal
  PROVE  points[i][s] \in Samples /\ points[i][s] \in Int /\ points[i][s] < f32max
         /\ points[i][s] # f32min /\ points[i][s] # -f32min
  BY FindMinMaxAssumption DEF ArgumentInv

LEMMA ExtremesTurn == ASSUME ExtremesInv, Extremes PROVE ArraysInv'
<1>1. /\ index \in 0..(size - 1) /\ Seen = index /\ Seen' = index + 1
      /\ index \in Nat /\ index' = index + 1 /\ UNCHANGED <<size, points>>
  BY DEF Extremes, Seen, ExtremesInv, ArgumentInv
<1>2. \A s \in Signal : /\ points[index][s] \in Int /\ points[index][s] < f32max
                        /\ points[index][s] # f32min
  BY <1>1, ASample DEF ExtremesInv
<1>3. /\ minArray' = [s \in Signal |-> Smaller(minArray[s], points[index][s])]
      /\ maxArray' = [s \in Signal |-> Larger(maxArray[s], points[index][s])]
      /\ minArray' \in [Signal -> Int] /\ maxArray' \in [Signal -> Int]
  BY <1>2 DEF Extremes, Smaller, Larger, ExtremesInv, ArraysInv
<1>4. ASSUME NEW s \in Signal
      PROVE  /\ \A i \in 0..index : minArray'[s] <= points[i][s] /\ points[i][s] <= maxArray'[s]
             /\ \E i \in 0..index : minArray'[s] = points[i][s]
             /\ \/ maxArray'[s] = f32min
                \/ maxArray'[s] > f32min /\ \E i \in 0..index : maxArray'[s] = points[i][s]
  <2> DEFINE v == points[index][s]
  <2>1. /\ v \in Int /\ v < f32max /\ v # f32min
        /\ minArray[s] \in Int /\ maxArray[s] \in Int
        /\ minArray'[s] = Smaller(minArray[s], v) /\ maxArray'[s] = Larger(maxArray[s], v)
    BY <1>2, <1>3 DEF ExtremesInv, ArraysInv
  <2>2. /\ \A i \in 0..(index - 1) : minArray[s] <= points[i][s] /\ points[i][s] <= maxArray[s]
        /\ \A i \in 0..(index - 1) : points[i][s] \in Int
    BY <1>1, ASample DEF ExtremesInv, ArraysInv, ArgumentInv
  <2>3. /\ minArray'[s] <= minArray[s] /\ minArray'[s] <= v
        /\ maxArray[s] <= maxArray'[s] /\ v <= maxArray'[s]
        /\ minArray'[s] \in {minArray[s], v} /\ maxArray'[s] \in {maxArray[s], v}
    BY <2>1 DEF Smaller, Larger
  <2>4. \A i \in 0..index : i = index \/ i \in 0..(index - 1)
    BY <1>1
  <2>5. \A i \in 0..index : minArray'[s] <= points[i][s] /\ points[i][s] <= maxArray'[s]
    <3> TAKE i \in 0..index
    <3>1. CASE i = index
      BY <2>3, <3>1
    <3>2. CASE i \in 0..(index - 1)
      BY <2>1, <2>2, <2>3, <3>2
    <3> QED
      BY <2>4, <3>1, <3>2
  <2>6. \E i \in 0..index : minArray'[s] = points[i][s]
    <3>1. CASE minArray'[s] = v
      BY <1>1, <3>1
    <3>2. CASE minArray'[s] # v
      <4>1. minArray'[s] = minArray[s] /\ index # 0
        BY <1>1, <2>1, <2>3, <3>2 DEF Smaller, ExtremesInv, ArraysInv
      <4>2. PICK i \in 0..(index - 1) : minArray[s] = points[i][s]
        BY <1>1, <4>1 DEF ExtremesInv, ArraysInv
      <4>3. i \in 0..index
        BY <1>1
      <4> QED
        BY <4>1, <4>2, <4>3
    <3> QED
      BY <3>1, <3>2
  <2>7. \/ maxArray'[s] = f32min
        \/ maxArray'[s] > f32min /\ \E i \in 0..index : maxArray'[s] = points[i][s]
    <3>1. \/ maxArray[s] = f32min
          \/ maxArray[s] > f32min /\ \E i \in 0..(index - 1) : maxArray[s] = points[i][s]
      BY <1>1 DEF ExtremesInv, ArraysInv
    <3>2. CASE maxArray'[s] = v
      <4>1. v >= f32min
        BY <2>1, <2>3, <3>1, <3>2 DEF f32min
      <4>2. v > f32min
        BY <2>1, <4>1 DEF f32min
      <4> QED
        BY <1>1, <3>2, <4>2
    <3>3. CASE maxArray'[s] = maxArray[s]
      <4>1. \A i \in 0..(index - 1) : i \in 0..index
        BY <1>1
      <4> QED
        BY <3>1, <3>3, <4>1
    <3> QED
      BY <2>3, <3>2, <3>3
  <2> QED
    BY <2>5, <2>6, <2>7
<1>5. (index + 1) - 1 = index /\ index + 1 # 0
  BY <1>1
<1> QED
  BY <1>1, <1>3, <1>4, <1>5 DEF ArraysInv

LEMMA NextExtremes == ExtremesInv /\ [Next]_vars => ExtremesInv'
<1> SUFFICES ASSUME ExtremesInv, [Next]_vars PROVE ExtremesInv'
  OBVIOUS
<1>1. CASE Extremes
  <2>1. ArgumentInv'
    BY <1>1 DEF Extremes, ExtremesInv, ArgumentInv
  <2> QED
    BY <1>1, <2>1, ExtremesTurn DEF ExtremesInv
<1>2. CASE ~Extremes
  <2>1. UNCHANGED <<size, points, minArray, maxArray>>
    BY <1>2 DEF Next, Select, Sign, Periods, Report, Leave, vars
  <2>2. ArgumentInv'
    BY <1>2, <2>1, FindMinMaxAssumption
       DEF Next, Select, Sign, Periods, Report, Leave, vars, ExtremesInv, ArgumentInv
  <2>3. Seen' = Seen
    BY <1>2, <2>1 DEF Next, Select, Sign, Periods, Report, Leave, vars, Seen, ExtremesInv, ArgumentInv
  <2> QED
    BY <2>1, <2>2, <2>3 DEF ExtremesInv, ArraysInv
<1> QED
  BY <1>1, <1>2


(* Once the first loop is over.                                            *)
LEMMA ExtremesFound ==
  ASSUME ExtremesInv, pc # "extremes", NEW s \in Signal
  PROVE  /\ minArray[s] = Min(Values(s)) /\ minArray[s] \in Samples
         /\ maxArray[s] = Max({f32min} \cup Values(s))
         /\ \/ maxArray[s] = f32min /\ minArray[s] <= 0 /\ Swing(s) = 0 - minArray[s]
            \/ /\ maxArray[s] \in Samples /\ maxArray[s] > f32min /\ minArray[s] <= maxArray[s]
               /\ Swing(s) = maxArray[s] - minArray[s]
<1>1. Seen = size /\ size \in Nat \ {0}
  BY DEF Seen, ExtremesInv, ArgumentInv
<1>2. \A v \in Values(s) : v \in Samples /\ v \in Int /\ v # f32min
  BY ASample DEF Values, ExtremesInv
<1>3. \A v \in Values(s) : minArray[s] <= v /\ v <= maxArray[s]
  BY <1>1 DEF Values, ExtremesInv, ArraysInv
<1>4. minArray[s] \in Values(s)
  BY <1>1 DEF Values, ExtremesInv, ArraysInv
<1>5. minArray[s] = Min(Values(s))
  BY <1>2, <1>3, <1>4, MinIs
<1>6. maxArray[s] \in Int /\ (maxArray[s] = f32min \/ (maxArray[s] > f32min /\ maxArray[s] \in Values(s)))
  <2>1. /\ maxArray[s] \in Int
        /\ \/ maxArray[s] = f32min
           \/ maxArray[s] > f32min /\ \E i \in 0..(Seen - 1) : maxArray[s] = points[i][s]
    BY DEF ExtremesInv, ArraysInv
  <2>2. ASSUME NEW i \in 0..(Seen - 1) PROVE points[i][s] \in Values(s)
    BY <1>1 DEF Values
  <2>3. CASE maxArray[s] = f32min
    BY <2>1, <2>3
  <2>4. CASE maxArray[s] # f32min
    <3>1. PICK i \in 0..(Seen - 1) : maxArray[s] = points[i][s]
      BY <2>1, <2>4
    <3>2. maxArray[s] \in Values(s)
      BY <2>2, <3>1
    <3> QED
      BY <2>1, <2>4, <3>2
  <2> QED
    BY <2>3, <2>4
<1>7. maxArray[s] = Max({f32min} \cup Values(s))
  <2>1. {f32min} \cup Values(s) \in SUBSET Int /\ maxArray[s] \in {f32min} \cup Values(s)
    BY <1>2, <1>6 DEF f32min
  <2>2. \A v \in {f32min} \cup Values(s) : maxArray[s] >= v
    BY <1>2, <1>3, <1>6 DEF f32min
  <2> QED
    BY <2>1, <2>2, MaxIs
<1>8. {0} \cup Values(s) \in SUBSET Int
  BY <1>2
<1>9. CASE maxArray[s] = f32min
  <2>1. \A v \in {0} \cup Values(s) : 0 >= v
    BY <1>2, <1>3, <1>9 DEF f32min
  <2>2. Max({0} \cup Values(s)) = 0 /\ minArray[s] <= 0
    BY <1>2, <1>4, <1>8, <2>1, MaxIs
  <2> QED
    BY <1>2, <1>4, <1>5, <1>7, <1>9, <2>2 DEF Swing
<1>10. CASE maxArray[s] > f32min /\ maxArray[s] \in Values(s)
  <2>1. \A v \in {0} \cup Values(s) : maxArray[s] >= v
    BY <1>2, <1>3, <1>6, <1>10 DEF f32min
  <2>2. Max({0} \cup Values(s)) = maxArray[s]
    BY <1>8, <1>10, <2>1, MaxIs
  <2> QED
    BY <1>2, <1>3, <1>4, <1>5, <1>7, <1>10, <2>2 DEF Swing
<1> QED
  BY <1>6, <1>9, <1>10

(* The least and the greatest values of any number of points are found, of *)
(* every signal, but for the greatest value below zero:                    *)
(* numeric_limits<f32>::min() is not the least number (processing.cpp,     *)
(* findMinMax).                                                            *)
THEOREM ExtremesTheorem == Spec => []ExtremesFromZero
<1>1. ExtremesInv => ExtremesFromZero
  BY ExtremesFound DEF ExtremesFromZero, Reported
<1> QED
  BY <1>1, InitExtremes, NextExtremes, PTL DEF Spec

-----------------------------------------------------------------------------
(* The second loop: how many signals it has compared.                      *)
Compared == IF pc = "extremes" THEN 0 ELSE IF pc = "select" THEN index ELSE Signals

SelectInv ==
  /\ pc \in {"extremes", "select", "sign", "periods", "report", "returned", "printed"}
  /\ selected \in Signal /\ magnitude \in Int /\ adcSum \in [Signal -> Int]
  /\ pc = "extremes" => selected = 0 /\ magnitude = f32min
  /\ pc = "select" => index <= Signals
  /\ \/ /\ magnitude = f32min /\ selected = 0
        /\ \A s \in Signal : s < Compared => Swing(s) = 0
     \/ /\ magnitude = Swing(selected) /\ magnitude > f32min /\ selected < Compared
        /\ \A s \in Signal : s < Compared =>
             Swing(s) <= magnitude /\ (s < selected => Swing(s) < magnitude)

LEMMA InitSelect == Init => SelectInv
  BY FindMinMaxAssumption DEF Init, SelectInv, Compared, Signal, f32min

(* The difference the code compares is the swing, or f32min for a signal   *)
(* that is never anything but zero; that beats no other.                   *)
LEMMA SwingIs ==
  ASSUME ExtremesInv, pc # "extremes", NEW s \in Signal
  PROVE  /\ LET diff == Plus(maxArray[s], -minArray[s]) IN
            diff = Swing(s) \/ (diff = f32min /\ Swing(s) = 0)
         /\ Swing(s) \in Int /\ (Swing(s) <= f32min => Swing(s) = 0)
<1> DEFINE x == maxArray[s]
           n == minArray[s]
<1>1. /\ n \in Samples
      /\ \/ x = f32min /\ n <= 0 /\ Swing(s) = 0 - n
         \/ x \in Samples /\ x > f32min /\ n <= x /\ Swing(s) = x - n
  BY ExtremesFound
<1>2. n \in Int /\ n # f32min /\ n # -f32min
  BY <1>1, FindMinMaxAssumption
<1>3. CASE x = f32min /\ n <= 0 /\ Swing(s) = 0 - n
  <2> HIDE DEF x, n
  <2>1. Plus(x, -n) = Swing(s) \/ (Plus(x, -n) = f32min /\ Swing(s) = 0)
    BY <1>2, <1>3 DEF Plus, f32min
  <2>2. Swing(s) \in Int /\ (Swing(s) <= f32min => Swing(s) = 0)
    BY <1>2, <1>3 DEF f32min
  <2> QED
    BY <2>1, <2>2 DEF x, n
<1>4. CASE x \in Samples /\ x > f32min /\ n <= x /\ Swing(s) = x - n
  <2>1. x \in Int /\ x - n # f32min
    BY <1>1, <1>4, FindMinMaxAssumption
  <2> HIDE DEF x, n
  <2>2. Plus(x, -n) = Swing(s) /\ Swing(s) \in Int /\ (Swing(s) <= f32min => Swing(s) = 0)
    BY <1>2, <1>4, <2>1 DEF Plus, f32min
  <2> QED
    BY <2>2 DEF x, n
<1> QED
  BY <1>1, <1>3, <1>4

LEMMA PlusType == ASSUME NEW x \in Int, NEW y \in Int PROVE Plus(x, y) \in Int
  BY DEF Plus

LEMMA SelectTurn == ASSUME ExtremesInv, SelectInv, Select PROVE SelectInv'
<1>1. /\ pc = "select" /\ index \in Signal /\ Compared = index /\ Compared' = index + 1
      /\ pc' = "select" /\ index' = index + 1 /\ UNCHANGED <<size, points>>
  BY FindMinMaxAssumption DEF Select, Signal, Compared, ExtremesInv, ArgumentInv
<1> DEFINE diff == Plus(maxArray[index], -minArray[index])
<1>2. diff \in Int /\ Plus(maxArray[index], minArray[index]) \in Int
  <2>1. maxArray[index] \in Int /\ minArray[index] \in Int /\ -minArray[index] \in Int
    BY <1>1 DEF ExtremesInv, ArraysInv
  <2> QED
    BY <2>1, PlusType
<1>3. selected' \in Signal /\ magnitude' \in Int /\ adcSum' \in [Signal -> Int]
  BY <1>1, <1>2 DEF Select, SelectInv
<1>4. \A s \in Signal : Values(s)' = Values(s) /\ Swing(s)' = Swing(s)
  BY <1>1 DEF Values, Swing
<1>5. \/ /\ magnitude' = f32min /\ selected' = 0
         /\ \A s \in Signal : s < index + 1 => Swing(s) = 0
      \/ /\ magnitude' = Swing(selected') /\ magnitude' > f32min /\ selected' < index + 1
         /\ \A s \in Signal : s < index + 1 =>
              Swing(s) <= magnitude' /\ (s < selected' => Swing(s) < magnitude')
  <2>1. diff = Swing(index) \/ (diff = f32min /\ Swing(index) = 0)
    BY <1>1, SwingIs
  <2>2. \A s \in Signal : Swing(s) \in Int /\ (Swing(s) <= f32min => Swing(s) = 0)
    BY <1>1, SwingIs
  <2>3. \A s \in Signal : s < index + 1 => s = index \/ s < index
    BY <1>1 DEF Signal
  <2>4. \/ diff > magnitude /\ selected' = index /\ magnitude' = diff
        \/ ~(diff > magnitude) /\ UNCHANGED <<selected, magnitude>>
    BY DEF Select, Beats
  <2>5. selected \in Signal /\ magnitude \in Int
    BY DEF SelectInv
  <2>6. CASE magnitude = f32min /\ selected = 0 /\ \A s \in Signal : s < index => Swing(s) = 0
    BY <1>1, <1>2, <2>1, <2>2, <2>3, <2>4, <2>6 DEF f32min, Signal
  <2>7. CASE /\ magnitude = Swing(selected) /\ magnitude > f32min /\ selected < index
             /\ \A s \in Signal : s < index =>
                  Swing(s) <= magnitude /\ (s < selected => Swing(s) < magnitude)
    BY <1>1, <1>2, <2>1, <2>2, <2>3, <2>4, <2>5, <2>7 DEF f32min, Signal
  <2> QED
    BY <1>1, <2>6, <2>7 DEF SelectInv
<1>6. index + 1 <= Signals
  BY <1>1, FindMinMaxAssumption DEF Signal
<1> QED
  BY <1>1, <1>3, <1>4, <1>5, <1>6 DEF SelectInv

LEMMA NextSelect == ExtremesInv /\ SelectInv /\ [Next]_vars => SelectInv'
<1> SUFFICES ASSUME ExtremesInv, SelectInv, [Next]_vars PROVE SelectInv'
  OBVIOUS
<1>1. CASE Select
  BY <1>1, SelectTurn
<1>2. CASE ~Select
  <2>1. UNCHANGED <<size, points, magnitude, selected, adcSum>>
    BY <1>2 DEF Next, Extremes, Sign, Periods, Report, Leave, vars
  <2>2. \A s \in Signal : Values(s)' = Values(s) /\ Swing(s)' = Swing(s)
    BY <2>1 DEF Values, Swing
  <2>3. Swing(selected)' = Swing(selected)
    BY <2>1, <2>2 DEF SelectInv
  <2>4. \/ pc = "extremes" /\ pc' = "extremes"
        \/ pc = "extremes" /\ pc' = "select" /\ index' = 0
        \/ pc = "select" /\ pc' = "select" /\ index' = index
        \/ pc = "select" /\ pc' = "sign" /\ index >= Signals
        \/ {pc, pc'} \subseteq {"sign", "periods", "report", "returned", "printed"}
    <3>1. CASE Periods
      <4>1. pc = "periods" /\ pc' \in {"periods", "report"}
        BY <3>1 DEF Periods
      <4> QED
        BY <4>1
    <3>2. CASE Extremes \/ Sign \/ Report
      BY <3>2 DEF Extremes, Sign, Report
    <3>3. CASE Leave("extremes", size, "select", 0)
      BY <3>3 DEF Leave
    <3>4. CASE Leave("select", Signals, "sign", 0)
      BY <3>4 DEF Leave
    <3>5. CASE Leave("periods", size, "report", index)
      BY <3>5 DEF Leave
    <3>6. CASE UNCHANGED vars
      BY <3>6 DEF vars, SelectInv
    <3> QED
      BY <1>2, <3>1, <3>2, <3>3, <3>4, <3>5, <3>6 DEF Next
  <2>5. Compared' = Compared
    <3>1. pc = "select" => index \in Nat /\ index <= Signals
      BY DEF SelectInv, ExtremesInv, ArgumentInv
    <3>2. Signals \in Nat
      BY FindMinMaxAssumption
    <3>3. CASE pc = "extremes"
      BY <2>4, <3>3 DEF Compared
    <3>4. CASE pc = "select"
      BY <2>4, <3>1, <3>2, <3>4 DEF Compared
    <3>5. CASE pc \notin {"extremes", "select"}
      BY <2>4, <3>5 DEF Compared
    <3> QED
      BY <3>3, <3>4, <3>5
  <2>6. pc' = "select" => index' <= Signals
    BY <2>4, FindMinMaxAssumption DEF SelectInv
  <2> QED
    BY <2>1, <2>2, <2>3, <2>4, <2>5, <2>6 DEF SelectInv
<1> QED
  BY <1>1, <1>2

(* Of any number of signals, the one whose zero crossings are looked for   *)
(* is the first with the largest swing, zero counted as one of its values  *)
(* (processing.cpp, the loop over diff).                                   *)
THEOREM SelectedTheorem == Spec => []SelectedSwingsMost
<1>1. ExtremesInv /\ SelectInv => SelectedSwingsMost
  <2> SUFFICES ASSUME ExtremesInv, SelectInv, Reported, NEW s \in Signal
               PROVE  Swing(s) <= Swing(selected) /\ (s < selected => Swing(s) < Swing(selected))
    BY DEF SelectedSwingsMost
  <2>1. pc # "extremes" /\ Compared = Signals /\ s < Signals /\ s \in Nat /\ selected \in Signal
    BY FindMinMaxAssumption DEF Reported, Compared, Signal, SelectInv
  <2>2. Swing(s) \in Int /\ Swing(selected) \in Int
    BY <2>1, SwingIs
  <2>3. selected < Signals
    BY <2>1, FindMinMaxAssumption DEF Signal
  <2> QED
    BY <2>1, <2>2, <2>3 DEF SelectInv
<1> QED
  BY <1>1, InitExtremes, NextExtremes, InitSelect, NextSelect, PTL DEF Spec

-----------------------------------------------------------------------------
(* The third loop.                                                         *)
UpTo(n) == {i \in Opposite : i < n}

PeriodsInv ==
  /\ period_index \in 0..3 /\ periods \in [1..3 -> Int]
  /\ pc \in {"extremes", "select", "sign"} => period_index = 0
  /\ pc \notin {"extremes", "select", "sign"} => sign = SideOf(Position(0))
  /\ pc = "periods" => index >= 1 /\ period_index < 3 /\ period_index = Cardinality(UpTo(index))
  /\ pc \in {"report", "returned", "printed"} => period_index = Smaller(3, Cardinality(Opposite))
  /\ \A k \in 1..3 :
       IF k > period_index
         THEN periods[k] = NoPeriod
         ELSE periods[k] \in Opposite /\ Cardinality(UpTo(periods[k])) = k - 1
  /\ pc = "printed" => period_index = 3
  /\ pc = "returned" => period_index < 3

LEMMA PositionType ==
  ASSUME ExtremesInv, SelectInv, NEW i \in 0..(size - 1) PROVE Position(i) \in Int
<1>1. points[i][selected] \in Int /\ adcSum[selected] \in Int
  BY ASample DEF ExtremesInv, SelectInv
<1> QED
  <2>1. 2 * points[i][selected] \in Int /\ -adcSum[selected] \in Int
    BY <1>1
  <2> QED
    BY <2>1, PlusType DEF Position

LEMMA OppositeFinite ==
  ASSUME ExtremesInv, NEW n
  PROVE  /\ IsFiniteSet(Opposite) /\ Cardinality(Opposite) \in Nat
         /\ IsFiniteSet(UpTo(n)) /\ Cardinality(UpTo(n)) \in Nat
         /\ Cardinality(UpTo(n)) <= Cardinality(Opposite)
<1>1. IsFiniteSet(1..(size - 1))
  BY FS_Interval DEF ExtremesInv, ArgumentInv
<1>2. Opposite \in SUBSET (1..(size - 1)) /\ UpTo(n) \in SUBSET Opposite
  BY DEF Opposite, UpTo
<1>3. IsFiniteSet(Opposite)
  BY <1>1, <1>2, FS_Subset
<1> QED
  BY <1>2, <1>3, FS_Subset, FS_CardinalityType

(* A point changes the sign exactly when it is on the other side.          *)
LEMMA TurnIsOpposite ==
  ASSUME ExtremesInv, SelectInv, sign = SideOf(Position(0)), NEW i \in 1..(size - 1)
  PROVE  Position(i) * sign < 0 <=> i \in Opposite
<1>1. 0 \in 0..(size - 1) /\ i \in 0..(size - 1)
  BY DEF ExtremesInv, ArgumentInv
<1>2. Position(0) \in Int /\ Position(i) \in Int
  BY <1>1, PositionType
<1>3. i \in Opposite <=> IF Position(0) < 0 THEN Position(i) > 0 ELSE Position(i) < 0
  BY DEF Opposite
<1>4. CASE Position(0) < 0
  BY <1>2, <1>3, <1>4 DEF SideOf
<1>5. CASE ~(Position(0) < 0)
  BY <1>2, <1>3, <1>5 DEF SideOf
<1> QED
  BY <1>4, <1>5

LEMMA PeriodsTurn ==
  ASSUME ExtremesInv, SelectInv, PeriodsInv, Periods PROVE PeriodsInv'
<1>1. /\ pc = "periods" /\ index \in 1..(size - 1) /\ index' = index + 1 /\ index \in Nat
      /\ UNCHANGED <<size, points, selected, adcSum, sign>>
  BY DEF Periods, ExtremesInv, ArgumentInv, PeriodsInv
<1>2. Opposite' = Opposite /\ Position(0)' = Position(0) /\ sign = SideOf(Position(0))
  BY <1>1 DEF Opposite, Position, PeriodsInv
<1>3. \A n : UpTo(n)' = UpTo(n')
  BY <1>2 DEF UpTo
<1>4. /\ Cardinality(Opposite) \in Nat /\ IsFiniteSet(UpTo(index))
      /\ Cardinality(UpTo(index + 1)) <= Cardinality(Opposite)
  BY OppositeFinite
<1>5. period_index \in 0..2 /\ period_index = Cardinality(UpTo(index))
  BY <1>1 DEF PeriodsInv
<1>6. CASE index \in Opposite
  <2>1. /\ periods' = [periods EXCEPT ![period_index + 1] = index]
        /\ period_index' = period_index + 1
        /\ pc' = IF period_index' = 3 THEN "report" ELSE pc
    BY <1>1, <1>2, <1>6, TurnIsOpposite DEF Periods
  <2>2. UpTo(index + 1) = UpTo(index) \cup {index} /\ index \notin UpTo(index)
    BY <1>1, <1>6 DEF UpTo, Opposite
  <2>3. Cardinality(UpTo(index + 1)) = period_index + 1
    BY <1>4, <1>5, <2>2, FS_AddElement
  <2>4. period_index' = 3 => period_index' = Smaller(3, Cardinality(Opposite))
    BY <1>4, <2>1, <2>3 DEF Smaller
  <2>5. \A k \in 1..3 :
          IF k > period_index'
            THEN periods'[k] = NoPeriod
            ELSE periods'[k] \in Opposite /\ Cardinality(UpTo(periods'[k])) = k - 1
    <3> TAKE k \in 1..3
    <3>1. CASE k = period_index + 1
      BY <1>5, <1>6, <2>1, <3>1 DEF PeriodsInv
    <3>2. CASE k # period_index + 1
      BY <1>5, <2>1, <3>2 DEF PeriodsInv
    <3> QED
      BY <3>1, <3>2
  <2>6. periods' \in [1..3 -> Int] /\ period_index' \in 1..3
    BY <1>1, <1>5, <2>1 DEF PeriodsInv
  <2> QED
    BY <1>1, <1>2, <1>3, <2>1, <2>3, <2>4, <2>5, <2>6 DEF PeriodsInv, UpTo
<1>7. CASE index \notin Opposite
  <2>1. UNCHANGED <<periods, period_index, pc>>
    BY <1>1, <1>2, <1>7, TurnIsOpposite DEF Periods
  <2>2. UpTo(index + 1) = UpTo(index)
    BY <1>1, <1>7 DEF UpTo, Opposite
  <2> QED
    <3>1. UpTo(index)' = UpTo(index)
      BY <1>1, <1>2, <2>2 DEF UpTo
    <3>2. \A k \in 1..3 : UpTo(periods[k])' = UpTo(periods[k])
      BY <1>2, <2>1 DEF UpTo
    <3>3. index' >= 1 /\ SideOf(Position(0))' = SideOf(Position(0))
      BY <1>1, <1>2 DEF SideOf
    <3> QED
      BY <1>1, <1>2, <1>5, <2>1, <3>1, <3>2, <3>3 DEF PeriodsInv
<1> QED
  BY <1>6, <1>7

LEMMA InitPeriods == Init => PeriodsInv
<1> SUFFICES ASSUME Init PROVE PeriodsInv
  OBVIOUS
<1>1. \A k \in 1..3 : periods[k] = NoPeriod
  BY DEF Init
<1>2. periods \in [1..3 -> Int]
  BY DEF Init, NoPeriod
<1> QED
  BY <1>1, <1>2 DEF Init, PeriodsInv

LEMMA NextPeriods == ExtremesInv /\ SelectInv /\ PeriodsInv /\ [Next]_vars => PeriodsInv'
<1> SUFFICES ASSUME ExtremesInv, SelectInv, PeriodsInv, [Next]_vars PROVE PeriodsInv'
  OBVIOUS
<1>1. CASE Extremes \/ Select \/ Leave("extremes", size, "select", 0) \/ Leave("select", Signals, "sign", 0)
  <2>1. /\ UNCHANGED <<periods, period_index, sign>>
        /\ {pc, pc'} \subseteq {"extremes", "select", "sign"}
    BY <1>1 DEF Extremes, Select, Leave
  <2> QED
    BY <2>1 DEF PeriodsInv
<1>2. CASE Sign
  <2>1. /\ pc = "sign" /\ pc' = "periods" /\ index' = 1
        /\ sign' = SideOf(Position(0)) /\ UNCHANGED <<points, selected, adcSum, periods, period_index>>
    BY <1>2 DEF Sign
  <2>2. Position(0)' = Position(0) /\ UpTo(1)' = {} /\ Cardinality({}) = 0
    BY <2>1, FS_EmptySet DEF Position, UpTo, Opposite
  <2> QED
    BY <2>1, <2>2 DEF PeriodsInv, SideOf
<1>3. CASE Periods
  BY <1>3, PeriodsTurn
<1>4. CASE Report
  <2>1. /\ pc = "report" /\ pc' = IF NoPeriod \in {periods[i] : i \in 1..3} THEN "returned" ELSE "printed"
        /\ UNCHANGED <<size, points, selected, adcSum, sign, periods, period_index>>
    BY <1>4 DEF Report
  <2>2. NoPeriod \in {periods[i] : i \in 1..3} <=> period_index < 3
    <3>1. NoPeriod \notin Opposite
      BY DEF Opposite, NoPeriod
    <3>2. \A k \in 1..3 : periods[k] = NoPeriod <=> k > period_index
      BY <3>1 DEF PeriodsInv
    <3> QED
      BY <3>2 DEF PeriodsInv
  <2>3. Opposite' = Opposite /\ Position(0)' = Position(0)
    BY <2>1 DEF Opposite, Position
  <2> QED
    BY <2>1, <2>2, <2>3 DEF PeriodsInv, UpTo
<1>5. CASE Leave("periods", size, "report", index)
  <2>1. /\ pc = "periods" /\ pc' = "report" /\ index >= size
        /\ UNCHANGED <<size, points, selected, adcSum, sign, periods, period_index>>
    BY <1>5 DEF Leave
  <2>2. UpTo(index) = Opposite
    BY <2>1 DEF UpTo, Opposite, ExtremesInv, ArgumentInv
  <2>3. Opposite' = Opposite /\ Position(0)' = Position(0)
    BY <2>1 DEF Opposite, Position
  <2>4. period_index = Smaller(3, Cardinality(Opposite))
    BY <2>1, <2>2 DEF PeriodsInv, Smaller
  <2> QED
    BY <2>1, <2>3, <2>4 DEF PeriodsInv, UpTo
<1>6. CASE UNCHANGED vars
  <2>1. Opposite' = Opposite /\ Position(0)' = Position(0)
    BY <1>6 DEF Opposite, Position, vars
  <2> QED
    BY <1>6, <2>1 DEF PeriodsInv, UpTo, vars
<1> QED
  BY <1>1, <1>2, <1>3, <1>4, <1>5, <1>6 DEF Next

(* The periods of any number of points are the first three on the other    *)
(* side of the middle than point 0, and nothing is reported without three  *)
(* (processing.cpp, the loop over periods and the early returns).          *)
THEOREM PeriodsTheorem == Spec => []PeriodsAreOpposite
<1>1. ExtremesInv /\ PeriodsInv => PeriodsAreOpposite
  <2> SUFFICES ASSUME ExtremesInv, PeriodsInv, Reported PROVE PeriodsAreOpposite
    BY DEF PeriodsAreOpposite
  <2>1. Cardinality(Opposite) \in Nat
    BY OppositeFinite
  <2>2. period_index = Smaller(3, Cardinality(Opposite)) /\ pc \in {"returned", "printed"}
    BY DEF Reported, PeriodsInv
  <2>3. pc = "printed" <=> Cardinality(Opposite) >= 3
    BY <2>1, <2>2 DEF PeriodsInv, Smaller
  <2> QED
    BY <2>2, <2>3 DEF PeriodsAreOpposite, PeriodsInv, UpTo
<1> QED
  BY <1>1, InitExtremes, NextExtremes, InitSelect, NextSelect, InitPeriods, NextPeriods, PTL DEF Spec
=============================================================================
