----------------------------- MODULE FindMinMax -----------------------------
(***************************************************************************)
(* algo::findMinMax (src/iec_core/algo/processing.cpp): the extremes of    *)
(* every signal, the signal with the largest swing, and the points at      *)
(* which it crosses its middle.  A step is one turn of one of the three    *)
(* loops.                                                                  *)
(*                                                                         *)
(* Samples are integers.  Of f32 arithmetic what the code depends on is    *)
(* kept: numeric_limits<f32>::min() is the smallest positive number, not   *)
(* the least one, and is lost when a larger number is added to it.         *)
(***************************************************************************)
EXTENDS Integers, FiniteSets, FiniteSetsExt

CONSTANTS Signals,     \* unitsPerASDU
          Samples,     \* bound: the values of a signal
          MaxPoints    \* bound: points in one call

f32min == 1
f32max == 1000000

ASSUME FindMinMaxAssumption ==
  /\ Signals \in Nat \ {0} /\ MaxPoints \in Nat \ {0}
  /\ \A v \in Samples : v \in Int /\ -f32max < v /\ v < f32max /\ v \notin {f32min, -f32min}
  /\ \A v, w \in Samples : v - w # f32min

Signal == 0..(Signals - 1)
NoPeriod == -1   \* u64max

VARIABLES size, points,          \* the argument, points[0] to points[size - 1]
          minArray, maxArray,
          magnitude, selected,
          adcSum,                \* twice adcMid
          sign, periods, period_index,
          index, pc

vars == <<size, points, minArray, maxArray, magnitude, selected, adcSum, sign, periods,
          period_index, index, pc>>

(* Addition of f32 numbers.                                                *)
Plus(x, y) == IF x # 0 /\ y \in {f32min, -f32min} THEN x
              ELSE IF y # 0 /\ x \in {f32min, -f32min} THEN y
              ELSE x + y

(* The caller passes more than 512 points, so never none.                  *)
Init == /\ size \in 1..MaxPoints
        /\ points \in [0..(size - 1) -> [Signal -> Samples]]
        /\ minArray = [s \in Signal |-> f32max]
        /\ maxArray = [s \in Signal |-> f32min]
        /\ magnitude = f32min /\ selected = 0
        /\ adcSum = [s \in Signal |-> 0]
        /\ sign = 1
        /\ periods = <<NoPeriod, NoPeriod, NoPeriod>> /\ period_index = 0
        /\ index = 0 /\ pc = "extremes"

Smaller(x, y) == IF y < x THEN y ELSE x

(* Mutation: copied, and the comparison not turned.                        *)
LargerCopied(x, y) == IF y < x THEN y ELSE x

Larger(x, y) == IF x < y THEN y ELSE x

Extremes ==
  /\ pc = "extremes" /\ index < size
  /\ minArray' = [s \in Signal |-> Smaller(minArray[s], points[index][s])]
  /\ maxArray' = [s \in Signal |-> Larger(maxArray[s], points[index][s])]
  /\ index' = index + 1
  /\ UNCHANGED <<size, points, magnitude, selected, adcSum, sign, periods, period_index, pc>>

(* One of the for loops ends.                                              *)
Leave(from, end, to, first) ==
  /\ pc = from /\ index >= end
  /\ pc' = to /\ index' = first
  /\ UNCHANGED <<size, points, minArray, maxArray, magnitude, selected, adcSum, sign, periods,
                 period_index>>

(* Mutation: the last of equal swings is taken.                            *)
BeatsOrTies(diff) == diff >= magnitude

Beats(diff) == diff > magnitude

Select ==
  /\ pc = "select" /\ index < Signals
  /\ LET diff == Plus(maxArray[index], -minArray[index]) IN
     IF Beats(diff) THEN selected' = index /\ magnitude' = diff
                         ELSE UNCHANGED <<selected, magnitude>>
  /\ adcSum' = [adcSum EXCEPT ![index] = Plus(maxArray[index], minArray[index])]
  /\ index' = index + 1
  /\ UNCHANGED <<size, points, minArray, maxArray, sign, periods, period_index, pc>>

(* Twice position.                                                         *)
Position(i) == Plus(2 * points[i][selected], -adcSum[selected])

(* Mutation: a signal that starts in its middle counts as below it.        *)
BelowOrAt(position) == IF position <= 0 THEN -1 ELSE 1

SideOf(position) == IF position < 0 THEN -1 ELSE 1

Sign == /\ pc = "sign"
        /\ sign' = SideOf(Position(0))
        /\ pc' = "periods" /\ index' = 1
        /\ UNCHANGED <<size, points, minArray, maxArray, magnitude, selected, adcSum, periods,
                       period_index>>

Periods ==
  /\ pc = "periods" /\ index < size
  /\ IF Position(index) * sign < 0
       THEN /\ periods' = [periods EXCEPT ![period_index + 1] = index]
            /\ period_index' = period_index + 1
            /\ pc' = IF period_index' = 3 THEN "report" ELSE pc
       ELSE UNCHANGED <<periods, period_index, pc>>
  /\ index' = index + 1
  /\ UNCHANGED <<size, points, minArray, maxArray, magnitude, selected, adcSum, sign>>

(* The early returns, or the printing.                                     *)
Report == /\ pc = "report"
          /\ pc' = IF NoPeriod \in {periods[i] : i \in 1..3} THEN "returned" ELSE "printed"
          /\ UNCHANGED <<size, points, minArray, maxArray, magnitude, selected, adcSum, sign,
                         periods, period_index, index>>

Next == \/ Extremes \/ Select \/ Sign \/ Periods \/ Report
        \/ Leave("extremes", size, "select", 0)
        \/ Leave("select", Signals, "sign", 0)
        \/ Leave("periods", size, "report", index)

Spec == Init /\ [][Next]_vars
-----------------------------------------------------------------------------
Values(s) == {points[i][s] : i \in 0..(size - 1)}
Reported  == pc \in {"returned", "printed"}

(* The least value of every signal is found, and the greatest of those     *)
(* that rise above zero; below zero all signals have the same greatest     *)
(* value, the number maxArray begins with.                                 *)
ExtremesFromZero ==
  Reported => \A s \in Signal : /\ minArray[s] = Min(Values(s))
                                /\ maxArray[s] = Max({f32min} \cup Values(s))

(* A signal's swing, in which zero counts as one of its values.            *)
Swing(s) == Max({0} \cup Values(s)) - Min(Values(s))

(* The first of the signals with the largest such swing is the one taken   *)
(* for synchronisation.                                                    *)
SelectedSwingsMost ==
  Reported => \A s \in Signal : /\ Swing(s) <= Swing(selected)
                                /\ s < selected => Swing(s) < Swing(selected)

Opposite == {i \in 1..(size - 1) : IF Position(0) < 0 THEN Position(i) > 0 ELSE Position(i) < 0}

(* What the periods are: the first three points that lie on the other side *)
(* of the middle than point 0, and it is reported only with all three.     *)
PeriodsAreOpposite ==
  Reported =>
    /\ period_index = Smaller(3, Cardinality(Opposite))
    /\ \A k \in 1..3 : IF k > period_index THEN periods[k] = NoPeriod
                       ELSE periods[k] \in Opposite /\ Cardinality({i \in Opposite : i < periods[k]}) = k - 1
    /\ pc = "printed" <=> Cardinality(Opposite) >= 3

(* "Zero crossings": between the point before it and the point a period    *)
(* names the signal changes sides.                                         *)
PeriodsAreCrossings ==
  Reported => \A k \in 1..period_index :
                periods[k] - 1 \notin Opposite <=> periods[k] \in Opposite
=============================================================================
