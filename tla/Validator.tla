----------------------------- MODULE Validator -----------------------------
(***************************************************************************)
(* iec::Validator (include/iec_core/iec/validator.h,                       *)
(* src/iec_core/iec/validator.cpp) fed with the samples of one stream of   *)
(* which any number up to MaxLoss in a row may be lost.  update walks over *)
(* a sequence of ASDU: remaining counts the ones not yet validated, and    *)
(* Validate is one turn of its loop.  An exception ends the walk; no       *)
(* caller catches it, so nothing happens after it.                         *)
(***************************************************************************)
EXTENDS SmpCount

CONSTANTS CounterMod,   \* 2^32, the range of missedCount
          MaxLoss,      \* bound: samples lost in a row
          MaxBatch,     \* bound: ASDU in one sequence
          MaxSent       \* bound: samples the stream advances between two resets

ASSUME ValidatorAssumption == /\ CounterMod \in Nat \ {0}
                              /\ MaxLoss \in Nat /\ MaxBatch \in Nat /\ MaxSent \in Nat

VARIABLES capturedSmpSync, state, strategy, missedCount, capturedCount,
          remaining,   \* the ASDU of the sequence that update has still to validate
          thrown,      \* update has thrown
          max,         \* the stream: its counter's last value
          gap,         \* the samples lost right before the last one validated
          lost,        \* the samples lost since the first one validated
          cuts,        \* the losses among them across which the counter started again at 0
          sent         \* how far the stream has advanced since the first one validated

vars == <<capturedSmpSync, state, strategy, missedCount, capturedCount,
          remaining, thrown, max, gap, lost, cuts, sent>>
stream == <<max, gap, lost, cuts, sent>>

Init == /\ capturedSmpSync = 0 /\ state = "Initial" /\ strategy = "ThrowException"
        /\ missedCount = 0 /\ capturedCount = 0
        /\ remaining = 0 /\ thrown = FALSE
        /\ max \in {Max80p, Max256p}
        /\ gap = 0 /\ lost = 0 /\ cuts = 0 /\ sent = 0

Update(length) ==
  /\ ~thrown /\ remaining = 0
  /\ remaining' = length
  /\ thrown' = (length = 0)   \* "Incorrect sequence of ASDU received", whatever the strategy
  /\ UNCHANGED <<capturedSmpSync, state, strategy, missedCount, capturedCount, stream>>

(* The end of validate, which an exception skips.                          *)
Capture(smpSync) ==
  /\ capturedCount' = IF strategy = "Statistics" THEN capturedCount + 1 ELSE capturedCount
  /\ capturedSmpSync' = smpSync

Accept(smpSync) ==
  /\ state = "Initial" \/ Follows(capturedSmpSync, smpSync)
  /\ state' = "Correct"
  /\ Capture(smpSync)
  /\ remaining' = remaining - 1
  /\ UNCHANGED <<missedCount, thrown>>

(* Mutation: the sum is not wrapped.                                       *)
CountUnwrapped(smpSync) == missedCount' = missedCount + (smpSync - (capturedSmpSync + 1))

(* The int difference is added to the u32 missedCount.                     *)
CountMissed(smpSync) == missedCount' = (missedCount + (smpSync - (capturedSmpSync + 1))) % CounterMod

Reject(smpSync) ==
  /\ state # "Initial" /\ ~Follows(capturedSmpSync, smpSync)
  /\ state' = "Incorrect"
  /\ IF strategy = "ThrowException"
       THEN thrown' = TRUE /\ UNCHANGED <<capturedSmpSync, missedCount, capturedCount, remaining>>
       ELSE CountMissed(smpSync) /\ Capture(smpSync) /\ remaining' = remaining - 1 /\ UNCHANGED thrown

Validate(smpSync) == /\ ~thrown /\ remaining > 0
                     /\ Accept(smpSync) \/ Reject(smpSync)
                     /\ UNCHANGED <<strategy, max>>

(* The first sample validated may be any; later ones come k lost samples   *)
(* after the one before.                                                   *)
FirstSample(smpSync) == /\ state = "Initial"
                        /\ Validate(smpSync)
                        /\ sent' = 1 /\ gap' = 0
                        /\ UNCHANGED <<lost, cuts>>

NextSample(k) == /\ state # "Initial" /\ sent + k < MaxSent
                 /\ Validate(After(capturedSmpSync, k, max))
                 /\ sent' = sent + 1 + k
                 /\ gap' = k /\ lost' = lost + k
                 /\ cuts' = IF k > 0 /\ capturedSmpSync + 1 + k > max THEN cuts + 1 ELSE cuts

SetStrategy(newStrategy) ==
  /\ ~thrown /\ remaining = 0
  /\ strategy' = newStrategy
  /\ UNCHANGED <<capturedSmpSync, state, missedCount, capturedCount, remaining, thrown, stream>>

(* Mutation: only the counter of captured samples starts again.            *)
ResetKeepsMissed == /\ ~thrown /\ remaining = 0
                    /\ state' = "Initial" /\ capturedCount' = 0
                    /\ gap' = 0 /\ lost' = 0 /\ cuts' = 0 /\ sent' = 0
                    /\ UNCHANGED <<capturedSmpSync, strategy, missedCount, remaining, thrown, max>>

(* capturedSmpSync keeps its value: State::Initial makes it irrelevant.    *)
Reset == /\ ~thrown /\ remaining = 0
         /\ state' = "Initial" /\ missedCount' = 0 /\ capturedCount' = 0
         /\ gap' = 0 /\ lost' = 0 /\ cuts' = 0 /\ sent' = 0
         /\ UNCHANGED <<capturedSmpSync, strategy, remaining, thrown, max>>

Next == \/ \E length \in 0..MaxBatch : Update(length)
        \/ \E smpSync \in 0..max : FirstSample(smpSync)
        \/ \E k \in 0..MaxLoss : NextSample(k)
        \/ \E newStrategy \in {"ThrowException", "Statistics"} : SetStrategy(newStrategy)
        \/ Reset

Spec == Init /\ [][Next]_vars
-----------------------------------------------------------------------------
TypeOK == /\ state \in {"Initial", "Correct", "Incorrect"}
          /\ strategy \in {"ThrowException", "Statistics"}
          /\ max \in {Max80p, Max256p} /\ capturedSmpSync \in 0..max
          /\ missedCount \in 0..(CounterMod - 1)
          /\ remaining \in 0..MaxBatch /\ thrown \in BOOLEAN
          /\ {gap, lost, cuts, sent, capturedCount} \subseteq Nat

(* Correct and Incorrect tell the truth about the stream: the state is     *)
(* Incorrect exactly when samples were lost before the last one, also when *)
(* the counter starts again, in either stream.  It needs the losses to be  *)
(* shorter than LossIsBounded says: after 3999 a 256-point stream that     *)
(* comes back at 0 looks like an 80-point stream.                          *)
StateTellsLoss == state # "Initial" => ((state = "Correct") <=> (gap = 0))

LossIsBounded == MaxLoss <= Max80p /\ MaxLoss < Max256p - Max80p

(* What missedCount is: the samples lost, less one whole turn of the       *)
(* counter for each loss across which it started again, modulo 2^32.       *)
MissedIsLostLessTurns ==
  ~thrown => missedCount = (lost - cuts * (max + 1)) % CounterMod

(* Under ThrowException update never takes a sample across a loss: if the  *)
(* captured count moves on, nothing was lost.                              *)
StrictIsContiguous ==
  [][strategy = "ThrowException" /\ state # "Initial" /\ capturedSmpSync' # capturedSmpSync
       => gap' = 0]_vars
=============================================================================
