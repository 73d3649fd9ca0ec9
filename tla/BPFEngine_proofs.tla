-------------------------- MODULE BPFEngine_proofs --------------------------
(***************************************************************************)
(* For any buffer size, threshold and set of frames of which none is       *)
(* longer than the threshold (FramesFit), the engine hands over whole      *)
(* frames only and always has space to read into.                          *)
(***************************************************************************)
EXTENDS BPFEngine, TLAPS

(* Time for every leaf on a machine that is busy with other things.        *)
USE SMTT(60), ZenonT(60)

LEMMA InitInv == FramesFit /\ Init => EngineInv
<1> SUFFICES ASSUME FramesFit, Init PROVE EngineInv
  OBVIOUS
<1> USE EngineAssumption DEF Init, FramesFit, FreeSize
<1>1. {dropped, truncated, engineRunning} \subseteq BOOLEAN
  OBVIOUS
<1>2. rx \in Seq(Frame) /\ frames \in Seq(Frame)
  OBVIOUS
<1>3. QED BY <1>1, <1>2 DEF EngineInv, TypeOK, WholeFrames

LEMMA NextInv == FramesFit /\ EngineInv /\ [Next]_vars => EngineInv'
<1> SUFFICES ASSUME FramesFit, EngineInv, [Next]_vars
             PROVE  EngineInv'
  OBVIOUS
<1> USE EngineAssumption DEF EngineInv, TypeOK, WholeFrames, FreeSize, FramesFit
<1>1. ASSUME NEW f \in Frame, Arrive(f) PROVE EngineInv'
  <2>1. rx' \in Seq(Frame)
    <3>1. Append(rx, f) \in Seq(Frame)
      OBVIOUS
    <3>2. rx' = Append(rx, f) \/ rx' = rx
      BY <1>1 DEF Arrive
    <3>3. QED BY <3>1, <3>2
  <2>2. dropped' \in BOOLEAN
    BY <1>1 DEF Arrive
  <2>3. UNCHANGED <<frames, written, truncated, enginePc, engineRunning>>
    BY <1>1 DEF Arrive
  <2>4. QED BY <2>1, <2>2, <2>3
<1>2. CASE Loop
  BY <1>2 DEF Loop
<1>3. CASE ReadTo   \* Threshold bytes are free, and the frame is not longer
  <2>1. CASE rx = <<>>
    BY <1>3, <2>1 DEF ReadTo
  <2>2. CASE rx # <<>>
    <3> DEFINE f == Head(rx)
    <3>1. f \in Frame /\ Tail(rx) \in Seq(Frame) /\ Append(frames, f) \in Seq(Frame)
      BY <2>2
    <3>2. FrameSize[f] \in Nat \ {0} /\ FrameSize[f] <= Threshold
      BY <3>1
    <3>3. FreeSize >= Threshold /\ FreeSize \in Nat
      BY <1>3 DEF ReadTo
    <3>4. /\ rx' = Tail(rx) /\ frames' = Append(frames, f) /\ enginePc' = "test"
          /\ written' = written + FrameSize[f]
          /\ truncated' = truncated
      <4> DEFINE length == FrameSize[f]
                 free == FreeSize
      <4>1. length \in Nat /\ free \in Nat /\ length <= free
        BY <3>2, <3>3
      <4> HIDE DEF length, free
      <4>2. Least(length, free) = length /\ ~(length > free)
        BY <4>1 DEF Least
      <4> USE DEF length, free
      <4> HIDE DEF FreeSize
      <4>3. QED BY <1>3, <2>2, <4>2 DEF ReadTo, Receive
    <3>5. UNCHANGED <<dropped, engineRunning>>
      BY <1>3 DEF ReadTo
    <3> HIDE DEF f
    <3>6. written' \in Nat /\ written' <= Size
      BY <3>2, <3>3, <3>4
    <3>7. QED BY <3>1, <3>4, <3>5, <3>6
  <2>3. QED BY <2>1, <2>2
<1>4. CASE Test
  BY <1>4 DEF Test, Full
<1>5. CASE HandOver
  <2>1. /\ frames' = <<>> /\ written' = 0 /\ truncated' = FALSE /\ enginePc' = "loop"
        /\ UNCHANGED <<rx, dropped, engineRunning>>
    BY <1>5 DEF HandOver, ResetBuffer
  <2>2. << >> \in Seq(Frame)
    OBVIOUS
  <2>3. frames' \in Seq(Frame)
    BY <2>1, <2>2, Zenon
  <2>4. {dropped', truncated', engineRunning'} \subseteq BOOLEAN
    BY <2>1
  <2>5. FreeSize' = Size /\ written' = 0
    BY <2>1
  <2> HIDE DEF FreeSize
  <2>6. QED BY <2>1, <2>3, <2>4, <2>5
<1>6. CASE StopEngine
  BY <1>6 DEF StopEngine
<1>7. CASE UNCHANGED vars
  BY <1>7 DEF vars
<1>8. QED BY <1>1, <1>2, <1>3, <1>4, <1>5, <1>6, <1>7 DEF Next, Run

(* The inductive invariant: run only reads on while Threshold bytes are    *)
(* free.                                                                   *)
THEOREM EngineInvariant == FramesFit => (Spec => []EngineInv)
<1> SUFFICES ASSUME FramesFit PROVE Spec => []EngineInv
  OBVIOUS
<1>1. EngineInv /\ [Next]_vars => EngineInv'
  BY NextInv
<1>2. Init => EngineInv
  BY InitInv
<1>3. QED BY <1>1, <1>2, PTL DEF Spec

(* No frame in a batch is cut short (bpf_engine.h, the test of getFreeSize *)
(* against 800).                                                           *)
THEOREM WholeFramesTheorem == FramesFit => (Spec => []WholeFrames)
<1> SUFFICES ASSUME FramesFit PROVE Spec => []WholeFrames
  OBVIOUS
<1>1. EngineInv => WholeFrames
  BY DEF EngineInv
<1>2. QED BY <1>1, EngineInvariant, PTL

(* written stays inside the buffer and recvfrom is never called with a     *)
(* null pointer or no space (buffer.h, getFree and getFreeSize).           *)
THEOREM FreeToReadTheorem == FramesFit => (Spec => []FreeToRead)
<1> SUFFICES ASSUME FramesFit PROVE Spec => []FreeToRead
  OBVIOUS
<1>1. EngineInv => FreeToRead
  BY EngineAssumption DEF EngineInv, TypeOK, FreeToRead, FreeSize, FramesFit
<1>2. QED BY <1>1, EngineInvariant, PTL
=============================================================================
