-------------------------- MODULE Pipeline_proofs ---------------------------
(***************************************************************************)
(* Proofs about the whole program, for any sizes of buffer, threshold,     *)
(* queue, window and counter, and any frame length up to the threshold:    *)
(* the two loops use the exchange as its own specification says, and       *)
(* threads, buffers and exchange together implement SampleStream.  The     *)
(* bounds of Spec are constants too: any number of frames may be harmed    *)
(* (HarmMax), and any may be in the queue when the threads start, up to    *)
(* its length (EarlyMax).  What remains is OneDamaged: of the frames in    *)
(* the engine's buffer and the queue no two are damaged.                   *)
(***************************************************************************)
EXTENDS Pipeline, SequenceTheorems, TLAPS

(* Time for every leaf on a machine that is busy with other things.        *)
USE SMTT(60), ZenonT(60)

(* The exchange's invariant holds in the program's exchange, because the   *)
(* definitions are the same ones and the empty buffer is no batch.         *)
ExchangeProofs == INSTANCE ValueExchangeBlocking_proofs WITH EmptyBuffer <- <<>>

LEMMA NotABatch == <<>> \notin Batch /\ None \notin Batch \cup {<<>>}
<1>1. <<>> \notin Batch
  BY DEF Batch
<1> QED
  BY <1>1, PipelineAssumption

LEMMA SameInit == Exchange!Init <=> ExchangeProofs!Init
  BY DEF Exchange!Init, ExchangeProofs!Init, Exchange!Users, ExchangeProofs!Users,
         Exchange!Engine, ExchangeProofs!Engine, Exchange!Handler, ExchangeProofs!Handler,
         Exchange!Nobody, ExchangeProofs!Nobody

LEMMA SameNext == [Exchange!Next]_(Exchange!vars) <=> [ExchangeProofs!Next]_(ExchangeProofs!vars)
  BY DEF Exchange!Next, ExchangeProofs!Next, Exchange!vars, ExchangeProofs!vars,
         Exchange!Users, ExchangeProofs!Users, Exchange!Engine, ExchangeProofs!Engine,
         Exchange!Handler, ExchangeProofs!Handler, Exchange!Nobody, ExchangeProofs!Nobody,
         Exchange!Goto, ExchangeProofs!Goto, Exchange!GoesOn, ExchangeProofs!GoesOn,
         Exchange!OwnLastStore, ExchangeProofs!OwnLastStore,
         Exchange!Visible, ExchangeProofs!Visible, Exchange!CallSet, ExchangeProofs!CallSet,
         Exchange!CallGet, ExchangeProofs!CallGet, Exchange!Check, ExchangeProofs!Check,
         Exchange!Lock, ExchangeProofs!Lock, Exchange!Test, ExchangeProofs!Test,
         Exchange!Block, ExchangeProofs!Block,
         Exchange!SpuriousWakeup, ExchangeProofs!SpuriousWakeup,
         Exchange!Enter, ExchangeProofs!Enter, Exchange!GetBody, ExchangeProofs!GetBody,
         Exchange!SetBody, ExchangeProofs!SetBody, Exchange!NotifyOne, ExchangeProofs!NotifyOne,
         Exchange!Leave, ExchangeProofs!Leave, Exchange!Processed, ExchangeProofs!Processed,
         Exchange!Step, ExchangeProofs!Step

LEMMA SameInv == Exchange!ExchangeInv <=> ExchangeProofs!ExchangeInv
  BY DEF Exchange!ExchangeInv, ExchangeProofs!ExchangeInv,
         Exchange!Users, ExchangeProofs!Users, Exchange!Engine, ExchangeProofs!Engine,
         Exchange!Handler, ExchangeProofs!Handler, Exchange!Nobody, ExchangeProofs!Nobody,
         Exchange!Labels, ExchangeProofs!Labels, Exchange!TypeOK, ExchangeProofs!TypeOK,
         Exchange!MutexHeld, ExchangeProofs!MutexHeld, Exchange!GoesOn, ExchangeProofs!GoesOn,
         Exchange!SeenFlagHolds, ExchangeProofs!SeenFlagHolds,
         Exchange!NoLostWakeup, ExchangeProofs!NoLostWakeup

LEMMA InitExchange == Exchange!Init => Exchange!ExchangeInv
  BY NotABatch, SameInit, SameInv, ExchangeProofs!InitInv

LEMMA NextExchange ==
  Exchange!ExchangeInv /\ [Exchange!Next]_(Exchange!vars) => Exchange!ExchangeInv'
<1>1. ExchangeProofs!ExchangeInv /\ [ExchangeProofs!Next]_(ExchangeProofs!vars)
        => ExchangeProofs!ExchangeInv'
  BY NotABatch, ExchangeProofs!NextInv
<1> QED
  BY <1>1, SameNext, SameInv, PTL
-----------------------------------------------------------------------------
(* Where the two threads are: inside the exchange's methods only after     *)
(* they have called them, and nowhere before they were started.            *)
ControlInv == /\ pc[Exchange!Engine] # "idle" => enginePc = "inSet"
              /\ pc[Exchange!Engine] \notin {"idle", "leave"} => value = frames
              /\ pc[Exchange!Handler] # "idle" \/ result # None => handlerPc = "inGet"
              /\ mainPc = "run" => enginePc = "notStarted" /\ handlerPc = "notStarted"
              /\ nextFrame \in 0..StreamMax

(* The engine's buffer holds whole frames, at most FramesPerBatch of them, *)
(* and at least one when it is passed to set.                              *)
BufferInv == /\ rx \in Seq(Frame) /\ frames \in Seq(Frame)
             /\ written = Len(frames) * FrameLength
             /\ enginePc \in {"notStarted", "loop", "read"} => Threshold <= Size - written
             /\ Len(frames) <= FramesPerBatch
             /\ enginePc \in {"handOver", "inSet"} => frames # <<>>

LEMMA FramesInSpace ==
  ASSUME NEW n \in Nat, NEW length \in Nat \ {0}, NEW space \in Nat, n * length <= space
  PROVE  n <= space \div length
<1> DEFINE q == space \div length
<1>1. q \in Int /\ space < (q + 1) * length
  OBVIOUS
<1>2. n * length < (q + 1) * length
  BY <1>1
<1> QED
  BY <1>1, <1>2

LEMMA EarlyIsSeq == ASSUME NEW queue \in Early PROVE queue \in Seq(Frame)
<1>1. PICK n \in 0..EarlyMax : queue \in [1..n -> Frame]
  BY DEF Early
<1> QED
  BY <1>1, PipelineAssumption

LEMMA InitBuffer == Init => BufferInv
<1> SUFFICES ASSUME Init PROVE BufferInv
  OBVIOUS
<1>1. rx \in Seq(Frame)
  BY EarlyIsSeq DEF Init
<1> QED
  BY <1>1, PipelineAssumption DEF Init, BufferInv, FramesPerBatch

LEMMA ReadToBuffer == ASSUME BufferInv, Engine!ReadTo PROVE BufferInv'
<1> USE PipelineAssumption
<1>1. CASE rx = <<>>
  BY <1>1 DEF Engine!ReadTo, BufferInv, FramesPerBatch
<1>2. CASE rx # <<>>
  <2> DEFINE f == Head(rx)
             n == Len(frames)
  <2>1. f \in Frame /\ rx' \in Seq(Frame) /\ frames' = Append(frames, f)
    BY <1>2, HeadTailProperties DEF Engine!ReadTo, Engine!Receive, BufferInv
  <2>2. n \in Nat /\ frames' \in Seq(Frame) /\ Len(frames') = n + 1 /\ frames' # <<>>
    BY <2>1, LenProperties, AppendProperties DEF BufferInv
  <2>3. written = n * FrameLength /\ n * FrameLength \in Nat /\ Threshold <= Size - written
    BY <2>2 DEF Engine!ReadTo, BufferInv
  <2>4. written' = written + FrameLength
    BY <1>2, <2>1, <2>3 DEF Engine!ReadTo, Engine!Receive, Engine!Least, Engine!FreeSize, FrameSize
  <2>5. written' = (n + 1) * FrameLength
    BY <2>2, <2>3, <2>4
  <2>6. n <= (Size - Threshold) \div FrameLength
    <3>1. Size - Threshold \in Nat /\ n * FrameLength <= Size - Threshold
      BY <2>3
    <3> QED
      BY <2>2, <3>1, FramesInSpace
  <2>7. Len(frames') <= FramesPerBatch'
    <3>1. (Size - Threshold) \div FrameLength \in Int
      OBVIOUS
    <3> QED
      BY <2>2, <2>6, <3>1 DEF FramesPerBatch
  <2>8. enginePc' = "test"
    BY DEF Engine!ReadTo
  <2> QED
    BY <2>1, <2>2, <2>5, <2>7, <2>8 DEF BufferInv
<1> QED
  BY <1>1, <1>2

LEMMA NextBuffer == ASSUME ControlInv, BufferInv, [Next]_vars PROVE BufferInv'
<1> USE PipelineAssumption DEF BufferInv, FramesPerBatch
<1>1. CASE FrameArrives
  <2>1. PICK f \in Frame : Engine!Arrive(f)
    BY <1>1 DEF FrameArrives, ControlInv, Frame
  <2>2. rx' \in Seq(Frame)
    <3>1. Append(rx, f) \in Seq(Frame)
      BY AppendProperties
    <3> QED
      BY <2>1, <3>1 DEF Engine!Arrive
  <2> QED
    BY <2>1, <2>2 DEF Engine!Arrive
<1>2. CASE EngineStep
  <2>1. CASE Engine!Loop \/ CallSet
    BY <2>1 DEF Engine!Loop, CallSet
  <2>2. CASE Engine!ReadTo
    BY <2>2, ReadToBuffer
  <2>3. CASE Engine!Test
    <3>1. Len(frames) \in Nat /\ 0 * FrameLength = 0
      BY LenProperties
    <3>2. Size - written < Threshold => Len(frames) # 0
      BY <3>1
    <3> QED
      BY <2>3, <3>2 DEF Engine!Test, Engine!Full, Engine!FreeSize
  <2>4. CASE SetReturns
    <3>1. (Size - Threshold) \div FrameLength >= 0
      OBVIOUS
    <3> QED BY <2>4, <3>1 DEF SetReturns, Engine!ResetBuffer
  <2>5. CASE InExchange(Exchange!Engine)
    BY <2>5 DEF InExchange, engineVars
  <2> QED
    BY <1>2, <2>1, <2>2, <2>3, <2>4, <2>5 DEF EngineStep, EngineAlone
<1>3. CASE HandlerStep \/ SpuriousWakeup \/ UNCHANGED vars
  BY <1>3 DEF HandlerStep, HandlerLoop, CallGet, Process, InExchange, SpuriousWakeup, vars, engineVars
<1>4. CASE MainStep
  <2>1. CASE CallWait \/ JoinEngine \/ JoinHandler
    BY <2>1 DEF CallWait, JoinEngine, JoinHandler, engineVars
  <2>2. ASSUME NEW ok \in BOOLEAN, Run(ok) PROVE BufferInv'
    BY <2>2 DEF Run, ControlInv
  <2> QED
    BY <1>4, <2>1, <2>2 DEF MainStep
<1> QED
  BY <1>1, <1>2, <1>3, <1>4 DEF Next
-----------------------------------------------------------------------------
(* What the step of a user of the exchange does to its place.              *)
LEMMA StepMoves ==
  ASSUME Exchange!TypeOK, NEW t \in Exchange!Users, Exchange!Step(t)
  PROVE  /\ pc[t] # "idle" /\ pc' \in [Exchange!Users -> Exchange!Labels]
         /\ \A u \in Exchange!Users \ {t} : pc'[u] = pc[u]
         /\ pc'[t] \notin {"idle", "leave"} => pc[t] \notin {"idle", "leave"}
         /\ value' = value
         /\ result' # result => t = Exchange!Handler
<1> USE DEF Exchange!TypeOK, Exchange!Labels, Exchange!Goto
<1>1. CASE Exchange!Check(t) \/ Exchange!Lock(t) \/ Exchange!Test(t) \/ Exchange!Block(t)
  BY <1>1 DEF Exchange!Check, Exchange!Lock, Exchange!Test, Exchange!Block
<1>2. CASE Exchange!Enter(t) \/ Exchange!Leave(t)
  BY <1>2 DEF Exchange!Enter, Exchange!Leave
<1>3. CASE t = Exchange!Handler /\ Exchange!GetBody
  BY <1>3 DEF Exchange!GetBody
<1>4. CASE t = Exchange!Engine /\ Exchange!SetBody
  BY <1>4 DEF Exchange!SetBody
<1> QED
  BY <1>1, <1>2, <1>3, <1>4 DEF Exchange!Step

LEMMA TwoUsers == /\ Exchange!Users = {Exchange!Engine, Exchange!Handler}
                  /\ Exchange!Engine # Exchange!Handler
  BY DEF Exchange!Users, Exchange!Engine, Exchange!Handler

LEMMA NextCounter ==
  ASSUME NEW n \in 0..StreamMax
  PROVE  After(n, 0, StreamMax) = (n + 1) % (StreamMax + 1) /\ After(n, 0, StreamMax) \in 0..StreamMax
  BY SmpCountAssumption DEF After, StreamMax

LEMMA InitControl == Init => ControlInv
  BY TwoUsers, PipelineAssumption DEF Init, Exchange!Init, ControlInv

LEMMA NextControl == ASSUME ControlInv, Exchange!TypeOK, [Next]_vars PROVE ControlInv'
<1> USE TwoUsers DEF ControlInv
<1> USE DEF Exchange!TypeOK
<1>1. CASE FrameArrives
  BY <1>1, NextCounter DEF FrameArrives, Engine!Arrive, exchangeVars, handlerVars
<1>2. CASE EngineAlone
  BY <1>2 DEF EngineAlone, Engine!Loop, Engine!ReadTo, Engine!Test, exchangeVars, handlerVars, sender
<1>3. CASE CallSet
  BY <1>3 DEF CallSet, Exchange!CallSet, Exchange!Goto, handlerVars, sender
<1>4. CASE SetReturns
  BY <1>4 DEF SetReturns, exchangeVars, handlerVars, sender
<1>5. ASSUME NEW t \in Exchange!Users, InExchange(t) PROVE ControlInv'
  <2>1. UNCHANGED <<engineVars, handlerVars, mainPc, sender>>
    BY <1>5 DEF InExchange
  <2>2. UNCHANGED <<enginePc, frames, handlerPc, mainPc, nextFrame>>
    BY <2>1 DEF engineVars, handlerVars, sender
  <2> QED
    BY <1>5, <2>2, StepMoves DEF InExchange
<1>6. CASE HandlerLoop
  BY <1>6 DEF HandlerLoop, engineVars, exchangeVars, sender
<1>7. CASE CallGet
  BY <1>7 DEF CallGet, Exchange!CallGet, Exchange!Goto, engineVars, sender
<1>8. CASE Process
  BY <1>8 DEF Process, Exchange!Processed, engineVars, sender
<1>9. CASE SpuriousWakeup
  BY <1>9 DEF SpuriousWakeup, Exchange!SpuriousWakeup, engineVars, handlerVars, sender
<1>10. CASE MainStep
  <2>1. CASE CallWait \/ JoinEngine \/ JoinHandler
    BY <2>1 DEF CallWait, JoinEngine, JoinHandler, MainGoes, engineVars, exchangeVars, handlerVars, sender
  <2>2. ASSUME NEW ok \in BOOLEAN, Run(ok) PROVE ControlInv'
    BY <2>2 DEF Run, exchangeVars, sender
  <2> QED
    BY <1>10, <2>1, <2>2 DEF MainStep
<1>11. CASE UNCHANGED vars
  BY <1>11 DEF vars, engineVars, exchangeVars, handlerVars, sender
<1> QED
  BY <1>1, <1>2, <1>3, <1>4, <1>5, <1>6, <1>7, <1>8, <1>9, <1>10, <1>11
     DEF Next, EngineStep, HandlerStep

(* CallSet, CallGet, Process and the steps inside get and set are steps of *)
(* the exchange, all others leave it alone.                                *)
LEMMA ExchangeStep ==
  ASSUME BufferInv, [Next]_vars
  PROVE  [Exchange!Next]_(Exchange!vars)
<1> USE DEF Exchange!vars
<1>1. CASE FrameArrives \/ EngineAlone \/ SetReturns \/ HandlerLoop \/ MainStep \/ UNCHANGED vars
  <2>1. UNCHANGED exchangeVars
    BY <1>1 DEF FrameArrives, EngineAlone, SetReturns, HandlerLoop, MainStep, Run, CallWait,
                JoinEngine, JoinHandler, vars
  <2> QED
    BY <2>1 DEF exchangeVars
<1>2. CASE CallSet
  <2>1. frames \in [1..Len(frames) -> Frame] /\ Len(frames) \in 1..FramesPerBatch
    BY <1>2, LenProperties, EmptySeq, PipelineAssumption DEF CallSet, BufferInv, FramesPerBatch
  <2>2. frames \in Batch
    BY <2>1 DEF Batch
  <2> QED
    BY <1>2, <2>2 DEF CallSet, Exchange!Next
<1>3. ASSUME NEW t \in Exchange!Users, InExchange(t) PROVE Exchange!Next
  BY <1>3 DEF InExchange, Exchange!Next
<1>4. CASE CallGet \/ Process \/ SpuriousWakeup
  BY <1>4 DEF CallGet, Process, SpuriousWakeup, Exchange!Next
<1> QED
  BY <1>1, <1>2, <1>3, <1>4, TwoUsers DEF Next, EngineStep, HandlerStep

(* Each of the three needs the others: set is only called with batches     *)
(* because of the buffer, the threads are where they are because of both.  *)
Inv == ControlInv /\ BufferInv /\ Exchange!ExchangeInv

LEMMA InitInv == Init => Inv
  BY InitControl, InitBuffer, InitExchange DEF Init, Inv

LEMMA NextInv == Inv /\ [Next]_vars => Inv'
<1>1. Exchange!ExchangeInv => Exchange!TypeOK
  BY DEF Exchange!ExchangeInv
<1> QED
  BY <1>1, NextControl, NextBuffer, ExchangeStep, NextExchange DEF Inv

LEMMA Invariance == Spec => []Inv
  BY InitInv, NextInv, PTL DEF Spec

(* NumberCrusher and BPFEngine call get and set as the exchange wants it:  *)
(* every set passes a filled buffer (bpf_engine.h:60-63), and get is not   *)
(* called before the last batch is processed.                              *)
THEOREM UsesTheorem == Spec => UsesExchange
<1>1. Init => Exchange!Init
  BY DEF Init
<1>2. Inv /\ [Next]_vars => [Exchange!Next]_(Exchange!vars)
  BY ExchangeStep DEF Inv
<1> QED
  BY <1>1, <1>2, Invariance, PTL DEF Spec, UsesExchange, Exchange!Spec
-----------------------------------------------------------------------------
(* The refinement of SampleStream.  First the counters: what the Validator *)
(* takes for the next sample is the next sample.                           *)
CounterInv == captured \in 0..StreamMax \cup {None} /\ aborted \in BOOLEAN

LEMMA FollowsIsSucc ==
  ASSUME NEW p \in 0..StreamMax, NEW c \in 0..StreamMax
  PROVE  Follows(p, c) <=> c = Stream!Succ(p)
<1>1. CASE p = StreamMax
  <2>1. (p + 1) % (StreamMax + 1) = 0
    BY <1>1, SmpCountAssumption DEF StreamMax
  <2> QED
    BY <1>1, <2>1, SmpCountAssumption DEF StreamMax, Follows, Stream!Succ
<1>2. CASE p # StreamMax
  <2>1. (p + 1) % (StreamMax + 1) = p + 1
    BY <1>2, SmpCountAssumption DEF StreamMax
  <2> QED
    BY <1>2, <2>1, SmpCountAssumption DEF StreamMax, Follows, Stream!Succ
<1> QED
  BY <1>1, <1>2

LEMMA NoneIsNoCounter == None \notin 0..StreamMax
  BY PipelineAssumption DEF Frame

LEMMA ValidIsGoesOn ==
  ASSUME CounterInv, NEW s \in Seq(0..StreamMax)
  PROVE  Valid(s) <=> Stream!GoesOn(s)
<1> DEFINE n == Len(s)
<1>1. n \in Nat /\ \A i \in 1..n : s[i] \in 0..StreamMax
  BY LenProperties, ElementOfSeq
<1>2. \A i \in 2..n : s[i - 1] # None /\ (Follows(s[i - 1], s[i]) <=> s[i] = Stream!Succ(s[i - 1]))
  <2> TAKE i \in 2..n
  <2>1. i \in 1..n /\ i - 1 \in 1..n
    BY <1>1
  <2>2. s[i] \in 0..StreamMax /\ s[i - 1] \in 0..StreamMax
    BY <1>1, <2>1
  <2> QED
    BY <2>2, NoneIsNoCounter, FollowsIsSucc
<1> DEFINE Chained == \A i \in 2..n : s[i] = Stream!Succ(s[i - 1])
           Begins == s # <<>> => captured = None \/ s[1] = Stream!Succ(captured)
<1>3. s # <<>> <=> n >= 1
  BY <1>1, EmptySeq
<1>4. Valid(s) <=> s # <<>> /\ Begins /\ Chained
  <2>1. n >= 1 => (captured = None \/ Follows(captured, s[1]) <=> captured = None \/ s[1] = Stream!Succ(captured))
    BY <1>1, FollowsIsSucc DEF CounterInv
  <2>2. Valid(s) <=> /\ s # <<>>
                     /\ n >= 1 => captured = None \/ Follows(captured, s[1])
                     /\ \A i \in 2..n : s[i - 1] = None \/ Follows(s[i - 1], s[i])
    BY <1>1 DEF Valid
  <2> QED
    BY <1>2, <1>3, <2>1, <2>2
<1>5. Stream!Contiguous(s) <=> Chained
  <2>1. ASSUME Stream!Contiguous(s), NEW i \in 2..n PROVE s[i] = Stream!Succ(s[i - 1])
    <3>1. i - 1 \in 1..(n - 1) /\ (i - 1) + 1 = i
      BY <1>1
    <3> QED
      BY <2>1, <3>1 DEF Stream!Contiguous
  <2>2. ASSUME Chained, NEW i \in 1..(n - 1) PROVE s[i + 1] = Stream!Succ(s[i])
    <3>1. i + 1 \in 2..n /\ (i + 1) - 1 = i
      BY <1>1
    <3> QED
      BY <2>2, <3>1
  <2> QED
    BY <2>1, <2>2 DEF Stream!Contiguous
<1>6. CASE captured = None
  BY <1>4, <1>5, <1>6 DEF Stream!GoesOn
<1>7. CASE captured # None
  <2> DEFINE u == <<captured>> \o s
  <2>1. captured \in 0..StreamMax /\ <<captured>> \in Seq(0..StreamMax) /\ Len(<<captured>>) = 1
    BY <1>7 DEF CounterInv
  <2>2. Len(u) = n + 1 /\ u[1] = captured /\ \A i \in 2..(n + 1) : u[i] = s[i - 1]
    BY <1>1, <2>1, ConcatProperties
  <2> HIDE DEF u
  <2>3. Stream!Contiguous(u) <=> \A i \in 1..n : u[i + 1] = Stream!Succ(u[i])
    BY <1>1, <2>2 DEF Stream!Contiguous
  <2>4. \A i \in 1..n : u[i + 1] = s[i] /\ u[i] = IF i = 1 THEN captured ELSE s[i - 1]
    <3> TAKE i \in 1..n
    <3>1. i + 1 \in 2..(n + 1) /\ (i + 1) - 1 = i
      BY <1>1
    <3>2. i # 1 => i \in 2..(n + 1)
      BY <1>1
    <3> QED
      BY <2>2, <3>1, <3>2
  <2>5. Stream!Contiguous(u) <=> \A i \in 1..n : s[i] = Stream!Succ(IF i = 1 THEN captured ELSE s[i - 1])
    BY <2>3, <2>4
  <2>6. s # <<>> => (Stream!Contiguous(u) <=> Begins /\ Chained)
    BY <1>1, <1>3, <1>7, <2>5
  <2> QED
    BY <1>4, <1>7, <2>6 DEF Stream!GoesOn, u
<1> QED
  BY <1>6, <1>7

(* The pipe's four parts are sequences of frames, and a batch is not empty.*)
LEMMA BatchIsSeq == ASSUME NEW b \in Batch PROVE b \in Seq(Frame) /\ b # <<>> /\ Len(b) \in Nat \ {0}
<1>1. PICK n \in 1..FramesPerBatch : b \in [1..n -> Frame]
  BY DEF Batch
<1>2. n \in Nat \ {0}
  <2>1. FramesPerBatch \in Int
    BY PipelineAssumption DEF FramesPerBatch
  <2> QED
    BY <2>1
<1>3. b \in Seq(Frame) /\ Len(b) = n
  BY <1>1, <1>2
<1> QED
  BY <1>2, <1>3, EmptySeq

LEMMA PipeType ==
  ASSUME Inv
  PROVE  InHandler \in Seq(Frame) /\ InStorage \in Seq(Frame) /\ InEngine \in Seq(Frame) /\ rx \in Seq(Frame)
<1>1. result = None \/ result \in Batch
  BY DEF Inv, Exchange!ExchangeInv
<1>2. isFilled => storage \in Batch
  BY DEF Inv, Exchange!ExchangeInv
<1>3. frames \in Seq(Frame) /\ rx \in Seq(Frame) /\ <<>> \in Seq(Frame)
  BY EmptySeq DEF Inv, BufferInv
<1> QED
  BY <1>1, <1>2, <1>3, BatchIsSeq DEF InHandler, InStorage, InEngine

Pipe == InHandler \o InStorage \o InEngine \o rx

LEMMA PipeKept ==
  ASSUME UNCHANGED <<nextFrame, captured, aborted>>,
         InHandler' = InHandler, InStorage' = InStorage, InEngine' = InEngine, rx' = rx
  PROVE  UNCHANGED Stream!vars
  BY DEF Stream!vars

LEMMA AppendToConcat ==
  ASSUME NEW S, NEW s \in Seq(S), NEW t \in Seq(S), NEW e \in S
  PROVE  s \o Append(t, e) = Append(s \o t, e)
<1>1. s \o t \in Seq(S) /\ <<e>> \in Seq(S)
  BY ConcatProperties
<1>2. s \o Append(t, e) = s \o (t \o <<e>>)
  BY AppendIsConcat
<1>3. Append(s \o t, e) = (s \o t) \o <<e>>
  BY <1>1, AppendIsConcat
<1> QED
  BY <1>1, <1>2, <1>3, ConcatAssociative

(* A frame the kernel queues goes into the pipe, one it drops does not.    *)
LEMMA SendStep == ASSUME Inv, FrameArrives PROVE Stream!Send
<1>1. PICK f \in {nextFrame, Damaged} : Engine!Arrive(f)
  BY DEF FrameArrives
<1>2. f \in Frame /\ nextFrame \in 0..StreamMax
  BY DEF Inv, ControlInv, Frame
<1>3. nextFrame' = Stream!Succ(nextFrame)
  BY <1>2, NextCounter DEF FrameArrives, Stream!Succ
<1>4. InHandler' = InHandler /\ InStorage' = InStorage /\ InEngine' = InEngine
      /\ UNCHANGED <<captured, aborted>>
  BY <1>1 DEF FrameArrives, Engine!Arrive, exchangeVars, handlerVars, validation,
              InHandler, InStorage, InEngine
<1>5. (InHandler \o InStorage \o InEngine \o rx)' \in {Append(Pipe, f), Pipe}
  <2> DEFINE s == InHandler \o InStorage \o InEngine
  <2>1. s \in Seq(Frame) /\ rx \in Seq(Frame)
    BY PipeType, ConcatProperties
  <2>2. s' = s
    BY <1>4
  <2>3. rx' \in {Append(rx, f), rx}
    BY <1>1 DEF Engine!Arrive
  <2>4. s \o Append(rx, f) = Append(s \o rx, f)
    BY <1>2, <2>1, AppendToConcat
  <2> QED
    BY <2>2, <2>3, <2>4 DEF Pipe
<1> QED
  BY <1>1, <1>3, <1>4, <1>5 DEF Stream!Send, Pipe

(* Outside set the engine only moves frames from the socket to its buffer. *)
LEMMA EngineAloneStep == ASSUME Inv, EngineAlone PROVE UNCHANGED Stream!vars
<1>1. UNCHANGED <<exchangeVars, handlerVars, sender>>
  BY DEF EngineAlone
<1>2. UNCHANGED <<nextFrame, captured, aborted>> /\ InHandler' = InHandler /\ InStorage' = InStorage
  BY <1>1 DEF exchangeVars, handlerVars, validation, sender, InHandler, InStorage
<1>3. enginePc # "inSet" /\ enginePc' # "inSet"
  BY DEF EngineAlone, Engine!Loop, Engine!ReadTo, Engine!Test
<1>4. InEngine = frames /\ InEngine' = frames'
  <2>1. pc[Exchange!Engine] = "idle" /\ pc' = pc
    BY <1>1, <1>3 DEF Inv, ControlInv, exchangeVars
  <2> QED
    BY <1>3, <2>1 DEF InEngine
<1>5. CASE UNCHANGED <<frames, rx>>
  BY <1>2, <1>4, <1>5, PipeKept
<1>6. CASE Engine!ReadTo /\ rx # <<>>
  <2> DEFINE s == InHandler \o InStorage
             f == Head(rx)
  <2>1. s \in Seq(Frame) /\ frames \in Seq(Frame) /\ rx \in Seq(Frame)
    BY PipeType, ConcatProperties DEF Inv, BufferInv
  <2>2. f \in Frame /\ <<f>> \in Seq(Frame) /\ Tail(rx) \in Seq(Frame) /\ rx = <<f>> \o Tail(rx)
    <3>1. f \in Frame /\ Tail(rx) \in Seq(Frame)
      BY <1>6, <2>1, HeadTailProperties
    <3>2. rx = <<f>> \o Tail(rx)
      BY <1>6, <2>1
    <3> QED
      BY <3>1, <3>2
  <2>3. frames' = frames \o <<f>> /\ rx' = Tail(rx)
    <3>1. Append(frames, f) = frames \o <<f>>
      BY <2>1, <2>2, AppendIsConcat
    <3> QED
      BY <1>6, <3>1 DEF Engine!ReadTo, Engine!Receive
  <2> HIDE DEF s, f
  <2>4. (s \o (frames \o <<f>>)) \o Tail(rx) = (s \o frames) \o (<<f>> \o Tail(rx))
    <3>1. s \o frames \in Seq(Frame)
      BY <2>1, ConcatProperties
    <3>2. s \o (frames \o <<f>>) = (s \o frames) \o <<f>>
      BY <2>1, <2>2, ConcatAssociative
    <3> QED
      BY <2>2, <3>1, <3>2, ConcatAssociative
  <2>5. (s \o frames') \o rx' = (s \o frames) \o rx
    BY <2>2, <2>3, <2>4
  <2>6. (InHandler \o InStorage \o InEngine \o rx)' = InHandler \o InStorage \o InEngine \o rx
    BY <1>2, <1>4, <2>5 DEF s
  <2> QED
    BY <1>2, <2>6 DEF Stream!vars
<1> QED
  BY <1>5, <1>6 DEF EngineAlone, Engine!Loop, Engine!ReadTo, Engine!Test

(* Calling set and returning from it moves nothing: what set has stored no *)
(* longer counts as the engine's.                                          *)
LEMMA SetCallStep == ASSUME Inv, CallSet \/ SetReturns PROVE UNCHANGED Stream!vars
<1>1. UNCHANGED <<nextFrame, captured, aborted, rx, result, isFilled, storage>>
  BY DEF CallSet, SetReturns, Exchange!CallSet, exchangeVars, handlerVars, validation, sender
<1>2. InEngine' = InEngine
  <2>1. CASE CallSet
    BY <2>1, TwoUsers DEF CallSet, Exchange!CallSet, Exchange!Goto, InEngine, Inv, Exchange!ExchangeInv, Exchange!TypeOK
  <2>2. CASE SetReturns
    BY <2>2 DEF SetReturns, Engine!ResetBuffer, exchangeVars, InEngine
  <2> QED
    BY <2>1, <2>2
<1> QED
  BY <1>1, <1>2, PipeKept DEF InHandler, InStorage

(* Inside get and set a batch moves on at one place each: where it is      *)
(* copied.  That the place it moves to is empty is what SeenFlagHolds says.*)
LEMMA ExchangeStepKeeps ==
  ASSUME Inv, NEW t \in Exchange!Users, InExchange(t)
  PROVE  UNCHANGED Stream!vars
<1>1. UNCHANGED <<nextFrame, captured, aborted, rx, frames, enginePc>> /\ Exchange!Step(t)
  BY DEF InExchange, engineVars, handlerVars, validation, sender
<1>2. /\ pc \in [Exchange!Users -> Exchange!Labels] /\ ControlInv
      /\ Exchange!SeenFlagHolds /\ Exchange!TypeOK
  BY DEF Inv, Exchange!ExchangeInv, Exchange!TypeOK
<1>3. CASE Exchange!Check(t) \/ Exchange!Lock(t) \/ Exchange!Test(t) \/ Exchange!Block(t)
           \/ Exchange!Enter(t) \/ Exchange!Leave(t)
  <2>1. UNCHANGED <<storage, isFilled, result>>
    BY <1>3 DEF Exchange!Check, Exchange!Lock, Exchange!Test, Exchange!Block, Exchange!Enter, Exchange!Leave
  <2>2. \/ t = Exchange!Handler /\ pc'[Exchange!Engine] = pc[Exchange!Engine]
        \/ /\ t = Exchange!Engine /\ pc[t] \notin {"idle", "leave"} /\ pc'[t] \notin {"idle", "leave"}
        \/ /\ t = Exchange!Engine /\ pc[t] = "leave" /\ pc'[t] = "idle"
    BY <1>2, <1>3, TwoUsers DEF Exchange!Check, Exchange!Lock, Exchange!Test, Exchange!Block,
       Exchange!Enter, Exchange!Leave, Exchange!Goto, Exchange!Labels
  <2>3. InEngine' = InEngine
    BY <1>1, <1>2, <2>2 DEF InEngine, ControlInv
  <2> QED
    BY <1>1, <2>1, <2>3, PipeKept DEF InHandler, InStorage
<1>4. CASE t = Exchange!Handler /\ Exchange!GetBody
  <2>1. isFilled /\ storage \in Batch
    BY <1>2, <1>4 DEF Exchange!GetBody, Exchange!SeenFlagHolds, Exchange!GoesOn, Inv, Exchange!ExchangeInv
  <2>2. result = None
    BY <1>4 DEF Exchange!GetBody, Inv, Exchange!ExchangeInv
  <2>3. InHandler = <<>> /\ InStorage = storage /\ InHandler' = storage /\ InStorage' = <<>>
    <3>1. storage # None
      BY <2>1, NotABatch
    <3> QED
      BY <1>4, <2>1, <2>2, <3>1 DEF Exchange!GetBody, InHandler, InStorage
  <2>4. InEngine' = InEngine
    BY <1>1, <1>2, <1>4, TwoUsers DEF Exchange!GetBody, Exchange!Goto, InEngine
  <2>5. InHandler' \o InStorage' = InHandler \o InStorage
    BY <2>1, <2>3, BatchIsSeq, ConcatEmptySeq
  <2>6. (InHandler \o InStorage \o InEngine \o rx)' = InHandler \o InStorage \o InEngine \o rx
    BY <1>1, <2>4, <2>5
  <2> QED
    BY <1>1, <2>6 DEF Stream!vars
<1>5. CASE t = Exchange!Engine /\ Exchange!SetBody
  <2>1. ~isFilled /\ value = frames
    BY <1>2, <1>5, TwoUsers
       DEF Exchange!SetBody, Exchange!SeenFlagHolds, Exchange!GoesOn, ControlInv
  <2>2. InHandler' = InHandler
    BY <1>5 DEF Exchange!SetBody, InHandler
  <2>3. InStorage = <<>> /\ InStorage' = frames /\ InEngine = frames /\ InEngine' = <<>>
    BY <1>1, <1>2, <1>5, <2>1 DEF Exchange!SetBody, Exchange!Goto, InStorage, InEngine, ControlInv
  <2>4. InHandler \in Seq(Frame) /\ frames \in Seq(Frame)
    BY PipeType DEF Inv, BufferInv
  <2>5. (InHandler \o frames) \o <<>> = (InHandler \o <<>>) \o frames
    <3>1. InHandler \o frames \in Seq(Frame)
      BY <2>4, ConcatProperties
    <3> QED
      BY <2>4, <3>1, ConcatEmptySeq
  <2>6. (InHandler \o InStorage \o InEngine \o rx)' = InHandler \o InStorage \o InEngine \o rx
    BY <1>1, <2>2, <2>3, <2>5
  <2> QED
    BY <1>1, <2>6 DEF Stream!vars
<1> QED
  BY <1>1, <1>3, <1>4, <1>5 DEF Exchange!Step

(* The first n elements of a pipe that begins with a batch of n frames.    *)
LEMMA FrontOfPipe ==
  ASSUME NEW S, NEW b \in Seq(S), NEW rest \in Seq(S), b # <<>>
  PROVE  /\ Len(b) \in 1..Len(b \o rest)
         /\ \A i \in 1..Len(b) : (b \o rest)[i] = b[i]
         /\ SubSeq(b \o rest, Len(b) + 1, Len(b \o rest)) = rest
         /\ \A a \in 0..Len(b) : SubSeq(b \o rest, 1, a) = SubSeq(b, 1, a)
         /\ \A c \in 1..(Len(b) + 1) : SubSeq(b \o rest, c, Len(b)) = SubSeq(b, c, Len(b))
<1> DEFINE n == Len(b)
           m == Len(rest)
<1>1. n \in Nat \ {0} /\ m \in Nat
  BY EmptySeq, LenProperties
<1>2. /\ Len(b \o rest) = n + m
      /\ \A i \in 1..n : (b \o rest)[i] = b[i]
  BY <1>1, ConcatProperties
<1>3. SubSeq(b \o rest, n + 1, n + m) = rest
  <2>1. CASE m = 0
    <3>1. rest = <<>>
      BY <2>1, EmptySeq
    <3>2. SubSeq(b \o rest, n + 1, n + m) = <<>>
      BY <1>1, <2>1, SubSeqEmpty
    <3> QED
      BY <3>1, <3>2
  <2>2. CASE m # 0
    <3>1. n + 1 \in (n + 1)..(n + m) /\ n + m \in (n + 1)..(n + m) /\ (n + 1) - n = 1 /\ (n + m) - n = m
      BY <1>1, <2>2
    <3>2. SubSeq(b \o rest, n + 1, n + m) = SubSeq(rest, 1, m)
      BY <3>1, SubSeqOfConcat2
    <3> QED
      BY <3>2, SubSeqFull
  <2> QED
    BY <2>1, <2>2
<1>4. \A a \in 0..n : SubSeq(b \o rest, 1, a) = SubSeq(b, 1, a)
  <2> TAKE a \in 0..n
  <2>1. CASE a = 0
    BY <2>1, SubSeqEmpty
  <2>2. CASE a # 0
    <3>1. a \in 1..n /\ 1 \in 1..n
      BY <1>1, <2>2
    <3> QED
      BY <3>1, SubSeqOfConcat1
  <2> QED
    BY <2>1, <2>2
<1>5. \A c \in 1..(n + 1) : SubSeq(b \o rest, c, n) = SubSeq(b, c, n)
  <2> TAKE c \in 1..(n + 1)
  <2>1. CASE c = n + 1
    BY <1>1, <2>1, SubSeqEmpty
  <2>2. CASE c # n + 1
    <3>1. c \in 1..n /\ n \in 1..n
      BY <1>1, <2>2
    <3> QED
      BY <3>1, SubSeqOfConcat1
  <2> QED
    BY <2>1, <2>2
<1>6. n \in 1..(n + m)
  BY <1>1
<1> QED
  BY <1>2, <1>3, <1>4, <1>5, <1>6

(* What a gap leaves of a batch, or of an empty buffer, holds no damaged   *)
(* frame.                                                                  *)
LEMMA KeptSamples ==
  ASSUME NEW b \in Batch \cup {<<>>}, NEW gap \in Gaps(b)
  PROVE  SubSeq(b, 1, gap[1]) \o SubSeq(b, gap[2], Len(b)) \in Seq(0..StreamMax)
<1> DEFINE n == Len(b)
<1>1. b \in Seq(Frame) /\ n \in Nat
  BY BatchIsSeq, EmptySeq
<1>2. gap[1] \in 0..n /\ gap[2] \in 1..(n + 1) /\ Whole(b, 1, gap[1]) /\ Whole(b, gap[2], n)
  BY DEF Gaps
<1>3. \A i \in 1..n : b[i] \in Frame
  BY <1>1, ElementOfSeq
<1>4. \A i \in 1..gap[1] : b[i] \in 0..StreamMax
  BY <1>1, <1>2, <1>3 DEF Whole, Frame
<1>5. \A i \in gap[2]..n : b[i] \in 0..StreamMax
  BY <1>1, <1>2, <1>3 DEF Whole, Frame
<1>6. SubSeq(b, 1, gap[1]) \in Seq(0..StreamMax)
  BY <1>1, <1>2, <1>4, SubSeqProperties
<1>7. SubSeq(b, gap[2], n) \in Seq(0..StreamMax)
  BY <1>1, <1>2, <1>5, SubSeqProperties
<1> QED
  BY <1>6, <1>7, ConcatProperties

LEMMA FourParts ==
  ASSUME NEW q \in Seq(Frame), NEW r \in Seq(Frame), NEW s \in Seq(Frame), NEW t \in Seq(Frame)
  PROVE  ((q \o r) \o s) \o t = q \o ((r \o s) \o t) /\ (r \o s) \o t \in Seq(Frame)
<1>1. r \o s \in Seq(Frame) /\ (r \o s) \o t \in Seq(Frame)
  BY ConcatProperties
<1>2. (q \o r) \o s = q \o (r \o s)
  BY ConcatAssociative
<1>3. (q \o (r \o s)) \o t = q \o ((r \o s) \o t)
  <2>1. \A u \in Seq(Frame) : (q \o u) \o t = q \o (u \o t)
    BY ConcatAssociative
  <2> QED
    BY <1>1, <2>1
<1> QED
  BY <1>1, <1>2, <1>3

(* The handler takes its batch out of the front of the pipe.               *)
LEMMA ProcessTakes ==
  ASSUME Inv, Process
  PROVE  \E rest \in Seq(Frame) : /\ Pipe = result \o rest
                                 /\ (InHandler \o InStorage \o InEngine \o rx)' = rest
<1> DEFINE rest == (InStorage \o InEngine) \o rx
<1>1. result \in Seq(Frame) /\ InHandler = result
  BY BatchIsSeq DEF Process, Exchange!Processed, Inv, Exchange!ExchangeInv, InHandler
<1>2. InStorage \in Seq(Frame) /\ InEngine \in Seq(Frame) /\ rx \in Seq(Frame)
  BY PipeType
<1>3. ((result \o InStorage) \o InEngine) \o rx = result \o rest /\ rest \in Seq(Frame)
  BY <1>1, <1>2, FourParts
<1>4. UNCHANGED <<storage, isFilled, pc, enginePc, frames, rx>> /\ result' = None
  BY DEF Process, Exchange!Processed, engineVars
<1>5. InHandler' = <<>> /\ InStorage' = InStorage /\ InEngine' = InEngine /\ rx' = rx
  BY <1>4 DEF InHandler, InStorage, InEngine
<1>6. <<>> \o InStorage = InStorage
  BY <1>2, ConcatEmptySeq
<1>7. (InHandler \o InStorage \o InEngine \o rx)' = rest
  BY <1>5, <1>6
<1> QED
  BY <1>1, <1>3, <1>7 DEF Pipe

(* The handler takes its batch out of the pipe, and delivers it or gives   *)
(* up as the Validator tells it.                                           *)
LEMMA ProcessStep == ASSUME Inv, CounterInv, ~aborted, Process PROVE Stream!Next /\ CounterInv'
<1>1. result \in Batch /\ InHandler = result
  BY DEF Process, Exchange!Processed, Inv, Exchange!ExchangeInv, InHandler
<1>2. result \in Seq(Frame) /\ result # <<>> /\ Len(result) \in Nat \ {0}
  BY <1>1, BatchIsSeq
<1>3. PICK rest \in Seq(Frame) : /\ Pipe = result \o rest
                                 /\ (InHandler \o InStorage \o InEngine \o rx)' = rest
  BY ProcessTakes
<1> DEFINE n == Len(result)
<1>4. /\ n \in 1..Len(Pipe)
      /\ \A i \in 1..n : Pipe[i] = result[i]
      /\ SubSeq(Pipe, n + 1, Len(Pipe)) = rest
      /\ \A a \in 0..n : SubSeq(Pipe, 1, a) = SubSeq(result, 1, a)
      /\ \A c \in 1..(n + 1) : SubSeq(Pipe, c, n) = SubSeq(result, c, n)
  <2>1. /\ Len(result) \in 1..Len(result \o rest)
        /\ \A i \in 1..Len(result) : (result \o rest)[i] = result[i]
        /\ SubSeq(result \o rest, Len(result) + 1, Len(result \o rest)) = rest
        /\ \A a \in 0..Len(result) : SubSeq(result \o rest, 1, a) = SubSeq(result, 1, a)
        /\ \A c \in 1..(Len(result) + 1) :
             SubSeq(result \o rest, c, Len(result)) = SubSeq(result, c, Len(result))
    BY <1>2, FrontOfPipe
  <2> QED
    BY <1>3, <2>1
<1>5. PICK gap \in Gaps(result) :
        LET sequence == SubSeq(result, 1, gap[1]) \o SubSeq(result, gap[2], n) IN
        IF Valid(sequence)
          THEN captured' = sequence[Len(sequence)] /\ UNCHANGED aborted
          ELSE aborted' = TRUE /\ UNCHANGED captured
  BY DEF Process, Parse
<1> DEFINE a == gap[1]
           c == gap[2]
           sequence == SubSeq(result, 1, a) \o SubSeq(result, c, n)
<1>6. sequence \in Seq(0..StreamMax)
  BY <1>1, KeptSamples
<1>7. a \in 0..n /\ c \in (a + 1)..(n + 1) /\ c \in 1..(n + 1)
  BY <1>2 DEF Gaps
<1>8. Stream!Take(n)
  <2>1. nextFrame' = nextFrame
    BY DEF Process, sender
  <2> QED
    BY <1>3, <1>4, <2>1 DEF Stream!Take, Pipe
<1>9. Stream!MayKeep(n, a, c)
  <2>1. /\ Whole(result, 1, a) /\ Whole(result, c, n)
        /\ a + 1 < c => result[a + 1] = Damaged
    BY <1>2, <1>7 DEF Gaps
  <2>2. \A i \in 1..a \cup c..n : i \in 1..n
    BY <1>2, <1>7
  <2>3. a + 1 < c => a + 1 \in 1..n
    BY <1>2, <1>7
  <2>4. \A i \in 1..a \cup c..n : Pipe[i] # Damaged
    BY <1>4, <2>1, <2>2 DEF Whole
  <2>5. a + 1 < c => Pipe[a + 1] = Damaged
    BY <1>4, <2>1, <2>3
  <2> QED
    BY <2>4, <2>5 DEF Stream!MayKeep, Pipe
<1>10. Stream!Kept(n, a, c) = sequence
  <2>1. SubSeq(Pipe, 1, a) = SubSeq(result, 1, a) /\ SubSeq(Pipe, c, n) = SubSeq(result, c, n)
    BY <1>4, <1>7
  <2> QED
    BY <2>1 DEF Stream!Kept, Pipe
<1>11. n \in 1..Len(InHandler \o InStorage \o InEngine \o rx)
  BY <1>4 DEF Pipe
<1> HIDE DEF sequence
<1>12. Stream!Deliver(sequence) \/ Stream!GiveUp(sequence)
  BY <1>5, <1>6, ValidIsGoesOn DEF Stream!Deliver, Stream!GiveUp, sequence
<1>13. CounterInv'
  <2>1. CASE Valid(sequence)
    <3>1. sequence # <<>>
      BY <2>1 DEF Valid
    <3>2. Len(sequence) \in 1..Len(sequence)
      BY <1>6, <3>1, EmptySeq
    <3>3. sequence[Len(sequence)] \in 0..StreamMax
      BY <1>6, <3>2, ElementOfSeq
    <3> QED
      BY <1>5, <2>1, <3>3 DEF CounterInv, sequence
  <2>2. CASE ~Valid(sequence)
    BY <1>5, <2>2 DEF CounterInv, sequence
  <2> QED
    BY <2>1, <2>2
<1> QED
  BY <1>7, <1>8, <1>9, <1>10, <1>11, <1>12, <1>13 DEF Stream!Next

(* The steps that touch neither a frame, a batch nor the sender leave the  *)
(* pipe as it is.  Before the threads are started the buffer is not inside *)
(* set, so that starting them does not move it.                            *)
LEMMA OtherStep ==
  ASSUME Inv, HandlerLoop \/ CallGet \/ SpuriousWakeup \/ MainStep \/ UNCHANGED vars
  PROVE  UNCHANGED Stream!vars
<1>1. UNCHANGED <<nextFrame, captured, aborted, rx, frames, storage, isFilled, result>>
  BY DEF HandlerLoop, CallGet, SpuriousWakeup, MainStep, Run, CallWait, JoinEngine, JoinHandler,
         MainGoes, Exchange!CallGet, Exchange!SpuriousWakeup, vars, engineVars, exchangeVars,
         handlerVars, validation, sender
<1>2. InEngine' = InEngine
  <2>1. CASE HandlerLoop \/ CallWait \/ JoinEngine \/ JoinHandler \/ UNCHANGED vars
    BY <2>1 DEF HandlerLoop, CallWait, JoinEngine, JoinHandler, vars, engineVars, exchangeVars, InEngine
  <2>2. CASE CallGet
    BY <2>2, TwoUsers DEF CallGet, Exchange!CallGet, Exchange!Goto, engineVars, InEngine, Inv,
       Exchange!ExchangeInv, Exchange!TypeOK
  <2>3. CASE SpuriousWakeup
    <3>1. PICK t \in Exchange!Users : Exchange!SpuriousWakeup(t)
      BY <2>3 DEF SpuriousWakeup
    <3>2. /\ pc[Exchange!Engine] = "leave" <=> pc'[Exchange!Engine] = "leave"
          /\ pc[Exchange!Engine] = "idle" <=> pc'[Exchange!Engine] = "idle"
      BY <3>1, TwoUsers DEF Exchange!SpuriousWakeup, Exchange!Goto, Inv, Exchange!ExchangeInv, Exchange!TypeOK
    <3> QED
      BY <1>1, <2>3, <3>2 DEF SpuriousWakeup, engineVars, InEngine
  <2>4. ASSUME NEW ok \in BOOLEAN, Run(ok) PROVE InEngine' = InEngine
    BY <1>1, <2>4 DEF Run, exchangeVars, Inv, ControlInv, InEngine
  <2> QED
    BY <2>1, <2>2, <2>3, <2>4 DEF MainStep
<1> QED
  BY <1>1, <1>2, PipeKept DEF InHandler, InStorage

PipeIsQueue == Pipe = rx

LEMMA InitPipe == ASSUME Init PROVE PipeIsQueue
<1>1. InHandler = <<>> /\ InStorage = <<>> /\ InEngine = <<>>
  BY NotABatch DEF Init, Exchange!Init, InHandler, InStorage, InEngine
<1>2. rx \in Seq(Frame)
  BY EarlyIsSeq DEF Init
<1>3. <<>> \o <<>> = <<>> /\ <<>> \o rx = rx
  BY <1>2, EmptySeq, ConcatEmptySeq
<1> QED
  BY <1>1, <1>3 DEF Pipe, PipeIsQueue

LEMMA StreamInit == Init => Stream!Init /\ CounterInv
<1> SUFFICES ASSUME Init PROVE Stream!Init /\ CounterInv
  OBVIOUS
<1>1. rx \in Seq(Frame) /\ PipeIsQueue
  BY EarlyIsSeq, InitPipe DEF Init
<1> QED
  BY <1>1 DEF Init, Stream!Init, CounterInv, Frame, Pipe, PipeIsQueue

(* Frames come in with FrameArrives and go out with Process only.          *)
LEMMA QuietStep ==
  ASSUME Inv, [Next]_vars, ~FrameArrives, ~Process PROVE UNCHANGED Stream!vars
<1>1. ASSUME NEW t \in Exchange!Users, InExchange(t) PROVE UNCHANGED Stream!vars
  BY <1>1, ExchangeStepKeeps
<1>2. CASE CallSet \/ SetReturns
  BY <1>2, SetCallStep
<1>3. CASE EngineAlone
  BY <1>3, EngineAloneStep
<1>4. CASE HandlerLoop \/ CallGet \/ SpuriousWakeup \/ MainStep \/ UNCHANGED vars
  BY <1>4, OtherStep
<1> QED
  BY <1>1, <1>2, <1>3, <1>4, TwoUsers DEF Next, EngineStep, HandlerStep

LEMMA StreamStep ==
  Inv /\ CounterInv /\ [Next]_vars => [Stream!Next]_(Stream!vars) /\ CounterInv'
<1> SUFFICES ASSUME Inv, CounterInv, [Next]_vars
             PROVE  [Stream!Next]_(Stream!vars) /\ CounterInv'
  OBVIOUS
<1>1. CASE FrameArrives
  <2>1. UNCHANGED <<captured, aborted>>
    BY <1>1 DEF FrameArrives, handlerVars, validation
  <2> QED
    BY <1>1, <2>1, SendStep DEF Stream!Next, CounterInv
<1>2. CASE Process
  <2>1. ~aborted \/ UNCHANGED vars
    BY DEF Next
  <2>2. ~UNCHANGED vars
    BY <1>2 DEF Process, Exchange!Processed, vars, exchangeVars
  <2> QED
    BY <1>2, <2>1, <2>2, ProcessStep
<1>3. CASE ~FrameArrives /\ ~Process
  <2>1. UNCHANGED Stream!vars
    BY <1>3, QuietStep
  <2> QED
    BY <2>1 DEF Stream!vars, CounterInv
<1> QED
  BY <1>1, <1>2, <1>3

(* Two threads, three copies of a buffer and a flag make up one pipe: no   *)
(* frame that reached the socket is lost, repeated or overtaken on its way *)
(* through BPFEngine::run, ValueExchangeBlocking and NumberCrusher::run,   *)
(* but behind a damaged one, and the Validator ends the program exactly on *)
(* a gap.                                                                  *)
THEOREM StreamTheorem == Spec => ImplementsStream
<1>1. Spec => [](Inv /\ CounterInv)
  BY StreamInit, StreamStep, InitInv, NextInv, PTL DEF Spec
<1>2. Spec => Stream!Init
  BY StreamInit DEF Spec
<1> QED
  BY <1>1, <1>2, StreamStep, PTL DEF Spec, ImplementsStream, Stream!Spec

-----------------------------------------------------------------------------
(* What findMinMax is given.                                               *)
PointsInv == points \in Seq(0..StreamMax) /\ PointsAreOnePiece

LEMMA JoinPieces ==
  ASSUME NEW p \in Seq(0..StreamMax), NEW s \in Seq(0..StreamMax), s # <<>>,
         Stream!Contiguous(p), Stream!Contiguous(s),
         p # <<>> => s[1] = Stream!Succ(p[Len(p)])
  PROVE  Stream!Contiguous(p \o s) /\ (p \o s)[Len(p \o s)] = s[Len(s)]
<1> DEFINE m == Len(p)
           n == Len(s)
           u == p \o s
<1>1. m \in Nat /\ n \in Nat \ {0} /\ (p # <<>> <=> m # 0)
  BY LenProperties, EmptySeq
<1>2. Len(u) = m + n /\ \A i \in 1..m : u[i] = p[i]
  BY ConcatProperties
<1>3. \A i \in (m + 1)..(m + n) : u[i] = s[i - m]
  BY <1>1, ConcatProperties
<1> HIDE DEF u
<1>4. ASSUME NEW i \in 1..(Len(u) - 1) PROVE u[i + 1] = Stream!Succ(u[i])
  <2>1. CASE i < m
    <3>1. i \in 1..(m - 1) /\ i \in 1..m /\ i + 1 \in 1..m
      BY <1>1, <1>2, <2>1
    <3> QED
      BY <1>2, <3>1 DEF Stream!Contiguous
  <2>2. CASE i = m
    <3>1. m \in 1..m /\ m + 1 \in (m + 1)..(m + n) /\ (m + 1) - m = 1 /\ p # <<>>
      BY <1>1, <1>2, <2>2
    <3> QED
      BY <1>2, <1>3, <2>2, <3>1
  <2>3. CASE i > m
    <3>1. /\ i \in (m + 1)..(m + n) /\ i + 1 \in (m + 1)..(m + n)
          /\ i - m \in 1..(n - 1) /\ (i + 1) - m = (i - m) + 1
      BY <1>1, <1>2, <2>3
    <3> QED
      BY <1>3, <3>1 DEF Stream!Contiguous
  <2> QED
    BY <1>1, <2>1, <2>2, <2>3
<1>5. m + n \in (m + 1)..(m + n) /\ (m + n) - m = n
  BY <1>1
<1> QED
  BY <1>2, <1>3, <1>4, <1>5 DEF Stream!Contiguous, u

LEMMA GoesOnIsPiece ==
  ASSUME CounterInv, NEW s \in Seq(0..StreamMax), Stream!GoesOn(s)
  PROVE  s # <<>> /\ Stream!Contiguous(s) /\ (captured # None => s[1] = Stream!Succ(captured))
<1>1. s # <<>> /\ Len(s) \in Nat \ {0}
  BY LenProperties, EmptySeq DEF Stream!GoesOn
<1>2. CASE captured = None
  BY <1>1, <1>2 DEF Stream!GoesOn
<1>3. CASE captured # None
  <2> DEFINE u == <<captured>> \o s
             n == Len(s)
  <2>1. <<captured>> \in Seq(0..StreamMax) /\ Len(<<captured>>) = 1
    BY <1>3 DEF CounterInv
  <2>2. Len(u) = n + 1 /\ u[1] = captured /\ \A i \in 2..(n + 1) : u[i] = s[i - 1]
    BY <1>1, <2>1, ConcatProperties
  <2>3. Stream!Contiguous(u)
    BY <1>3 DEF Stream!GoesOn
  <2> HIDE DEF u
  <2>4. s[1] = Stream!Succ(captured)
    <3>1. 1 \in 1..(Len(u) - 1) /\ 1 + 1 = 2 /\ 2 \in 2..(n + 1) /\ 2 - 1 = 1
      BY <1>1, <2>2
    <3> QED
      BY <2>2, <2>3, <3>1 DEF Stream!Contiguous
  <2>5. ASSUME NEW i \in 1..(n - 1) PROVE s[i + 1] = Stream!Succ(s[i])
    <3>1. /\ i + 1 \in 1..(Len(u) - 1) /\ i + 1 \in 2..(n + 1) /\ (i + 1) + 1 \in 2..(n + 1)
          /\ (i + 1) - 1 = i /\ ((i + 1) + 1) - 1 = i + 1
      BY <1>1, <2>2
    <3> QED
      BY <2>2, <2>3, <3>1 DEF Stream!Contiguous
  <2> QED
    BY <1>1, <2>4, <2>5 DEF Stream!Contiguous
<1> QED
  BY <1>2, <1>3

(* The points grow by what was validated.                                  *)
LEMMA CollectPoints ==
  ASSUME CounterInv, PointsInv, NEW s \in Seq(0..StreamMax),
         IF Valid(s) THEN captured' = s[Len(s)] /\ Collect(s) ELSE UNCHANGED <<captured, points>>
  PROVE  PointsInv' /\ captured' \in 0..StreamMax \cup {None}
<1>1. CASE ~Valid(s)
  BY <1>1 DEF CounterInv, PointsInv, PointsAreOnePiece, Stream!Contiguous
<1>2. CASE Valid(s)
  <2>1. s # <<>> /\ Stream!Contiguous(s) /\ (captured # None => s[1] = Stream!Succ(captured))
    BY <1>2, ValidIsGoesOn, GoesOnIsPiece
  <2>2. points # <<>> => points[Len(points)] = captured /\ captured # None
    <3>1. ASSUME points # <<>> PROVE points[Len(points)] \in 0..StreamMax
      <4>1. Len(points) \in 1..Len(points)
        BY <3>1, EmptySeq, LenProperties DEF PointsInv
      <4> QED
        BY <4>1, ElementOfSeq DEF PointsInv
    <3> QED
      BY <3>1, NoneIsNoCounter DEF PointsInv, PointsAreOnePiece
  <2>3. Stream!Contiguous(points \o s) /\ (points \o s)[Len(points \o s)] = s[Len(s)]
    BY <2>1, <2>2, JoinPieces DEF PointsInv, PointsAreOnePiece
  <2>4. points \o s \in Seq(0..StreamMax)
    BY ConcatProperties DEF PointsInv
  <2>5. points' \in {<<>>, points \o s}
    BY <1>2 DEF Collect
  <2>6. <<>> \in Seq(0..StreamMax) /\ Stream!Contiguous(<<>>)
    BY EmptySeq DEF Stream!Contiguous
  <2>7. s[Len(s)] \in 0..StreamMax
    <3>1. Len(s) \in 1..Len(s)
      BY <2>1, EmptySeq, LenProperties
    <3> QED
      BY <3>1, ElementOfSeq
  <2> QED
    BY <1>2, <2>3, <2>4, <2>5, <2>6, <2>7 DEF PointsInv, PointsAreOnePiece, Stream!Contiguous
<1> QED
  BY <1>1, <1>2

LEMMA ProcessPoints ==
  ASSUME CounterInv, PointsInv, Process, result \in Batch \cup {<<>>}
  PROVE  PointsInv' /\ captured' \in 0..StreamMax \cup {None}
<1> DEFINE Rest(gap) == SubSeq(result, 1, gap[1]) \o SubSeq(result, gap[2], Len(result))
<1>1. PICK gap \in Gaps(result) :
        IF Valid(Rest(gap)) THEN captured' = Rest(gap)[Len(Rest(gap))] /\ Collect(Rest(gap))
                            ELSE UNCHANGED <<captured, points>>
  BY DEF Process, Parse
<1>2. Rest(gap) \in Seq(0..StreamMax)
  BY KeptSamples
<1> HIDE DEF Rest
<1> QED
  BY <1>1, <1>2, CollectPoints

LEMMA OtherPoints ==
  ASSUME [Next]_vars, ~Process
  PROVE  UNCHANGED <<captured, points, aborted>>
<1> USE DEF handlerVars, validation
<1>1. CASE FrameArrives \/ EngineStep \/ SpuriousWakeup \/ MainStep
  BY <1>1 DEF FrameArrives, EngineStep, EngineAlone, CallSet, SetReturns, InExchange, SpuriousWakeup,
              MainStep, Run, CallWait, JoinEngine, JoinHandler, MainGoes
<1>2. CASE HandlerStep
  BY <1>2 DEF HandlerStep, HandlerLoop, CallGet, InExchange
<1> QED
  BY <1>1, <1>2 DEF Next, vars

(* findMinMax sees one piece of the stream: the samples NumberCrusher::run *)
(* collects over several batches follow each other up to the one the       *)
(* Validator has captured last, whatever was lost, damaged or cut out.     *)
THEOREM PointsTheorem == Spec => []PointsAreOnePiece
<1>1. Init => PointsInv
  BY EmptySeq DEF Init, PointsInv, PointsAreOnePiece, Stream!Contiguous
<1>2. Inv /\ CounterInv /\ PointsInv /\ [Next]_vars => PointsInv'
  <2> SUFFICES ASSUME Inv, CounterInv, PointsInv, [Next]_vars PROVE PointsInv'
    OBVIOUS
  <2>1. CASE Process
    <3>1. result \in Batch
      BY <2>1 DEF Process, Exchange!Processed, Inv, Exchange!ExchangeInv
    <3> QED
      BY <2>1, <3>1, ProcessPoints
  <2>2. CASE ~Process
    BY <2>2, OtherPoints DEF PointsInv, PointsAreOnePiece, Stream!Contiguous
  <2> QED
    BY <2>1, <2>2
<1>3. PointsInv => PointsAreOnePiece
  BY DEF PointsInv
<1> QED
  BY <1>1, <1>2, <1>3, StreamInit, StreamStep, InitInv, NextInv, PTL DEF Spec

-----------------------------------------------------------------------------
(* While nothing was dropped or damaged, and if nothing foreign was queued *)
(* at the start, what lies between the sample that was captured last and   *)
(* the one that is sent next is one piece.                                 *)
Delivered == IF captured = None THEN <<>> ELSE <<captured>>

Unbroken == /\ ~aborted
            /\ Pipe \in Seq(0..StreamMax)
            /\ Stream!Contiguous(Delivered \o Append(Pipe, nextFrame))

ChainInv == harmed \in Nat /\ (harmed > 0 \/ foreign \/ Unbroken)

LEMMA Pieces ==
  ASSUME NEW S, NEW p \in Seq(S), NEW q \in Seq(S), Stream!Contiguous(p \o q)
  PROVE  Stream!Contiguous(p) /\ Stream!Contiguous(q)
<1> DEFINE m == Len(p)
           n == Len(q)
           u == p \o q
<1>1. m \in Nat /\ n \in Nat
  BY LenProperties
<1>2. Len(u) = m + n /\ \A i \in 1..m : u[i] = p[i]
  BY ConcatProperties
<1>3. \A i \in (m + 1)..(m + n) : u[i] = q[i - m]
  BY <1>1, ConcatProperties
<1> HIDE DEF u
<1>4. \A i \in 1..(Len(u) - 1) : u[i + 1] = Stream!Succ(u[i])
  BY DEF Stream!Contiguous, u
<1>5. ASSUME NEW i \in 1..(m - 1) PROVE p[i + 1] = Stream!Succ(p[i])
  <2>1. i \in 1..(Len(u) - 1) /\ i \in 1..m /\ i + 1 \in 1..m
    BY <1>1, <1>2
  <2> QED
    BY <1>2, <1>4, <2>1
<1>6. ASSUME NEW i \in 1..(n - 1) PROVE q[i + 1] = Stream!Succ(q[i])
  <2>1. /\ m + i \in 1..(Len(u) - 1) /\ m + i \in (m + 1)..(m + n) /\ (m + i) + 1 \in (m + 1)..(m + n)
        /\ (m + i) - m = i /\ ((m + i) + 1) - m = i + 1
    BY <1>1, <1>2
  <2> QED
    BY <1>3, <1>4, <2>1
<1> QED
  BY <1>5, <1>6 DEF Stream!Contiguous

LEMMA PartsInSet ==
  ASSUME NEW S, NEW T, NEW p \in Seq(S), NEW q \in Seq(S), p \o q \in Seq(T)
  PROVE  p \in Seq(T) /\ q \in Seq(T)
<1> DEFINE m == Len(p)
           n == Len(q)
           u == p \o q
<1>1. m \in Nat /\ n \in Nat
  BY LenProperties
<1>2. Len(u) = m + n /\ \A i \in 1..m : u[i] = p[i]
  BY ConcatProperties
<1>3. \A i \in (m + 1)..(m + n) : u[i] = q[i - m]
  BY <1>1, ConcatProperties
<1> HIDE DEF u
<1>4. \A i \in 1..(m + n) : u[i] \in T
  BY <1>2, ElementOfSeq DEF u
<1>5. \A i \in 1..m : p[i] \in T
  BY <1>1, <1>2, <1>4
<1>6. \A i \in 1..n : q[i] \in T
  <2> TAKE i \in 1..n
  <2>1. m + i \in (m + 1)..(m + n) /\ m + i \in 1..(m + n) /\ (m + i) - m = i
    BY <1>1
  <2> QED
    BY <1>3, <1>4, <2>1
<1> QED
  BY <1>5, <1>6

LEMMA DeliveredType ==
  ASSUME CounterInv PROVE Delivered \in Seq(0..StreamMax)
<1>1. CASE captured = None
  BY <1>1, EmptySeq DEF Delivered
<1>2. CASE captured # None
  <2>1. captured \in 0..StreamMax
    BY <1>2 DEF CounterInv
  <2> QED
    BY <1>2, <2>1 DEF Delivered
<1> QED
  BY <1>1, <1>2

(* The frame that arrives is the one the piece goes on with.               *)
LEMMA ArriveUnbroken ==
  ASSUME Inv, CounterInv, ChainInv, FrameArrives PROVE ChainInv'
<1>1. PICK f \in {nextFrame, Damaged} :
        /\ Engine!Arrive(f)
        /\ harmed' = harmed + IF f = Damaged \/ Len(rx) >= RxMax THEN 1 ELSE 0
  BY DEF FrameArrives
<1>2. nextFrame \in 0..StreamMax
  BY DEF Inv, ControlInv
<1>3. harmed' \in Nat /\ foreign' = foreign
  BY <1>1 DEF ChainInv, FrameArrives
<1> SUFFICES ASSUME ~(harmed' > 0), ~foreign PROVE Unbroken'
  BY <1>3 DEF ChainInv
<1>4. f = nextFrame /\ Len(rx) < RxMax /\ ~(harmed > 0)
  <2>1. Len(rx) \in Nat /\ RxMax \in Nat
    BY LenProperties, PipelineAssumption DEF Inv, BufferInv
  <2> QED
    BY <1>1, <2>1 DEF ChainInv
<1>5. Unbroken /\ rx' = Append(rx, nextFrame)
  BY <1>1, <1>4 DEF ChainInv, Engine!Arrive
<1>6. nextFrame' = Stream!Succ(nextFrame) /\ nextFrame' \in 0..StreamMax
  BY <1>2, NextCounter DEF FrameArrives, Stream!Succ
<1>7. InHandler' = InHandler /\ InStorage' = InStorage /\ InEngine' = InEngine
      /\ UNCHANGED <<captured, aborted>>
  BY <1>1 DEF FrameArrives, Engine!Arrive, exchangeVars, handlerVars, validation,
              InHandler, InStorage, InEngine
<1>8. Pipe' = Append(Pipe, nextFrame)
  <2> DEFINE s == InHandler \o InStorage \o InEngine
  <2>1. s \in Seq(Frame) /\ rx \in Seq(Frame) /\ nextFrame \in Frame
    BY <1>2, PipeType, ConcatProperties DEF Frame
  <2>2. s' = s
    BY <1>7
  <2>3. s \o Append(rx, nextFrame) = Append(s \o rx, nextFrame)
    BY <2>1, AppendToConcat
  <2> QED
    BY <1>5, <2>2, <2>3 DEF Pipe
<1> DEFINE p == Append(Pipe, nextFrame)
           e == nextFrame'
<1>9. p \in Seq(0..StreamMax) /\ Append(p, e) \in Seq(0..StreamMax) /\ <<e>> \in Seq(0..StreamMax)
      /\ Append(p, e) = p \o <<e>>
  BY <1>2, <1>5, <1>6, AppendProperties, AppendIsConcat DEF Unbroken
<1>10. Delivered \o p \in Seq(0..StreamMax) /\ Delivered \o p # <<>>
       /\ (Delivered \o p)[Len(Delivered \o p)] = nextFrame
  <2>1. Delivered \o p = Append(Delivered \o Pipe, nextFrame) /\ Delivered \o Pipe \in Seq(0..StreamMax)
    BY <1>2, <1>5, DeliveredType, AppendToConcat, ConcatProperties DEF Unbroken
  <2> QED
    BY <1>2, <2>1, AppendProperties, LenProperties
<1>11. Stream!Contiguous((Delivered \o p) \o <<e>>)
  <2>1. Stream!Contiguous(<<e>>) /\ <<e>> # <<>> /\ <<e>>[1] = e
    BY DEF Stream!Contiguous
  <2>2. Stream!Contiguous(Delivered \o p)
    BY <1>5 DEF Unbroken
  <2> HIDE DEF p, e
  <2>3. e = Stream!Succ((Delivered \o p)[Len(Delivered \o p)])
    BY <1>6, <1>10 DEF e
  <2> QED
    BY <1>9, <1>10, <2>1, <2>2, <2>3, JoinPieces
<1>12. Delivered \o (p \o <<e>>) = (Delivered \o p) \o <<e>>
  <2> HIDE DEF p, e
  <2>1. Delivered \in Seq(0..StreamMax)
    BY DeliveredType
  <2> QED
    BY <1>9, <2>1, ConcatAssociative
<1>13. Delivered' = Delivered /\ ~aborted'
  BY <1>5, <1>7 DEF Delivered, Unbroken
<1> QED
  BY <1>8, <1>9, <1>11, <1>12, <1>13 DEF Unbroken

(* A batch out of the piece is delivered whole, and what it leaves behind  *)
(* is a piece again.                                                       *)
LEMMA ProcessUnbroken ==
  ASSUME Inv, CounterInv, Unbroken, Process PROVE Unbroken'
<1> DEFINE n == Len(result)
<1>1. result \in Batch /\ InHandler = result
  BY DEF Process, Exchange!Processed, Inv, Exchange!ExchangeInv, InHandler
<1>2. result \in Seq(Frame) /\ result # <<>> /\ n \in Nat \ {0}
  BY <1>1, BatchIsSeq
<1>3. PICK rest \in Seq(Frame) : Pipe = result \o rest /\ Pipe' = rest
  BY ProcessTakes DEF Pipe
<1>4. result \in Seq(0..StreamMax) /\ rest \in Seq(0..StreamMax)
  BY <1>2, <1>3, PartsInSet DEF Unbroken
<1>5. nextFrame \in 0..StreamMax /\ nextFrame' = nextFrame
  BY DEF Inv, ControlInv, Process, sender
<1> DEFINE tail == Append(rest, nextFrame)
           final == result[n]
           front == SubSeq(result, 1, n - 1)
<1>6. final \in 0..StreamMax /\ front \in Seq(0..StreamMax) /\ result = front \o <<final>>
  <2>1. n \in 1..n
    BY <1>2
  <2>2. final \in 0..StreamMax
    BY <1>4, <2>1, ElementOfSeq
  <2>3. n - 1 \in 0..n
    BY <1>2
  <2>4. front \in Seq(0..StreamMax)
    <3>1. n = Len(result) /\ 1 \in 1..(n + 1)
      BY <1>2
    <3>2. \A i \in 1..(n - 1) : result[i] \in 0..StreamMax
      <4>1. \A i \in 1..Len(result) : result[i] \in 0..StreamMax
        BY <1>4, ElementOfSeq
      <4> QED
        BY <1>2, <4>1
    <3> QED
      BY <1>4, <2>3, <3>1, <3>2, SubSeqProperties
  <2>5. Append(front, final) = result
    BY <1>2, <1>4
  <2> QED
    BY <2>2, <2>4, <2>5, AppendIsConcat
<1>7. tail \in Seq(0..StreamMax) /\ Append(result \o rest, nextFrame) = result \o tail
  <2>1. tail \in Seq(0..StreamMax)
    BY <1>4, <1>5, AppendProperties
  <2>2. result \o Append(rest, nextFrame) = Append(result \o rest, nextFrame)
    BY <1>4, <1>5, AppendToConcat
  <2> QED
    BY <2>1, <2>2
<1> HIDE DEF tail, final, front
<1>8. Delivered \in Seq(0..StreamMax)
  BY DeliveredType
<1>9. /\ Delivered \o result \in Seq(0..StreamMax) /\ result \o tail \in Seq(0..StreamMax)
      /\ <<final>> \in Seq(0..StreamMax) /\ <<final>> \o tail \in Seq(0..StreamMax)
  BY <1>4, <1>6, <1>7, <1>8, ConcatProperties
<1>10. Stream!Contiguous(Delivered \o (result \o tail))
  BY <1>3, <1>7 DEF Unbroken
<1>11. Stream!Contiguous(Delivered \o result)
  <2>1. Delivered \o (result \o tail) = (Delivered \o result) \o tail
    <3>1. result \in Seq(0..StreamMax) /\ tail \in Seq(0..StreamMax)
      BY <1>4, <1>7
    <3> QED
      BY <1>8, <3>1, ConcatAssociative
  <2> QED
    BY <1>7, <1>9, <1>10, <2>1, Pieces
<1>12. Stream!Contiguous(<<final>> \o tail)
  <2>1. Stream!Contiguous(result \o tail)
    BY <1>8, <1>9, <1>10, Pieces
  <2>2. result \o tail = front \o (<<final>> \o tail)
    BY <1>6, <1>7, <1>9, ConcatAssociative
  <2> QED
    BY <1>6, <1>9, <2>1, <2>2, Pieces
<1>13. Valid(result)
  <2>1. captured = None => Delivered \o result = result
    BY <1>4, ConcatEmptySeq DEF Delivered
  <2>2. Stream!GoesOn(result)
    BY <1>2, <1>11, <2>1 DEF Stream!GoesOn, Delivered
  <2> QED
    BY <1>4, <2>2, ValidIsGoesOn
<1>14. captured' = final /\ UNCHANGED aborted
  <2>1. Whole(result, 1, n)
    <3>1. \A i \in 1..n : result[i] \in 0..StreamMax
      BY <1>4, ElementOfSeq
    <3> QED
      BY <3>1, PipelineAssumption DEF Whole
  <2>2. \A gap \in Gaps(result) : gap[1] = n /\ gap[2] = n + 1
    BY <2>1 DEF Gaps
  <2>3. SubSeq(result, 1, n) \o SubSeq(result, n + 1, n) = result
    <3>1. SubSeq(result, 1, n) = result /\ SubSeq(result, n + 1, n) = <<>>
      BY <1>2, <1>4, SubSeqFull, SubSeqEmpty
    <3> QED
      BY <1>4, <3>1, ConcatEmptySeq
  <2>4. PICK gap \in Gaps(result) :
          LET sequence == SubSeq(result, 1, gap[1]) \o SubSeq(result, gap[2], n) IN
          Valid(sequence) => captured' = sequence[Len(sequence)] /\ UNCHANGED aborted
    BY DEF Process, Parse
  <2>5. SubSeq(result, 1, gap[1]) \o SubSeq(result, gap[2], n) = result
    BY <2>2, <2>3, <2>4
  <2> QED
    BY <1>13, <2>4, <2>5 DEF final
<1>15. Delivered' = <<final>>
  BY <1>6, <1>14, NoneIsNoCounter DEF Delivered
<1>16. Append(Pipe', nextFrame') = tail
  BY <1>3, <1>5 DEF tail
<1> QED
  BY <1>3, <1>4, <1>12, <1>14, <1>15, <1>16 DEF Unbroken

LEMMA NextChain ==
  ASSUME Inv, CounterInv, ChainInv, [Next]_vars PROVE ChainInv'
<1>1. CASE FrameArrives
  BY <1>1, ArriveUnbroken
<1>2. CASE ~FrameArrives
  <2>1. UNCHANGED <<harmed, foreign>>
    BY <1>2 DEF Next, EngineStep, EngineAlone, CallSet, SetReturns, InExchange, HandlerStep, HandlerLoop,
       CallGet, Process, SpuriousWakeup, MainStep, Run, CallWait, JoinEngine, JoinHandler, MainGoes,
       Engine!Loop, Engine!ReadTo, Engine!Test, Engine!ResetBuffer, vars, engineVars, sender
  <2>2. CASE Process
    BY <2>1, <2>2, ProcessUnbroken DEF ChainInv
  <2>3. CASE ~Process
    <3>1. UNCHANGED Stream!vars
      BY <1>2, <2>3, QuietStep
    <3>2. UNCHANGED <<Pipe, nextFrame, captured, aborted>>
      BY <3>1 DEF Stream!vars, Pipe
    <3>3. Unbroken' <=> Unbroken
      BY <3>2 DEF Unbroken, Delivered, Stream!Contiguous, Stream!Succ
    <3> QED
      BY <2>1, <3>3 DEF ChainInv
  <2> QED
    BY <2>2, <2>3
<1> QED
  BY <1>1, <1>2

LEMMA ElementsInSet ==
  ASSUME NEW S, NEW T, NEW p \in Seq(S), \A i \in 1..Len(p) : p[i] \in T PROVE p \in Seq(T)
  BY LenProperties

(* The queue at the start is a piece that ends before the next frame.      *)
LEMMA InitChain == ASSUME Init PROVE ChainInv
<1> SUFFICES ASSUME ~foreign PROVE Unbroken
  BY DEF Init, ChainInv
<1> DEFINE p == Append(rx, nextFrame)
           n == Len(rx)
<1>1. Pipe = rx /\ captured = None /\ aborted = FALSE
  BY InitPipe DEF Init, PipeIsQueue
<1>2. nextFrame \in 0..StreamMax /\ rx \in Seq(Frame) /\ n \in Nat
  BY EarlyIsSeq, LenProperties DEF Init
<1>3. \A i \in 1..n : /\ rx[i] \in 0..StreamMax
                      /\ Stream!Succ(rx[i]) = IF i = n THEN nextFrame ELSE rx[i + 1]
  <2> TAKE i \in 1..n
  <2>1. /\ rx[i] # Damaged
        /\ After(rx[i], 0, StreamMax) = IF i = n THEN nextFrame ELSE rx[i + 1]
    BY DEF Init, OwnFrames
  <2>2. rx[i] \in 0..StreamMax
    BY <1>2, <2>1, ElementOfSeq DEF Frame
  <2> QED
    BY <2>1, <2>2, NextCounter DEF Stream!Succ
<1>4. rx \in Seq(0..StreamMax)
  <2>1. \A i \in 1..Len(rx) : rx[i] \in 0..StreamMax
    BY <1>3
  <2> QED
    BY <1>2, <2>1, ElementsInSet
<1>5. /\ p \in Seq(0..StreamMax) /\ Len(p) = n + 1 /\ p[n + 1] = nextFrame
      /\ \A i \in 1..n : p[i] = rx[i]
  BY <1>2, <1>4, AppendProperties
<1>6. Stream!Contiguous(p)
  <2> HIDE DEF p
  <2> SUFFICES ASSUME NEW i \in 1..n PROVE p[i + 1] = Stream!Succ(p[i])
    BY <1>2, <1>5 DEF Stream!Contiguous
  <2> QED
    BY <1>2, <1>3, <1>5
<1>7. Delivered \o Append(Pipe, nextFrame) = p
  BY <1>1, <1>5, ConcatEmptySeq DEF Delivered
<1> QED
  BY <1>1, <1>4, <1>6, <1>7 DEF Unbroken

(* The Validator's exception is never a false alarm: whatever the threads  *)
(* do and however the counter wraps round, a program that received every   *)
(* frame undamaged, and found no frames of others in its queue, does not   *)
(* abort (Validator::validate, validator.cpp:29, under                     *)
(* Strategy::ThrowException).  Any number of frames may be harmed.         *)
THEOREM AlarmTheorem == Spec => []NoFalseAlarm
<1>1. Init => ChainInv
  BY InitChain
<1>2. Inv /\ CounterInv /\ ChainInv /\ [Next]_vars => ChainInv'
  BY NextChain
<1>3. ChainInv => NoFalseAlarm
  BY DEF ChainInv, Unbroken, NoFalseAlarm
<1> QED
  BY <1>1, <1>2, <1>3, StreamInit, StreamStep, InitInv, NextInv, PTL DEF Spec

-----------------------------------------------------------------------------
(* What is left of this when PipelineBuilder::stop is called: reset takes  *)
(* no mutex and raises the flag over whatever the storage holds, so that   *)
(* the exchange's invariant is lost.  The threads are still where their    *)
(* calls took them, and the engine's buffer is untouched.                  *)
StopInv == ControlInv /\ BufferInv /\ Exchange!TypeOK

LEMMA SameReset == Exchange!Reset <=> ExchangeProofs!Reset
  BY DEF Exchange!Reset, ExchangeProofs!Reset, Exchange!ResetStore, ExchangeProofs!ResetStore,
         Exchange!ResetNotify, ExchangeProofs!ResetNotify, Exchange!NotifyOne, ExchangeProofs!NotifyOne

LEMMA SameType == Exchange!TypeOK <=> ExchangeProofs!TypeOK
  BY DEF Exchange!TypeOK, ExchangeProofs!TypeOK, Exchange!Labels, ExchangeProofs!Labels,
         Exchange!Users, ExchangeProofs!Users, Exchange!Engine, ExchangeProofs!Engine,
         Exchange!Handler, ExchangeProofs!Handler, Exchange!Nobody, ExchangeProofs!Nobody

LEMMA SameMutex == Exchange!MutexHeld <=> ExchangeProofs!MutexHeld
  BY DEF Exchange!MutexHeld, ExchangeProofs!MutexHeld,
         Exchange!Users, ExchangeProofs!Users, Exchange!Engine, ExchangeProofs!Engine,
         Exchange!Handler, ExchangeProofs!Handler

LEMMA SameResetNext ==
  [Exchange!Next \/ Exchange!Reset]_(Exchange!vars)
    <=> [ExchangeProofs!Next \/ ExchangeProofs!Reset]_(ExchangeProofs!vars)
  BY SameNext, SameReset DEF Exchange!vars, ExchangeProofs!vars

LEMMA NextType ==
  Exchange!TypeOK /\ [Exchange!Next \/ Exchange!Reset]_(Exchange!vars) => Exchange!TypeOK'
<1>1. ExchangeProofs!TypeOK /\ [ExchangeProofs!Next \/ ExchangeProofs!Reset]_(ExchangeProofs!vars)
        => ExchangeProofs!TypeOK'
  BY NotABatch, ExchangeProofs!TypeStep
<1> QED
  BY <1>1, SameResetNext, SameType, PTL

(* The steps of stop: they move no frame and no thread but the main one.   *)
LEMMA StopKeeps ==
  ASSUME Stop
  PROVE  /\ UNCHANGED <<rx, frames, written, enginePc, handlerPc, nextFrame, captured, points, aborted>>
         /\ UNCHANGED <<pc, value, result>>
         /\ mainPc # "run" /\ mainPc' # "run"
         /\ UNCHANGED exchangeVars \/ Exchange!Reset
<1> USE DEF engineVars, exchangeVars, handlerVars, validation, sender
<1>1. CASE StopEngine
  BY <1>1 DEF StopEngine, MainGoes, Engine!StopEngine
<1>2. CASE StopHandler
  BY <1>2 DEF StopHandler
<1>3. CASE ResetExchange
  BY <1>3 DEF ResetExchange, Exchange!Reset, Exchange!ResetStore, Exchange!ResetNotify
<1> QED
  BY <1>1, <1>2, <1>3 DEF Stop

LEMMA ResetExchangeStep ==
  ASSUME BufferInv, [StopNext]_vars
  PROVE  [Exchange!Next \/ Exchange!Reset]_(Exchange!vars)
<1>1. CASE Stop
  BY <1>1, StopKeeps DEF exchangeVars, Exchange!vars
<1>2. CASE [Next]_vars
  BY <1>2, ExchangeStep
<1> QED
  BY <1>1, <1>2 DEF StopNext

LEMMA StopInitInv == Init => StopInv
  BY InitInv DEF Inv, StopInv, Exchange!ExchangeInv

LEMMA StopNextInv == StopInv /\ [StopNext]_vars => StopInv'
<1> SUFFICES ASSUME StopInv, [StopNext]_vars
             PROVE  StopInv'
  OBVIOUS
<1>1. Exchange!TypeOK'
  BY ResetExchangeStep, NextType DEF StopInv
<1>2. CASE Stop
  BY <1>1, <1>2, StopKeeps DEF StopInv, ControlInv, BufferInv
<1>3. CASE [Next]_vars
  BY <1>1, <1>3, NextControl, NextBuffer DEF StopInv
<1> QED
  BY <1>2, <1>3 DEF StopNext

(* With stop too, all that happens to the exchange are calls of get, of    *)
(* set with a filled buffer, and of one reset.                             *)
THEOREM StopUsesTheorem == StopSpec => Exchange!ResetSpec
<1>1. Init => Exchange!Init
  BY DEF Init
<1>2. StopInv /\ [StopNext]_vars => [Exchange!Next \/ Exchange!Reset]_(Exchange!vars)
  BY ResetExchangeStep DEF StopInv
<1> QED
  BY <1>1, <1>2, StopInitInv, StopNextInv, PTL DEF StopSpec, Exchange!ResetSpec

(* While stop is called from the main thread (pipeline_builder.h), the two *)
(* others never move into and out of the storage at the same time.         *)
THEOREM StopMutexTheorem == StopSpec => []Exchange!MutexHeld
<1>1. ExchangeProofs!ResetSpec => []ExchangeProofs!MutexHeld
  BY NotABatch, ExchangeProofs!MutexTheorem
<1>2. Exchange!ResetSpec => ExchangeProofs!ResetSpec
  BY SameInit, SameResetNext, PTL DEF Exchange!ResetSpec, ExchangeProofs!ResetSpec
<1> QED
  BY <1>1, <1>2, StopUsesTheorem, SameMutex, PTL

(* reset may make get return a batch a second time, or one nobody filled;  *)
(* the Validator keeps both from the points: findMinMax never sees the     *)
(* samples of a repeated batch, nor any behind a gap.                      *)
THEOREM StopPointsTheorem == StopSpec => []PointsAreOnePiece
<1>1. Init => PointsInv /\ CounterInv
  BY StreamInit, EmptySeq DEF Init, PointsInv, PointsAreOnePiece, Stream!Contiguous
<1>2. StopInv /\ CounterInv /\ PointsInv /\ [StopNext]_vars => CounterInv' /\ PointsInv'
  <2> SUFFICES ASSUME StopInv, CounterInv, PointsInv, [StopNext]_vars
               PROVE  CounterInv' /\ PointsInv'
    OBVIOUS
  <2>1. CASE UNCHANGED <<captured, points, aborted>>
    BY <2>1 DEF CounterInv, PointsInv, PointsAreOnePiece, Stream!Contiguous
  <2>2. CASE Stop
    BY <2>1, <2>2, StopKeeps
  <2>3. CASE [Next]_vars /\ ~Process
    BY <2>1, <2>3, OtherPoints
  <2>4. CASE Process
    <3>1. result \in Batch \cup {<<>>}
      BY <2>4 DEF Process, Exchange!Processed, StopInv, Exchange!TypeOK
    <3>2. aborted' \in BOOLEAN
      BY <2>4 DEF Process, CounterInv
    <3> QED
      BY <2>4, <3>1, <3>2, ProcessPoints DEF CounterInv
  <2> QED
    BY <2>2, <2>3, <2>4 DEF StopNext
<1>3. PointsInv => PointsAreOnePiece
  BY DEF PointsInv
<1> QED
  BY <1>1, <1>2, <1>3, StopInitInv, StopNextInv, PTL DEF StopSpec
=============================================================================
