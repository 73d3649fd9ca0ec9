------------------------------ MODULE Pipeline ------------------------------
(***************************************************************************)
(* The whole program (src/main.cpp,                                        *)
(* include/iec_core/pipeline_builder.h): the engine's thread reads frames  *)
(* into batches (BPFEngine), the exchange passes them on                   *)
(* (ValueExchangeBlocking), the handler's thread parses and validates them *)
(* (include/iec_core/handlers/number_crusher.h), and the main thread       *)
(* starts the two and joins them, or stops them.                           *)
(*                                                                         *)
(* A frame is the counter of its one sample, as in an 80-point stream, or  *)
(* Damaged: one that comes into the queue and the parser gets no sample    *)
(* from.  Frames are not cut off (BPFEngine shows when).  An exception in  *)
(* a thread ends the program: nothing catches it.                          *)
(***************************************************************************)
EXTENDS SmpCount, Sequences

CONSTANTS FrameLength, Size, Threshold, RxMax,   \* of the engine
          Window,                                \* the 512 of NumberCrusher::run
          EarlyMax,   \* bound: the frames queued before the BPF program is attached
          HarmMax,    \* bound: the frames dropped or damaged later on
          Damaged,
          None                                   \* no batch

StreamMax == Max80p
Frame     == 0..StreamMax \cup {Damaged}
FrameSize == [f \in Frame |-> FrameLength]
FramesPerBatch == (Size - Threshold) \div FrameLength + 1
Batch     == UNION {[1..n -> Frame] : n \in 1..FramesPerBatch}

ASSUME PipelineAssumption ==
  /\ FrameLength \in Nat \ {0} /\ Size \in Nat \ {0} /\ RxMax \in Nat \ {0}
  /\ Threshold \in FrameLength..Size   \* no frame is cut off
  /\ Window \in Nat /\ EarlyMax \in 0..RxMax /\ HarmMax \in Nat
  /\ Damaged \notin 0..StreamMax
  /\ None \notin Batch \cup Frame \cup {<<>>}

VARIABLES rx, dropped, frames, written, truncated, enginePc, engineRunning, handed,
          storage, isFilled, mutex, waiters, pc, resetPc, value, result,
          handlerPc, handlerRunning,
          captured,    \* the Validator's capturedSmpSync; None in State::Initial
          points,      \* the points collected for findMinMax
          mainPc,
          aborted,     \* std::terminate
          nextFrame,   \* the sender's counter
          harmed,      \* how many frames have been dropped or damaged
          foreign      \* the queue held other frames when the threads were started

engineVars   == <<rx, dropped, frames, written, truncated, enginePc, engineRunning, handed>>
exchangeVars == <<storage, isFilled, mutex, waiters, pc, resetPc, value, result>>
validation   == <<captured, points, aborted>>
handlerVars  == <<handlerPc, handlerRunning, validation>>
sender       == <<nextFrame, harmed, foreign>>
vars == <<engineVars, exchangeVars, handlerVars, mainPc, sender>>

Engine   == INSTANCE BPFEngine
Exchange == INSTANCE ValueExchangeBlocking WITH EmptyBuffer <- <<>>

(* Bound: no two damaged frames come into one batch, which is what the     *)
(* parser has been checked for (LosesOnePiece).                            *)
OneDamaged(queue) ==
  \A i, j \in 1..Len(queue) : queue[i] = Damaged /\ queue[j] = Damaged => i = j

(* External: what the socket has taken in by the time the threads are      *)
(* started.  Until the program is attached those are any frames, of other  *)
(* streams and other protocols too, which are Damaged to the parser.       *)
Early == {queue \in UNION {[1..n -> Frame] : n \in 0..EarlyMax} : OneDamaged(queue)}

(* Nothing but the sender's own frames, up to the one it sends next.       *)
OwnFrames(queue, next) ==
  \A i \in 1..Len(queue) :
    /\ queue[i] # Damaged
    /\ After(queue[i], 0, StreamMax) = IF i = Len(queue) THEN next ELSE queue[i + 1]

Init == /\ rx \in Early /\ dropped = FALSE
        /\ frames = <<>> /\ written = 0 /\ truncated = FALSE
        /\ enginePc = "notStarted" /\ engineRunning = TRUE
        /\ handed = <<>>
        /\ Exchange!Init
        /\ handlerPc = "notStarted" /\ handlerRunning = TRUE
        /\ captured = None /\ points = <<>> /\ aborted = FALSE
        /\ mainPc = "run"
        /\ nextFrame \in 0..StreamMax /\ harmed = 0
        /\ foreign = ~OwnFrames(rx, nextFrame)

-----------------------------------------------------------------------------
(* External: the sender's next frame reaches the interface, as it was sent *)
(* or not, and is queued or dropped.  When HarmMax frames have been harmed *)
(* all others come as they were sent, and none comes that has no room.     *)
FrameArrives == /\ enginePc # "notStarted"
                /\ \E frame \in {nextFrame, Damaged} :
                     /\ OneDamaged(Append(frames \o rx, frame))
                     /\ harmed' = harmed + IF frame = Damaged \/ Len(rx) >= RxMax THEN 1 ELSE 0
                     /\ harmed' <= HarmMax
                     /\ Engine!Arrive(frame)
                /\ nextFrame' = After(nextFrame, 0, StreamMax)
                /\ UNCHANGED <<foreign, exchangeVars, handlerVars, mainPc>>

(* BPFEngine::run.  Its call of set is a step of its own, and so is its    *)
(* return, when the buffer is reset.                                       *)
EngineAlone == /\ Engine!Loop \/ Engine!ReadTo \/ Engine!Test
               /\ UNCHANGED <<exchangeVars, handlerVars, mainPc, sender>>

CallSet == /\ enginePc = "handOver" /\ enginePc' = "inSet"
           /\ Exchange!CallSet(frames)
           /\ UNCHANGED <<rx, dropped, frames, written, truncated, engineRunning, handed,
                          handlerVars, mainPc, sender>>

SetReturns == /\ enginePc = "inSet" /\ pc[Exchange!Engine] = "idle"
              /\ enginePc' = "loop"
              /\ Engine!ResetBuffer
              /\ UNCHANGED <<rx, dropped, engineRunning, handed,
                             exchangeVars, handlerVars, mainPc, sender>>

InExchange(t) == /\ Exchange!Step(t)
                 /\ UNCHANGED <<engineVars, handlerVars, mainPc, sender>>

EngineStep == EngineAlone \/ CallSet \/ SetReturns \/ InExchange(Exchange!Engine)

-----------------------------------------------------------------------------
(* NumberCrusher::run.                                                     *)
HandlerLoop == /\ handlerPc = "loop"
               /\ handlerPc' = IF handlerRunning THEN "get" ELSE "returned"
               /\ UNCHANGED <<engineVars, exchangeVars, handlerRunning, validation, mainPc, sender>>

CallGet == /\ handlerPc = "get" /\ handlerPc' = "inGet"
           /\ Exchange!CallGet
           /\ UNCHANGED <<engineVars, handlerRunning, validation, mainPc, sender>>

(* Mutation: each batch is validated on its own.                           *)
ValidInside(batch) ==
  batch # <<>> /\ \A i \in 2..Len(batch) : Follows(batch[i - 1], batch[i])

(* Validator::update with Strategy::ThrowException returns.                *)
Valid(batch) ==
  /\ batch # <<>>
  /\ \A i \in 1..Len(batch) :
       LET previous == IF i = 1 THEN captured ELSE batch[i - 1] IN
       previous = None \/ Follows(previous, batch[i])

(* convert, and findMinMax when there are enough points.                   *)
Collect(batch) == points' = IF Len(points \o batch) > Window THEN <<>> ELSE points \o batch

(* The outcomes of parse: the whole batch, or everything up to the first   *)
(* damaged frame and what comes after the place where the parser finds a   *)
(* frame's start again.  A gap is the frame before it and the one behind.  *)
Whole(batch, from, to) == \A i \in from..to : batch[i] # Damaged
Gaps(batch) ==
  LET n == Len(batch) IN
  {gap \in (0..n) \X (1..(n + 1)) :
     /\ gap[1] < gap[2] /\ Whole(batch, 1, gap[1]) /\ Whole(batch, gap[2], n)
     /\ IF Whole(batch, 1, n) THEN gap = <<n, n + 1>>
                              ELSE gap[1] + 1 < gap[2] /\ batch[gap[1] + 1] = Damaged}
Parse(batch) ==
  {SubSeq(batch, 1, gap[1]) \o SubSeq(batch, gap[2], Len(batch)) : gap \in Gaps(batch)}

(* parse, update, convert and the search for extremes, up to the next get. *)
Process == /\ handlerPc = "inGet" /\ pc[Exchange!Handler] = "idle"
           /\ Exchange!Processed
           /\ \E sequence \in Parse(result) :
                IF Valid(sequence)
                  THEN /\ handlerPc' = "loop"
                       /\ captured' = sequence[Len(sequence)] /\ Collect(sequence)
                       /\ UNCHANGED aborted
                  ELSE aborted' = TRUE /\ UNCHANGED <<handlerPc, captured, points>>
           /\ UNCHANGED <<engineVars, handlerRunning, mainPc, sender>>

HandlerStep == HandlerLoop \/ CallGet \/ Process \/ InExchange(Exchange!Handler)

SpuriousWakeup == /\ \E t \in Exchange!Users : Exchange!SpuriousWakeup(t)
                  /\ UNCHANGED <<engineVars, handlerVars, mainPc, sender>>

-----------------------------------------------------------------------------
(* PipelineBuilder::run: without the engine's setup no thread is started.  *)
Run(ok) ==
  /\ mainPc = "run"
  /\ IF ok THEN enginePc' = "loop" /\ handlerPc' = "loop"
           ELSE UNCHANGED <<enginePc, handlerPc>>
  /\ mainPc' = "started"
  /\ UNCHANGED <<rx, dropped, frames, written, truncated, engineRunning, handed, exchangeVars,
                 handlerRunning, validation, sender>>

MainGoes(from, to) == /\ mainPc = from /\ mainPc' = to
                      /\ UNCHANGED <<handlerVars, sender>>

(* wait: a thread that was never started is not joinable.                  *)
CallWait == /\ MainGoes("started", "joinEngine")
            /\ UNCHANGED <<engineVars, exchangeVars>>

JoinEngine == /\ enginePc \in {"notStarted", "returned"}
              /\ MainGoes("joinEngine", "joinHandler")
              /\ UNCHANGED <<engineVars, exchangeVars>>

JoinHandler == /\ handlerPc \in {"notStarted", "returned"}
               /\ MainGoes("joinHandler", "finished")
               /\ UNCHANGED <<engineVars, exchangeVars>>

MainStep == (\E ok \in BOOLEAN : Run(ok)) \/ CallWait \/ JoinEngine \/ JoinHandler

(* PipelineBuilder::stop, in place of wait: engine.stop, handler.stop, the *)
(* four steps of exchange.reset, and wait.                                 *)
StopEngine == /\ MainGoes("started", "stopHandler")
              /\ Engine!StopEngine
              /\ UNCHANGED exchangeVars

StopHandler == /\ mainPc = "stopHandler" /\ mainPc' = "reset"
               /\ handlerRunning' = FALSE
               /\ UNCHANGED <<engineVars, exchangeVars, handlerPc, validation, sender>>

ResetExchange == /\ mainPc = "reset"
                 /\ Exchange!Reset
                 /\ mainPc' = IF resetPc' = "done" THEN "joinEngine" ELSE "reset"
                 /\ UNCHANGED <<engineVars, handlerVars, sender>>

Stop == StopEngine \/ StopHandler \/ ResetExchange

-----------------------------------------------------------------------------
Next == /\ ~aborted
        /\ FrameArrives \/ EngineStep \/ HandlerStep \/ SpuriousWakeup \/ MainStep

StopNext == Next \/ (~aborted /\ Stop)

Spec     == Init /\ [][Next]_vars
StopSpec == Init /\ [][StopNext]_vars

(* The three threads are scheduled, spurious wakeups do not go on for      *)
(* ever, and frames keep coming: the stream's period is fixed.             *)
Fairness == /\ WF_vars(~aborted /\ EngineStep)
            /\ WF_vars(~aborted /\ HandlerStep)
            /\ WF_vars(~aborted /\ (MainStep \/ Stop))
            /\ WF_vars(~aborted /\ FrameArrives)
            /\ <>[][~SpuriousWakeup]_vars

FairSpec     == Spec /\ Fairness
FairStopSpec == StopSpec /\ Fairness
-----------------------------------------------------------------------------
(* Where the frames are that the program has received and the Validator    *)
(* has not captured, oldest first: the handler's batch, the storage, the   *)
(* engine's buffer (unless set has already stored it) and the socket.      *)
InHandler == IF result = None THEN <<>> ELSE result
InStorage == IF isFilled THEN storage ELSE <<>>
InEngine  == IF pc[Exchange!Engine] = "leave" \/ (enginePc = "inSet" /\ pc[Exchange!Engine] = "idle")
               THEN <<>> ELSE frames

Stream == INSTANCE SampleStream
            WITH next <- nextFrame, last <- captured, alarmed <- aborted,
                 pipe <- InHandler \o InStorage \o InEngine \o rx

(* Two threads, three copies of a buffer and a flag make up one pipe: no   *)
(* frame that reached the socket is lost, repeated or overtaken before the *)
(* Validator has it, and the program aborts exactly on a gap.              *)
ImplementsStream == Stream!Spec

(* findMinMax never sees samples from both sides of a loss, nor from two   *)
(* places of the stream: the points collected over several batches are one *)
(* piece that ends with the sample validated last.                         *)
PointsAreOnePiece == /\ Stream!Contiguous(points)
                     /\ points # <<>> => points[Len(points)] = captured

(* The program aborts only after a frame was dropped or damaged, or when   *)
(* it was started on a queue with frames that are not the stream's.        *)
NoFalseAlarm == aborted => harmed > 0 \/ foreign

(* The two loops use the exchange as its own specification says: nothing   *)
(* but filled buffers is set, and get is not called before the last batch  *)
(* was processed.                                                          *)
UsesExchange == Exchange!Spec

(* Once started, the handler is given batch after batch, unless the        *)
(* program aborts; the threads never block each other for good.            *)
KeepsProcessing == enginePc # "notStarted" ~> \/ aborted
                                              \/ (handlerPc = "inGet" /\ result # None)

(* "Stops the running thread": after stop, both threads come to an end and *)
(* are joined.                                                             *)
StopReturns == mainPc = "stopHandler" ~> mainPc = "finished" \/ aborted
=============================================================================
