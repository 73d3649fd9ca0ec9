----------------------------- MODULE BPFEngine -----------------------------
(***************************************************************************)
(* engines::BPFEngine (include/iec_core/engines/bpf_engine.h, run): the    *)
(* loop that fills one StaticBuffer with frames from a raw, non-blocking   *)
(* socket (include/iec_core/utils/socket.h, readTo) and hands it over to   *)
(* the exchange when less than Threshold bytes are free.  The kernel puts  *)
(* the frames the BPF program lets through into the socket's queue and     *)
(* drops what does not fit there.                                          *)
(*                                                                         *)
(* A frame is a member of Frame; of its bytes only the number matters.     *)
(***************************************************************************)
EXTENDS Integers, Sequences

CONSTANTS Frame, FrameSize,   \* the frames and how long each is
          Size, Threshold,    \* buffer_size (8192) and the 800 of run
          RxMax               \* bound: the socket's queue, in frames

ASSUME EngineAssumption == /\ FrameSize \in [Frame -> Nat \ {0}]
                           /\ Size \in Nat \ {0} /\ Threshold \in Nat
                           /\ RxMax \in Nat \ {0}

VARIABLES rx,          \* the socket's receive queue
          dropped,     \* the kernel has dropped a frame
          frames,      \* the frames read into the buffer
          written,     \* buffer.written
          truncated,   \* the buffer holds a frame without its end
          enginePc,    \* where run is: "loop", "read", "test", "handOver", "returned"
          engineRunning,
          handed       \* the batch handed over last

vars == <<rx, dropped, frames, written, truncated, enginePc, engineRunning, handed>>

Init == /\ rx = <<>> /\ dropped = FALSE
        /\ frames = <<>> /\ written = 0 /\ truncated = FALSE
        /\ enginePc = "loop" /\ engineRunning = TRUE
        /\ handed = <<>>

(* External: a frame arrives at the interface.                             *)
Arrive(f) == /\ IF Len(rx) < RxMax
                  THEN rx' = Append(rx, f) /\ UNCHANGED dropped
                  ELSE dropped' = TRUE /\ UNCHANGED rx
             /\ UNCHANGED <<frames, written, truncated, enginePc, engineRunning, handed>>

Loop == /\ enginePc = "loop"
        /\ enginePc' = IF engineRunning THEN "read" ELSE "returned"
        /\ UNCHANGED <<rx, dropped, frames, written, truncated, engineRunning, handed>>

FreeSize == Size - written

Least(a, b) == IF a < b THEN a ELSE b

(* Mutation: appendWritten is missing, each frame overwrites the last.     *)
Overwrite(frame) == frames' = <<frame>> /\ UNCHANGED <<written, truncated>>

(* recvfrom copies what fits of the frame and throws the rest away.        *)
Receive(frame) == /\ frames' = Append(frames, frame)
                  /\ written' = written + Least(FrameSize[frame], FreeSize)
                  /\ truncated' = (truncated \/ FrameSize[frame] > FreeSize)

(* With nothing queued recvfrom fails and nothing is written.              *)
ReadTo == /\ enginePc = "read"
          /\ enginePc' = "test"
          /\ IF rx = <<>> THEN UNCHANGED <<rx, frames, written, truncated>>
                         ELSE rx' = Tail(rx) /\ Receive(Head(rx))
          /\ UNCHANGED <<dropped, engineRunning, handed>>

(* Mutation: the buffer is full when it cannot take one byte more.         *)
FullToTheEnd == FreeSize < 1

Full == FreeSize < Threshold

Test == /\ enginePc = "test"
        /\ enginePc' = IF Full THEN "handOver" ELSE "loop"
        /\ UNCHANGED <<rx, dropped, frames, written, truncated, engineRunning, handed>>

(* Mutation: buffer.reset() is missing; a trivially copyable buffer is not *)
(* emptied by the move either.                                             *)
KeepFrames == UNCHANGED <<frames, written, truncated>>

ResetBuffer == frames' = <<>> /\ written' = 0 /\ truncated' = FALSE

(* exchange->set and buffer.reset().  The steps inside set are those of    *)
(* ValueExchangeBlocking; Pipeline puts them in.                           *)
HandOver == /\ enginePc = "handOver"
            /\ handed' = frames
            /\ ResetBuffer
            /\ enginePc' = "loop"
            /\ UNCHANGED <<rx, dropped, engineRunning>>

(* stop(), called from another thread.                                     *)
StopEngine == /\ engineRunning' = FALSE
              /\ UNCHANGED <<rx, dropped, frames, written, truncated, enginePc, handed>>

Run == Loop \/ ReadTo \/ Test \/ HandOver

Next == \/ \E f \in Frame : Arrive(f)
        \/ Run
        \/ StopEngine

Spec == Init /\ [][Next]_vars

(* The engine's thread is scheduled, and frames keep coming.               *)
FairSpec == Spec /\ WF_vars(Run) /\ WF_vars(\E f \in Frame : Arrive(f))
-----------------------------------------------------------------------------
TypeOK == /\ rx \in Seq(Frame) /\ frames \in Seq(Frame)
          /\ {dropped, truncated, engineRunning} \subseteq BOOLEAN
          /\ written \in Nat
          /\ enginePc \in {"loop", "read", "test", "handOver", "returned"}

(* Whatever the kernel delivers, a batch consists of whole frames: the     *)
(* space that is left when run decides to read on fits the longest frame.  *)
WholeFrames == ~truncated

(* getFreeSize is unsigned and getFree returns nullptr at the end of the   *)
(* buffer: run only reads when there is space, and written never passes    *)
(* the end.                                                                *)
FreeToRead == /\ written <= Size
              /\ enginePc \in {"loop", "read"} => FreeSize > 0

(* The inductive invariant behind the two.                                 *)
EngineInv == /\ TypeOK
             /\ WholeFrames
             /\ written <= Size
             /\ enginePc \in {"loop", "read"} => FreeSize >= Threshold

(* A frame read is handed over: while frames keep coming and nobody stops  *)
(* the engine, no frame stays in the buffer for ever.                      *)
BatchesGoOut == frames # <<>> ~> enginePc \in {"handOver", "returned"}

FramesFit == Threshold > 0 /\ Threshold <= Size /\ \A f \in Frame : FrameSize[f] <= Threshold
=============================================================================
