----------------------- MODULE ValueExchangeBlocking -----------------------
(***************************************************************************)
(* utils::ValueExchangeBlocking (include/iec_core/utils/value_exchange.h): *)
(* one storage, one flag isFilled, one mutex, one condition variable, used *)
(* by one writer (the engine, set) and one reader (the handler, get).      *)
(* get and set have the same shape, so their common steps take the thread  *)
(* as a parameter:                                                         *)
(*                                                                         *)
(*   check  - the first test of isFilled, made WITHOUT the mutex           *)
(*   lock   - unique_lock, then test / block / asleep: waiter.wait         *)
(*   enter  - lock_guard, then inside: the move and the store to isFilled, *)
(*   leave  - notify_one and the release of the mutex                      *)
(*                                                                         *)
(* reset() belongs to a third thread and takes no mutex; it is only part   *)
(* of the specifications that say so (ResetSpec).                          *)
(***************************************************************************)
EXTENDS TLC

CONSTANTS Batch,        \* contents of a filled buffer
          EmptyBuffer,  \* the default-constructed buffer: nothing written
          None          \* no batch

ASSUME ExchangeAssumption == /\ EmptyBuffer \notin Batch
                             /\ None \notin Batch \cup {EmptyBuffer}

Engine  == "engine"
Handler == "handler"
Users   == {Engine, Handler}
Nobody  == "nobody"

VARIABLES storage, isFilled,
          mutex,     \* the thread that holds accessor, or Nobody
          waiters,   \* the threads blocked on the condition variable
          pc,        \* where each user is in get or set
          resetPc,   \* where the controlling thread is in reset
          value,     \* the batch the engine passes to set
          result     \* the batch get has stored in the handler's buffer, until it is processed

vars == <<storage, isFilled, mutex, waiters, pc, resetPc, value, result>>

Init == /\ storage = EmptyBuffer
        /\ isFilled = FALSE
        /\ mutex = Nobody
        /\ waiters = {}
        /\ pc = [t \in Users |-> "idle"]
        /\ resetPc = "idle"
        /\ value = EmptyBuffer
        /\ result = None

Goto(t, label) == pc' = [pc EXCEPT ![t] = label]

(* The handler goes on when the flag is up, the engine when it is down.    *)
GoesOn(t, flag) == IF t = Handler THEN flag ELSE ~flag

(* isFilled is a plain bool, and the first test is a data race: instead of *)
(* the current value the load may still return the one its own thread      *)
(* stored last (FALSE by get, TRUE by set).                                *)
OwnLastStore(t) == t = Engine /\ storage # EmptyBuffer
Visible(t) == {isFilled, OwnLastStore(t)}

CallSet(b) == /\ pc[Engine] = "idle"
              /\ Goto(Engine, "check")
              /\ value' = b
              /\ UNCHANGED <<storage, isFilled, mutex, waiters, resetPc, result>>

CallGet == /\ pc[Handler] = "idle" /\ result = None
           /\ Goto(Handler, "check")
           /\ UNCHANGED <<storage, isFilled, mutex, waiters, resetPc, value, result>>

Check(t) == /\ pc[t] = "check"
            /\ \E flag \in Visible(t) :
                 Goto(t, IF GoesOn(t, flag) THEN "enter" ELSE "lock")
            /\ UNCHANGED <<storage, isFilled, mutex, waiters, resetPc, value, result>>

(* Taking the mutex, for the first time or on the way out of wait.         *)
Lock(t) == /\ pc[t] \in {"lock", "asleep"} /\ t \notin waiters
           /\ mutex = Nobody
           /\ mutex' = t
           /\ Goto(t, "test")
           /\ UNCHANGED <<storage, isFilled, waiters, resetPc, value, result>>

(* Mutation: wait(locker) without the predicate.                           *)
TestNothing(t) == /\ pc[t] = "test"
                  /\ Goto(t, "enter")
                  /\ mutex' = Nobody
                  /\ UNCHANGED <<storage, isFilled, waiters, resetPc, value, result>>

(* The predicate of wait, under the mutex.  When it holds, the block of    *)
(* the unique_lock ends and the mutex is released before it is taken again.*)
Test(t) == /\ pc[t] = "test"
           /\ IF GoesOn(t, isFilled)
                THEN Goto(t, "enter") /\ mutex' = Nobody
                ELSE Goto(t, "block") /\ UNCHANGED mutex
           /\ UNCHANGED <<storage, isFilled, waiters, resetPc, value, result>>

(* Mutation: a wait that sleeps with the mutex held.                       *)
BlockHolding(t) == /\ pc[t] = "block"
                   /\ waiters' = waiters \cup {t}
                   /\ Goto(t, "asleep")
                   /\ UNCHANGED <<storage, isFilled, mutex, resetPc, value, result>>

(* wait releases the mutex and blocks in one atomic step.                  *)
Block(t) == /\ pc[t] = "block"
            /\ mutex' = Nobody
            /\ waiters' = waiters \cup {t}
            /\ Goto(t, "asleep")
            /\ UNCHANGED <<storage, isFilled, resetPc, value, result>>

SpuriousWakeup(t) == /\ t \in waiters
                     /\ waiters' = waiters \ {t}
                     /\ UNCHANGED <<storage, isFilled, mutex, pc, resetPc, value, result>>

(* Mutation: the lock_guard is missing.                                    *)
EnterWithoutLock(t) == /\ pc[t] = "enter"
                       /\ Goto(t, "inside")
                       /\ UNCHANGED <<storage, isFilled, mutex, waiters, resetPc, value, result>>

Enter(t) == /\ pc[t] = "enter"
            /\ mutex = Nobody
            /\ mutex' = t
            /\ Goto(t, "inside")
            /\ UNCHANGED <<storage, isFilled, waiters, resetPc, value, result>>

(* Mutation: get forgets isFilled = false.                                 *)
GetKeepsFlag == /\ pc[Handler] = "inside"
                /\ result' = storage
                /\ Goto(Handler, "leave")
                /\ UNCHANGED <<storage, isFilled, mutex, waiters, resetPc, value>>

(* StaticBuffer is trivially copyable: moving from storage leaves it as it *)
(* was.                                                                    *)
GetBody == /\ pc[Handler] = "inside"
           /\ result' = storage
           /\ isFilled' = FALSE
           /\ Goto(Handler, "leave")
           /\ UNCHANGED <<storage, mutex, waiters, resetPc, value>>

SetBody == /\ pc[Engine] = "inside"
           /\ storage' = value
           /\ isFilled' = TRUE
           /\ Goto(Engine, "leave")
           /\ UNCHANGED <<mutex, waiters, resetPc, value, result>>

(* Mutation: notify_one is missing.                                        *)
NotifyNobody == UNCHANGED waiters

NotifyOne == IF waiters = {} THEN UNCHANGED waiters
             ELSE \E t \in waiters : waiters' = waiters \ {t}

(* notify_one under the mutex, then the end of the lock_guard's scope.     *)
Leave(t) == /\ pc[t] = "leave"
            /\ NotifyOne
            /\ mutex' = Nobody
            /\ Goto(t, "idle")
            /\ UNCHANGED <<storage, isFilled, resetPc, value, result>>

(* The handler's loop is through with its batch.                           *)
Processed == /\ pc[Handler] = "idle" /\ result # None
             /\ result' = None
             /\ UNCHANGED <<storage, isFilled, mutex, waiters, pc, resetPc, value>>

(* reset(): two stores to isFilled, each followed by notify_one, no mutex. *)
ResetStore(from, flag, to) == /\ resetPc = from
                              /\ isFilled' = flag
                              /\ resetPc' = to
                              /\ UNCHANGED <<storage, mutex, waiters, pc, value, result>>

ResetNotify(from, to) == /\ resetPc = from
                         /\ NotifyOne
                         /\ resetPc' = to
                         /\ UNCHANGED <<storage, isFilled, mutex, pc, value, result>>

Reset == \/ ResetStore("idle", TRUE, "raised")
         \/ ResetNotify("raised", "lower")
         \/ ResetStore("lower", FALSE, "lowered")
         \/ ResetNotify("lowered", "done")

Step(t) == \/ Check(t) \/ Lock(t) \/ Test(t) \/ Block(t) \/ Enter(t) \/ Leave(t)
           \/ t = Handler /\ GetBody
           \/ t = Engine /\ SetBody

Next == \/ \E b \in Batch : CallSet(b)
        \/ CallGet
        \/ Processed
        \/ \E t \in Users : Step(t) \/ SpuriousWakeup(t)

Spec == Init /\ [][Next]_vars

ResetSpec == Init /\ [][Next \/ Reset]_vars

(* A thread inside get or set keeps running, the handler's loop calls get  *)
(* again and again (number_crusher.h, run), and spurious wakeups do not go *)
(* on for ever.  Nothing makes the engine call set: there may be no        *)
(* traffic.                                                                *)
Fairness == /\ \A t \in Users : WF_vars(Step(t))
            /\ WF_vars(CallGet)
            /\ WF_vars(Processed)
            /\ \A t \in Users : <>[][~SpuriousWakeup(t)]_vars

FairSpec == Spec /\ Fairness
-----------------------------------------------------------------------------
Labels == {"idle", "check", "lock", "test", "block", "asleep", "enter", "inside", "leave"}

TypeOK == /\ storage \in Batch \cup {EmptyBuffer}
          /\ isFilled \in BOOLEAN
          /\ mutex \in Users \cup {Nobody}
          /\ waiters \in SUBSET Users
          /\ pc \in [Users -> Labels]
          /\ resetPc \in {"idle", "raised", "lower", "lowered", "done"}
          /\ value \in Batch \cup {EmptyBuffer}
          /\ result \in Batch \cup {EmptyBuffer, None}

(* The accessor mutex is held exactly by the thread that is between an     *)
(* acquisition and a release in get or set, so storage is never copied by  *)
(* one thread while the other overwrites it.  reset does not break this.   *)
MutexHeld == \A t \in Users : (mutex = t) <=> pc[t] \in {"test", "block", "inside", "leave"}

(* Check-then-act: get and set look at isFilled, let go of the mutex (or   *)
(* never had it), take it and act without looking again.  What they saw    *)
(* still holds when they act.                                              *)
SeenFlagHolds == \A t \in Users : pc[t] \in {"enter", "inside"} => GoesOn(t, isFilled)

(* No lost wakeup: a thread blocked on the condition variable although it  *)
(* could go on has its notify_one still to come.                           *)
NoLostWakeup == \A t \in waiters :
                   GoesOn(t, isFilled) => \E u \in Users \ {t} : pc[u] = "leave"

(* t can take the next step of its get or set: it is not blocked on the    *)
(* condition variable, nor on a mutex that is held.                        *)
CanStep(t) == /\ pc[t] # "idle" /\ t \notin waiters
              /\ pc[t] \in {"lock", "asleep", "enter"} => mutex = Nobody

(* get and set never wait for each other: while one of them is under way   *)
(* somebody can go on without a spurious wakeup, unless the batch or the   *)
(* room it waits for is really missing and the other has not called yet.   *)
NoDeadlock == \A t \in Users : pc[t] # "idle" =>
                 \/ \E u \in Users : CanStep(u)
                 \/ ~GoesOn(t, isFilled) /\ \A u \in Users \ {t} : pc[u] = "idle"

(* The inductive invariant behind the properties of Spec.                  *)
ExchangeInv == /\ TypeOK
               /\ MutexHeld
               /\ SeenFlagHolds
               /\ NoLostWakeup
               /\ \A t \in Users : pc[t] \in {"block", "leave"} => ~GoesOn(t, isFilled)
               /\ \A t \in waiters : pc[t] = "asleep"
               /\ pc[Engine] \notin {"idle", "leave"} => value \in Batch
               /\ isFilled => storage \in Batch
               /\ pc[Handler] = "leave" => result \in Batch
               /\ result # None => result \in Batch /\ pc[Handler] \in {"idle", "leave"}

(* The exchange is a one-place buffer: what is offered is set's argument   *)
(* until set has moved it, the place is the storage while the flag is up,  *)
(* the batch being worked on is what get returned.                         *)
Buffer == INSTANCE OnePlaceBuffer
            WITH offered <- IF pc[Engine] \in {"idle", "leave"} THEN None ELSE value,
                 place <- IF isFilled THEN storage ELSE None, taken <- result

(* The batch set was called with, and no other, is taken by exactly one    *)
(* get, and none is overwritten before that: the call offers, the step of  *)
(* set puts, the step of get takes, every other step of the two methods is *)
(* invisible.                                                              *)
ImplementsBuffer == Buffer!Spec

(* A batch in storage is fetched, whatever the engine does next.           *)
BatchIsFetched == Buffer!Delivery

(* set never blocks for ever, however the notifications are timed.         *)
SetReturns == (pc[Engine] = "check") ~> (pc[Engine] = "idle")

(* What the comment "wait if not filled yet" promises: get moves storage   *)
(* out only while the flag is up.                                          *)
GetWaitsForBatch == [][GetBody => isFilled]_vars
=============================================================================
