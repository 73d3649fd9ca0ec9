# bpf-program: models, checks and proofs

The program captures IEC 61850-9-2 sampled-values frames with a BPF program on a
raw socket, collects them in batches, hands the batches to a second thread,
parses and validates them there, and looks for the extremes and zero crossings of
the signals. This directory holds TLA+ modules translated from its source, TLC
configurations that check them, and TLAPS proofs. `PROJECT.json` maps every
definition to the lines it translates, and lists the runs, hazards, findings and
theorems.

## 1. Inventory

| component | source | state | operations | module |
|---|---|---|---|---|
| Blocking value exchange | `utils/value_exchange.h:63-118` | `storage`, `isFilled`, a mutex, a condition variable | `get`, `set`, `reset` | `ValueExchangeBlocking` |
| Lock-free value exchange | `utils/value_exchange.h:12-61` | three optionals, two private pointers and an atomic one | `set`, `get` | `ValueExchange` |
| Validator | `iec/validator.*` | `state`, `strategy`, `capturedSmpSync`, `missedCount`, `capturedCount` | `update`, `validate`, `setStrategy`, `reset` | `Validator` over `SmpCount` |
| Capture engine | `engines/bpf_engine.h`, `base_engine.h`, `utils/socket.h` | the `StaticBuffer`, `running` | `run`, `stop`, `readTo` | `BPFEngine` |
| Parser, static buffer | `iec/iec_parser.h`, `utils/buffer.h` | `offset`, `written`, `internalFrameLength` | `parse` and everything it calls, `convert` | `IecParser` |
| Pipeline | `pipeline_builder.h`, `handlers/number_crusher.h`, `main.cpp` | the two threads, the exchange between them, the handler's `points` | `run`, `wait`, `stop`, the handler's `run` | `Pipeline` over `SampleStream` |
| Socket set-up | `engines/bpf_engine.h:33`, `bpf_exec.cpp`, `utils/socket.cpp` | the descriptor, the BPF object | `setup`, `load`, `getDeviceSocket`, `setHandle`, `~Socket` | `Setup` |
| BPF filter | `bpf/ethernet-parse.c`, `bpf_exec.cpp:70-90`, `utils/code_formater.cpp`, `utils/helpers.cpp` | the source text | `read_file`, `filterSourceCode`, `iec61850_filter` | `BpfFilter`, `Setup` |
| Extremes and periods | `algo/processing.cpp` | locals | `findMinMax` | `FindMinMax` |
| Byte swapping | `iec/byte_op.*` | none | `byteswap` | `IecParser` |
| FastFile, PCAP and native engines, benchmarks, build files | | | | not modelled (section 7) |

How they interact. `main` builds a `PipelineBuilder` and calls `run` and `wait`.
`run` calls `BPFEngine::setup`, which writes the settings into the text of the
BPF program, loads it, opens and configures a raw socket and attaches the program
to it; then it starts one thread for the engine and one for the handler. The
engine's thread copies one frame after the other from the socket into its buffer
and passes the buffer to `exchange.set` when less than 800 of its 8192 bytes are
free. The handler's thread takes a buffer out with `exchange.get`, parses,
validates and converts it and every 512 points calls `findMinMax`. The exchange is
the only state the two threads share. `stop` is meant to end both from a third
thread; `main` never calls it.

Which behaviours are hard, and what makes each component correct:

* *Exchange.* `isFilled` is tested without the mutex, the mutex is released and
  taken again between the test and the move, one condition variable serves both
  threads. Correct: a batch set is taken exactly once, none is overwritten, no
  wakeup is lost.
* *Lock-free exchange.* Slots are filled and emptied outside the atomic exchange.
  Correct: no slot is shared, the newest value is not lost, values do not go
  backwards, a refusal ends.
* *Validator.* It does not know which of two streams it looks at; the counters
  start again. Correct: the state tells whether something was lost.
* *Engine.* `recvfrom` cuts off what does not fit. Correct: batches consist of
  whole frames and go out.
* *Parser.* A u16 is decremented by hand at every read, damage is skipped, old
  bytes stay in the buffer; magnitudes are signed, in network order, behind one
  another with a quality in between. Correct: it keeps its place, it terminates,
  it returns what was sent but for one piece around the damage, and `convert` makes
  of it what was measured.
* *Pipeline.* Two loops wait for each other, samples are in three copies of a
  buffer, points are collected over several batches, an exception ends the program.
  Correct: all of it is one pipe that loses, repeats and overtakes nothing;
  `findMinMax` gets one piece of the stream; there is no false alarm and no
  deadlock; `stop` returns.
* *Set-up.* Six system calls may fail with a socket open; files may be missing and
  a failed set-up leaves the source changed; frames come in before the filter is
  there. Correct: no descriptor leaks, none is closed twice, the program attached
  has the settings of one set-up, only filtered frames are read.
* *Filter.* The place of the svID is computed from two fixed layouts. Correct: the
  wanted frames are kept and no others.
* *Extremes.* Start values, ties, signals that only touch their middle.

The hazards are listed in `PROJECT.json` at the lines where they bite.

## 2. Modules and how they correspond to the code

The order is the plan's: the exchange and what depends on it first, the pure
algorithms last.

1. `OnePlaceBuffer`: abstract specification, what an exchange promises: `Offer` of a
   batch, `Put` of the batch offered into an empty place, `Take`, `Finish`. Models no
   code.
2. `ValueExchangeBlocking`: `get` and `set` have the same shape, so their steps
   (`Check`, `Lock`, `Test`, `Block`, `Enter`, body, `Leave`) take the thread as a
   parameter. One step is one access to shared state. The unsynchronised read of
   the plain bool `isFilled` is a data race; `Visible` lets it return the current
   value or the one its own thread stored last. `Reset` is the third thread's
   `reset()`, four steps without the mutex. `Buffer` is the refinement mapping
   (offered: the argument of a `set` that has not stored it yet; place: the storage
   while the flag is up; taken: what `get` returned and the handler is still
   processing).
3. `NewestMailbox`: abstract specification of the lock-free exchange: a place for
   the newest value, `Put` (which replaces one that was not fetched), `Take`,
   `Return`. Models no code. `ValueExchange`: a slot is an index, a value is the
   number of the `set` that stored it. A step is one atomic exchange or the work on
   the own slot. `Mailbox` is the refinement mapping: the newest value is what the
   shared slot holds, the taken one what the reader holds.
4. `SmpCount`, `Validator`: one action per method; `update` is a walk of which
   `Validate` is one turn. Ghost variables `gap`, `lost`, `cuts`, `sent` say what
   the network lost. `missedCount` is modulo `CounterMod` (2^32).
5. `BPFEngine`: the loop of `run` in four steps, the kernel's queue `rx` (bounded,
   drops what does not fit), `stop`.
6. `IecParser`: over bytes. A step is one field of the format; the fields of an
   ASDU are a table. `Consume` keeps apart what the reads move `offset` by and what
   the code subtracts from `internalFrameLength` by hand (`ContentsRead`,
   `ContentsSubtracted`). `Read` has the bound of `StaticBuffer::read` and its zeros,
   `ByteSwap` is `bytes::byteswap`, `ReadI32` the cast to a signed word. Of an ASDU
   `smpCnt` and the eight magnitudes are kept; `Convert` makes points of them, in
   thousandths (section 7 on rounding), which `GoodFrames` compares with the magnitudes
   sent and its own table of their resolutions. `base`, `length`, `outcome` are
   ghosts. `GoodFrames` describes, byte by byte, frames as the standard lays them out and says what the parser owes their
   senders; it models no code. A batch is a row of such frames, one of which may be
   `damaged` in any way, or cut off. `GoodFramesParse` is about what was sent before
   the damage, `LosesOnePiece` about all of it; the second holds where the batch is
   `Unmistakable`, that is, where no bytes look like an ASDU or the head of a PDU but
   those that were sent as one. `MCParser` extends `GoodFrames`, so that TLC verifies of every
   input of the run that it is such a batch (`BatchAssumption`) and, but for those
   with another frame's bytes behind a cut, unmistakable (`UnmistakableAssumption`).
7. `SampleStream`: abstract specification of the whole program: one pipe of samples
   between the socket and the handler, from which a prefix is taken at a time. What
   is delivered goes on where the last delivery ended; else the program gives up. What
   is in the pipe at the start may be anything. Models no code.
8. `Pipeline`: INSTANCEs `BPFEngine` and `ValueExchangeBlocking`, adds the
   handler's loop, the main thread, and `stop`. The engine's `HandOver` becomes
   the call of `set`, its steps, and its return. The queue may hold frames of any kind
   when the threads start, up to `EarlyMax` of them, as the socket receives before the
   BPF program is attached (`setup_unfiltered`); `foreign` says whether they are
   others than the sender's. Later on up to `HarmMax` frames are dropped or damaged. A
   frame is the counter of its sample, or `Damaged`; `Parse` gives the outcomes `IecParser` shows possible for a
   batch with a damaged frame (everything before it and what comes after the place
   where a frame's start is found again: `LosesOnePiece`, which is proved). `Stream` is the
   refinement mapping: the pipe is the handler's batch, the storage while the flag
   is up, the engine's buffer unless `set` has stored it, and the socket's queue.
9. `BpfFilter`: pure operators: the settings in the source, and `Keeps`, the BPF
   program on a frame whose savPDU is a sequence of bytes.
10. `Setup`: a step is one system call, each with its error path; the table of
   descriptors gives out the lowest free number, also to the rest of the process.
   It EXTENDS `BpfFilter`: the sockets' queues are filtered by the program the
   set-ups produced. The BPF program's file may be missing (`NoSource`: it is read as
   an empty text), and at every set-up the interface's address file (`NoAddress`).
   `SvFrames` describes the frames on the network as far as the BPF program reads
   them (`SvFramesAssumption`); it models no code, and `MCSetup` extends it.
11. `FindMinMax`: a step is one turn of one of the three loops. `Plus` keeps what
    the code depends on in f32 arithmetic: `numeric_limits<f32>::min()` is the
    smallest positive number and disappears in a sum.

`MCExchange`, `MCEngine`, `MCParser`, `MCSetup` and `MCFindMinMax` give values to
constants that a configuration cannot express. Definitions with the comment
*Mutation* are plausible mistakes that the properties detect; no specification
uses them. Externals (the kernel's queue, the lowest descriptor, the sender,
`condition_variable`) are marked in their comments and in the map.

## 3. The runs

Sizes are TLC's distinct states.

| run | states | shows | bounds, and why they are enough |
|---|---|---|---|
| `exchange` | 493 | `MutexHeld`, `SeenFlagHolds` (what the test of the flag saw holds when the thread acts), `NoLostWakeup`, `NoDeadlock`, `ImplementsBuffer`, and, under fairness, `BatchIsFetched`, `SetReturns` | two batches: a lost or repeated one differs from the next. Unbounded in time. The safety part is also proved for any set of batches |
| `lockfree_safety` | 576 | `SlotsDisjoint`, `GotIsNewer`, `ImplementsMailbox`, and their invariant `ExchangeInv`, of which `NewestIsOffered` is a part | six accepted values, twice the slots. Proved for any number |
| `lockfree_progress` | violation | `RefusalEnds` fails, section 4 | three values suffice to fill two slots |
| `validator` | 132888 | `StateTellsLoss`, `MissedIsLostLessTurns`, `StrictIsContiguous` | counters to 3 and 7, losses to 3: the largest `LossIsBounded` allows; 12 samples are three turns of the short counter, one and a half of the long. `CounterMod` 16 lets `missedCount` wrap |
| `engine` | 867 | `WholeFrames`, `FreeToRead`, their invariant `EngineInv`, `BatchesGoOut` | the sizes of the code (8192, 800) and the 793-byte frame of the stream with 256 points; a queue of two |
| `parser` | 28427 | `LengthIsAccounted`, `AcceptedEndsRight`, `GoodFramesParse` (with the values `convert` makes), `LosesOnePiece`, `Advances`, `Terminates` | two layouts, magnitudes of both signs, all different; whole batches; six values in every byte of a frame of each (all but counter, its header and data; the first 40 bytes of the long one); every place to cut the last frame, with the rest of it or of another frame left behind it; the whole batch of the second layout ends with the buffer's last byte. `LengthIsAccounted`, `AcceptedEndsRight` and `Advances` are proved for any bytes, `GoodFramesParse` for any frames and any damage to one of them, `LosesOnePiece` for any of these that are unmistakable |
| `pipeline` | 1088704 | `ImplementsStream`, `PointsAreOnePiece`, `NoFalseAlarm`, `UsesExchange`, `KeepsProcessing` | batches of two frames, so that the damaged one can be the first or the last of its batch, a queue of two, one frame of any kind in it at the start (`EarlyMax`), one dropped or damaged later (`HarmMax`), which is enough as the first gap ends the program, a counter to 3, a window of six points: every place on the way can be occupied at once, the counter starts again in each, and a window spans batches. The safety part is also proved, for any `HarmMax` and any `EarlyMax` |
| `pipeline_stop` | violation | `StopReturns` fails, section 4 | as `pipeline` |
| `setup` | 45744 | `EverySocketIsOwned`, `ClosesOnlyItsOwn`, `HandleIsReady`, `SettingsAreNotMixed`, their invariant `SetupInv`, `KeepsTheStream` | three descriptors: one in use, one in progress, one of somebody else. Four settings: two senders, an empty svID, no interface; every file there or missing. svIDs that are prefixes of one another, all layouts, cut-off frames. All of it is also proved |
| `setup_unfiltered` | violation | `QueueIsFiltered` fails, section 4 | as `setup` |
| `minmax` | 108508 | `ExtremesFromZero`, `SelectedSwingsMost`, `PeriodsAreOpposite` | two signals, four points, values below, at and above zero: all sequences, ties included. Proved for any numbers of them |
| `minmax_crossings` | violation | `PeriodsAreCrossings` fails, section 4 | one signal, six points |

Deadlock is checked in `exchange`, `engine`, `setup` and `setup_unfiltered`. In
`exchange` a sleeping thread can always be woken for no reason, which hides a real
deadlock from that check; `NoDeadlock` does not count spurious wakeups. The check is
off where the system may stop: the algorithms end, the program ends (`Pipeline`,
after an exception or `wait`), an exception ends the validator, and the bounds
`MaxSets` and `MaxSent` end the streams.

*Fairness.* Every thread inside a method keeps running: weak fairness of its
steps (`Step(t)`, `EngineStep`, `HandlerStep`, `MainStep`), as an operating system
schedules threads. Weak fairness of the mutex is enough because no thread asks
for it for ever while it changes hands. The handler's loop calls `get` again
and again (`number_crusher.h:34`). Nothing makes the engine call `set`: in
`exchange` there may be no traffic; `engine` and `pipeline` assume in addition
that frames keep arriving, a stream's period being fixed. Spurious wakeups may
happen at any time but not for ever. `lockfree_progress` assumes that both
threads keep calling their methods.

## 4. Disagreements between the code and what is said of it

* `lockfree_progress`: a `set` whose exchange brings back a full slot makes every
  later `set` return false, because only `set` would swap that slot away
  (`value_exchange.h:31`). Two sets between two gets are enough. The blocking
  exchange is the one `main` uses.
* `pipeline_stop`: `stop` relies on the two notifications of `reset`. They are lost
  when the thread tests its predicate after the flag has been lowered again, or
  blocks later; `join` then waits for ever, although `base_engine.h:37` says stop
  stops the running thread.
* `setup_unfiltered`: the socket receives from `socket()` on and the program is
  attached last; frames it would drop are in the queue the engine reads.
* `minmax_crossings`: `sign` is not turned after a crossing, so the second and third
  "period" are merely points after the first crossing on the same side.

Seen while modelling; a property names the exact behaviour, no run of its own:

* `reset` during `get` makes it move out a storage nobody filled, or the last batch
  again; the validator then throws though nothing was lost.
* `missedCount` loses a whole turn of the counter for every loss across its end.
  `MissedIsLostLessTurns` states what it really counts.
* A 256-point stream that loses 4000 to 12799 looks correct (0 after 3999).
  `LossIsBounded` excludes exactly such losses.
* `StaticBuffer::read` refuses what ends with the last byte of the buffer and
  yields zero. With the engine's threshold no batch is that full.
* A second `setup` finds the placeholders replaced and silently keeps the first
  settings (`SettingsAreNotMixed` says that every socket has the same program, and
  that it is one set-up's). After an empty
  svID, or an address file that was missing once, no later `setup` succeeds: the
  source keeps an undeclared name, or `0x` with nothing behind it.
* A damaged frame ends the program: the parser resumes after it, but then either the
  samples have a gap or, when nothing of the batch is left, `update` throws as well.
* So can a frame of another stream that was queued before the program was attached:
  `NoFalseAlarm` says of a program that aborted that frames were harmed or its queue
  was `foreign` at the start.
* A cut-off frame goes on with what an earlier batch left in the buffer, and an old
  ASDU there may be taken for its sample. What was sent before the cut is not touched
  (`GoodFramesParse`).
* The maximum of a signal that stays below zero is the smallest positive number, and
  zero counts as one of its values when its swing is compared with the others'.
  `ExtremesFromZero` and `SelectedSwingsMost` say just that of every signal.
* Frames with the VLAN tag in place, or with one-byte long-form lengths, are
  dropped by the filter. A 256-point frame with an svID of 13 or more characters is
  longer than the 800 bytes kept free; with frames of one length, the last one of a
  batch is cut off when the svID has 27 or 28 characters (913 and 921 bytes).
* When the traffic stops, the frames in the engine's buffer stay there: `readTo` waits
  without a limit and only the next frames bring the buffer to the test. Nothing in
  the repository promises otherwise, so no property says it; `BatchesGoOut` is about a
  stream that goes on.

## 5. The proofs

Each component has a module of proofs that EXTENDS it.

* `ValueExchangeBlocking_proofs`. `ExchangeInv` is inductive. The wanted properties
  alone are not: `SeenFlagHolds` says nothing of a thread that has just acted, so
  that when the other one tests the flag nothing rules out that both may go on.
  The conjunct "a thread in block or leave cannot go on" ties a thread's place to
  the flag, and with two threads it makes the flag a turn variable: only one of
  them can be on its way in. `waiters` being asleep, and at most the other thread,
  then gives `NoLostWakeup` from the single `notify_one`. `Refinement` maps
  `CallSet` to `Offer`, `SetBody` to `Put`, `GetBody` to `Take`, `Processed` to
  `Finish` and everything else to a stutter; it needs `SeenFlagHolds` in exactly the two bodies.
  `MutexTheorem` covers `reset`. `NoDeadlockTheorem` needs both halves: who holds
  the mutex is never asleep, and of two sleepers the flag lets one go on, whose
  notification would then still be under way. Assumption: the empty buffer and
  `None` are no batches.
* `ValueExchange_proofs`. `ExchangeInv` adds to the disjointness of the slots what
  each holds: the shared slot is empty or holds the newest value, the writer's next
  value is newer than all. `MailboxTheorem` is the refinement: an exchange of the
  pointer that is accepted is a `Put`, the reader's one a `Take` if there is a value,
  `GetFetch` the `Return`; a refused `set` and a `get` that finds nothing are
  stutters. Any number of values.
* `Validator_proofs`. The heart is `FollowsTellsLoss`: of the samples that may come
  next only the one with nothing lost before it `Follows`. Any two counters with
  `Max80p < Max256p`; `LossIsBounded` (losses no longer than the short counter and
  shorter than the difference of the two) is a hypothesis of the theorems, true of
  the code's 3999 and 12799 for up to 3999 samples lost in a row, and needed:
  without it the state does lie.
  `MissedTheorem` has an invariant of its own (`missedCount` and the turns lost,
  modulo any `CounterMod`) and `TypeTheorem` needs no hypothesis.
* `BPFEngine_proofs`. `EngineInv` (`EngineInvariant`) adds that the engine reads with at least
  `Threshold` bytes free. Hypothesis `FramesFit`: no frame longer than the threshold.
* `IecParser_proofs`. Any buffer, any bytes for the first three. `LengthIsAccounted` is inductive by
  modular arithmetic, but says only what is left modulo 2^16, so an accepted frame
  might end 65536 bytes too far. `Consumption` bounds, field by field, what one
  frame consumes (at most sixteen ASDU of at most 117 bytes), which rules that out
  and gives `AcceptedEndsRight`. The same bound gives `AdvancesTheorem`: `StepsLeft`,
  twice the bytes up to the last place one frame can reach past what was written, is
  natural and goes down at every step, so that `parse` takes no more than that many.
  `GoodFramesTheorem` and `OnePieceTheorem` are about the batches that
  `BatchAssumption` describes: any number of frames of any layout, at most one of
  them damaged, with any bytes in its place and any place where they end. Their
  invariant `Place` says where the parser is:
  - in the `f`-th frame, a whole one, at one of its fields, with the samples of all
    ASDU before that place `Stored` (but for one piece behind the damage) and as many
    bytes left in `internalFrameLength` as the frame has (`InFrame`). One lemma per
    field shows that what is read there is what the layout puts there; the u16 must
    not wrap for it, which the length in the header excludes;
  - `Astray`, from the start of the damaged frame on: it has stored the first `n`
    samples and none that was sent behind `offset`; what it has accepted since the
    last header looks like a PDU up to its first ASDU (`InHeader`) or like an ASDU
    behind the last one stored (`InAsduAt`); and where it takes what comes for a
    frame, none was sent but the damaged one (`NoFrameAt`). An ASDU that passes is,
    as the batch is unmistakable, one that was sent: the next one when it comes
    behind another, so that nothing is missing between them, or the first one of a
    frame, and then the parser is in that frame as if it had begun it (`InFrame`
    again), with the ASDU between lost in one piece. When a PDU is rejected and the
    parser stands at a frame's start by chance, `Resumes` says the same;
  - `AtEnd`, with all but that piece stored, and nothing but the return left;
  - `Behind`, when the batch is not unmistakable: only that what was sent before the
    damage is stored in front of everything else.

  Without the hypothesis `OnePieceTheorem` is false: damage to a counter or a
  magnitude goes unnoticed, as nothing in the format or the code would tell it, and
  a parser that has lost its place may find an ASDU nobody sent among the magnitudes,
  or an old one in the bytes an earlier batch left behind what was written. The code
  excludes none of these. That the hypothesis is met is checked for the run's
  batches, but for those with another frame's bytes behind a cut.
* `Setup_proofs`. Any number of descriptors, any settings and frames. The four
  properties are not inductive: a close in an error path is of the engine's own
  socket only because `SetupInv` says that while setup is in progress `socket_fd` is
  open and not `sock_fd`; the engine's socket is bound because the steps up to
  `setHandle` keep what the earlier ones did, and because without an interface the
  ioctl fails. `SourceInv` follows the text through the set-ups: `FilteredStays`
  (a source filtered once has no placeholder left, from the assumption that no
  setting looks like one) is what makes `SettingsTheorem` hold over any number of
  failed attempts. `FilterTheorem`: under `SvFramesAssumption` (a layout with no, one
  or two more octets in its lengths, lengths and svID of less than 128, any cut, or no
  such frame at all) `Keeps` is `Wanted`. Where the layout is not one the program
  knows, the position it computes is that of the svID's tag, 128, which no name
  begins with; a frame that ends early leaves no room for the last
  character the settings ask for.

* `Pipeline_proofs`. Any sizes, window, counter and `HarmMax`, and any `EarlyMax` up to
  the queue's length, under `PipelineAssumption` (a frame is no longer than the
  threshold, so that none is cut off). One restriction of the environment remains in
  `Spec` and so in all these theorems: of the frames in the engine's buffer and the
  queue no two are damaged (`OneDamaged`), because that is the batch for which
  `LosesOnePiece` says what the parser returns. `Inv` has three
  parts that need each other: where the threads are (`ControlInv`), what the
  engine's buffer holds (`BufferInv`: at least one and at most `FramesPerBatch`
  whole frames when `set` is called, so that what is passed is a batch), and the
  exchange's `ExchangeInv`, taken over from its own proofs by instantiating them.
  `UsesTheorem` follows. `StreamTheorem` goes step by step: a batch moves on at one
  place each (`SetBody`, `GetBody`), and `SeenFlagHolds` says that the place it moves
  to is empty; `SetReturns` resets a buffer the mapping no longer counts; taking
  the handler's batch out of the pipe, and what `Parse` leaves of it, is arithmetic
  of sequences. `AlarmTheorem` needs a chain: while nothing was dropped or damaged, and
  the queue held the sender's own frames at the start, the captured sample, the pipe and the sender's next one are contiguous.
  `PointsTheorem` joins the points with each valid sequence. With `stop` most of
  this is gone: `reset` raises the flag although nobody filled the storage, so
  neither `ExchangeInv` nor the pipe survives it. `StopInv` is what does (where the
  threads are, what is in the engine's buffer, that the storage is a batch or empty).
  From it follow, for `StopSpec`, that the third thread calls `reset` as the exchange
  models it (`StopUsesTheorem`), hence `StopMutexTheorem` from the exchange's own
  proofs, and `StopPointsTheorem`: a batch handed out twice or never filled does not
  get into the points, as the validator throws.
* `FindMinMax_proofs`. Any number of signals and points, and any samples that
  `f32min` is negligible to (`FindMinMaxAssumption`: no sample, and no difference of
  two, is as small). Each loop has its part of the invariant: the extremes of what
  it has seen, the start value of `maxArray` counted among them (`ExtremesInv`); the
  first of the largest swings so far, or still none that beats `f32min`, when all
  signals seen were nothing but zero (`SelectInv`; `SwingIs` says that what the code
  compares is the swing with zero as one of the values); and the points on
  the other side counted so far (`PeriodsInv`, with `TurnIsOpposite` for the product
  of signs).

Model-checked only: the liveness properties (`BatchIsFetched`, `SetReturns`,
`BatchesGoOut`, `Terminates`, `KeepsProcessing`), which are out of this prover's
reach under fairness; `AdvancesTheorem` is the safety half of `Terminates`. Every
other property of the passing runs is stated by a theorem. Each proof module begins
with `USE SMTT(60), ZenonT(60)`: the leaves take seconds at most, and the limit is
for a machine that is busy with other things.

## 6. Plan for what follows

1. The interface's flags as state that another program shares.

## 7. Not modelled

`FastFile` (an unused wrapper of stdio), the PCAP and native engines (stubs nobody
uses), the benchmarks (their parsing is commented out), build and container files;
`getQuality`, the quality bits and `readU64`, which have no caller; the rounding of
`convert` to f32, whose products are wider than TLC's integers, and which, never
turning the order of two magnitudes round, no property depends on; the interface's
flags, which another program may change between the two ioctls; the printed text;
the BPF verifier and the compilation of the program, which may fail for reasons of
their own.
