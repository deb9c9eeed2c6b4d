# A TLA+ model of the tick-to-trade engine

Specifications, model-checking configurations and proofs for the engine under
`src/rtl/` and for its software side under `src/sim/`: the Python reference
models, the traffic generator and the order receiver. Each module is translated
from the code it names; `tb/` was read for how blocks are meant to be used.
Every block of the engine runs on one clock (`gmii_rx_clk`), so a step of such a
model is one rising edge unless said otherwise: the wires that enter a block on
that edge are a record `in`, the registers are variables, and a `...Step(in)`
operator is the block's `always` code. A step of a software model is a call, or
the part of a call between two messages.

## 1. Inventory

| Part | Source | State | Operations | Modelled by |
|---|---|---|---|---|
| Risk engine | `risk_engine.v` | kill latch, update times, token bucket, position ledger, registered decision | nine gates on an intent; refill; latch and clear | `RiskEngine`, `RiskSpec` |
| Order builder | `order_builder.v` | trigger delay line, two-record queue, `tx_start`, `tx_payload` | push, overflow, pop, stamp the latency | `OrderBuilder` |
| MAC interface, TX | `eth_mac_if.v` | five-state machine, record buffer, counters, FIFO write port | accept, request, wait, push bytes, drain | `EthTx` |
| Fast path and arbiter | `tob_top.v`, `delay_line.v` | alignment delay, cycle counter | delay an intent; order before CSR response | `Pipeline`, `TxPath` |
| Sequence monitor | `seq_monitor.v` | expected number, baseline seen, gap flag | gap, duplicate, two clears | `SeqMonitor` |
| Symbol filter, book | `symbol_filter.v`, `tob_engine.v` | bid and ask of every slot | match; quote, clear, next state, crossed | `TobEngine` |
| Signal engine | `signal_engine.v` | registered intent | spread and imbalance rule | `SignalEngine` |
| CSR block | `csr_block.v` | configuration, counters, response | decode, write, read, count | partly: `TxPath`, `FeedPath`, `Pipeline`, `RiskSpec` |
| Parser | `md_parser.v` | byte counter, field registers | complete a message every 16 bytes | partly: `TxPath`, `FeedPath`, `Pipeline` |
| RX side, frame classifier | `eth_mac_if.v`, `frame_classifier.v` | RAM walk | stream bytes, gate on length | planned |
| ML policy | `ml_policy.v` | verdict, pulses | hysteresis, fail-safe | `MlPolicy` |
| Features | `feature_extractor.v` | previous book, trade side, window of every slot | eight features per book event, clear, push | `FeatureExtractor` |
| Normalizer, classifier | `feature_normalizer.v`, `ml_classifier_wrap.v` | one registered stage each | offset, shift, saturate; dot product | `MlClassifier` |
| Golden model | `sim/golden_model.py` | counters, books, ledger, bucket, transmit slots, sequence, kill latch | `process_frame`, `process_message`, control plane | `GoldenModel` |
| Feature and ML golden models | `sim/feature_golden.py`, `sim/ml_golden.py` | history per symbol; held verdict | three event calls; `classify` | `FeatureGolden`, `MlGolden` |
| Feed generator | `sim/feed_gen.py` | next number, walking prices | six scenarios, frame by frame | `FeedGen` |
| Order receiver | `sim/order_rx.py` | socket or file, running sums | read, skip, raise, stop, interrupt | `OrderRx` |
| Latency histogram | `latency_histogram.v` | 64 buckets | count, clear, read | planned |
| Soak vectors, slides, test benches | `sim/gen_soak_vectors.py`, `scripts/make_slides.py`, `tb/` | | | not modelled |
| Resets, MDIO, synchronizers, vendored MAC | `tob_top.v`, `common/`, `vendor/` | | | not modelled |

How the parts interact. A byte stream from the MAC is heard by `md_parser.v`
and by `csr_block.v` at once (D19). A completed message passes, in the same
cycle and combinationally, the sequence monitor, the filter and the book; the
signal engine registers an intent one cycle later; a delay line holds it for
`ALIGN_DEPTH` cycles so that the ML verdict catches up; the risk engine
registers a decision; the order builder queues a record and, when the transmit
side is free, hands it over with a one-cycle pulse. CSR read responses use the
same transmit side through a mux in which orders win (D22). Configuration
registers change under everybody's feet. On the software side a generator yields
frames, the golden model takes each and walks its messages, and order records go
one to a datagram to a receiver that sums them up; the test benches compare what
the engine does with what the references say of the same messages.

What is hard. There are no locks and no handshakes: a pulse that finds its
receiver busy is lost. Correctness rests on cycle counts that several modules
must agree on, on what is read before and what after a clock edge, on the
network's losses and repetitions, on the one place where things queue, and on
configuration writes at any time. `PROJECT.json` lists each such place with the
properties aimed at it.

What makes each part correct:

- risk engine: exposure and order rate stay bounded, the ledger is what was
  sent, over any sequence of intents and writes;
- transmit path: nothing decided is lost except by a counted overflow, nothing
  is reordered or doubled, a record describes its own trigger, bytes are where
  the MAC reads them, counters balance, everything queued leaves;
- feed: without a flagged gap the book is the sender's book, and it never goes
  back in time; an intent is justified by the book it was computed from;
- features: each is a function of the slot's own messages since its last clear,
  and the verdict is the reference's;
- references: they agree with the engine message by message, and keep the
  section 10 balances themselves; a generated scenario injects what it says;
- the whole path to a decision: an intent is judged by the book, the gap flag, the
  age and the ML verdict of its own message, though each comes by a different way.

## 2. Modules

**`RiskEngine`** translates `risk_engine.v`: the gates (`GateFires`), the
priority (`RejectReason`), the reduction (`ReducedQty`), the registers. Words
have a parameter width (`Half` is 2^31), and sums that the code takes at 33
bits are wrapped at that width. **`RiskSpec`** drives it with every
combination of wires and of configuration writes, and adds history variables:
the largest limit and ceiling so far, the net quantity sent downstream, and an
interval over which orders are counted. `MCRiskEngine` gives small sets.

**`OrderBuilder`** and **`EthTx`** translate the two transmit modules.
`QueueStep` is `q0_next`, `q1_next` and `q_count_next` as one sequence of at
most two records. A record keeps its kind, the sequence number and cycle of its
trigger; symbol, side, price and quantity travel along without being looked at.
**`TxPath`** composes them, cycle by cycle, with messages arriving at least
`SPACING` cycles apart, the fast path as a shift register of `SignalStages`
stages, the risk engine's decision (left open, except that the kill latch
rejects), CSR reads and writes, and the arbiter (`EthIn`). `msg_seq_num` is the
value `Torn` during the cycles in which its bytes may be landing. Histories
count cycles since a request, ages of records, a balance of counters, orders
launched since a kill.

**`OrderStream`** is what the transmit path promises, without clock, frames or
FIFO: decisions leave in order, each at most once, one may be dropped only
behind two others, a reply never goes ahead of a decision, and what was not
dropped is sent. `TxPath` maps its registers onto it (`Stream`): pending
decisions are the record in `tx_payload` while `tx_start` is high, followed by
the queue; the wire is `payload_buf`.

**`SeqMonitor`**, **`TobEngine`** and **`SignalEngine`** translate the feed
modules; **`FeedPath`** composes them. Here a step is one message completion,
since all of it happens on one edge; `Quiet` is the next edge, which ends the
intent pulse. The sender appends to `log`; the network delivers any logged
message at any time, any number of times, in any order, or never. CSR frames
complete as messages of an undefined type. `base` and `last` remember which
stretch of the log has been accepted, and `LastWord` is the reference
definition of the book: a search of the log, not an update.

**`MlPolicy`** translates `ml_policy.v`. **`Pipeline`** composes the feed modules, the
ML branch, the alignment delay and `RiskEngine` cycle by cycle: a step is a clock
edge on which nothing, a feed message or a CSR frame completes (`Idle`, `Receive`,
`Control`). `aligned` and `ml_path` are the two delays that must agree, three stages
each; `adverse_risk` is registered behind the second. The score of an event is
chosen when its message completes. `due` is the reference: on the cycle a message
completes, `DueGates` says from the book it leaves, the gap flag, the silence
before it and the verdict on its event which gates its intent must meet, without
any of the registers and delays the code uses. `margin` is `cnt_ml_adverse` less
`cnt_rej_ml`.

**`GoldenModel`** translates `golden_model.py`. `process_frame` puts the frame's
messages into `pending`; each `process_message` step takes one and is the disjunct
of where it returns: `Discard`, `Observe`, `Refuse`, `Overflow`, `Trade`.
`Increment` is all the counter calls of a message at once, gate ML's second one
included. What `adverse_risk_fn` answers is open. `GoldenSpec` allows any calls and
is what the proofs are about. **`FeedGen`** translates `feed_gen.py`: one disjunct of
`iter_scenario` a scenario, the random generator's choices as sets within the
ranges of the code. **`OrderRx`** translates `order_rx.py`. **`GoldenBench`** composes
the three: frames come from the generator or, in the scenarios of `Traffic`, from
any caller; orders go through a network that may lose them or into a file; and
`SeqMonitor`, `TobEngine` and `SignalEngine`, wired as in `tob_top.v`, step on each
message the reference processes. Histories: numbers heard in time, a bucket
refilled at the end of every period, when orders left, the net of the orders, when
each book was last confirmed.

**`FeatureExtractor`** translates `feature_extractor.v` with words of `WORD` values
(signed ones in two's complement), **`MlClassifier`** the two stages behind it,
**`FeatureGolden`** and **`MlGolden`** the Python references, with unbounded integers
and their explicit saturation. **`FeaturePath`** composes them with the sequence
monitor, the book and `MlPolicy`, a step a clock edge: the references are called in
the cycle a message is applied, the pipeline delivers the features one cycle and
the verdict four cycles later. The normalizer has no Python reference; `Lane` is the
formula its header states. `history` keeps the messages of each slot since its last
clear.

Mutants (`Name_Suffix`) stand next to the definition they replace. They are
never used by the specifications.

## 3. Runs

| Run | Shows | Bounds |
|---|---|---|
| `risk_ledger` | `TypeOK`, `ExposureWithinLimit`, `LedgerMatchesOrders`, `TokensWithinCeiling` | one slot, 4-bit words, quantities 1 and 3, three settings of limit 2 or 4 and ceiling 1 or 2, rewritten on any cycle, reduction on |
| `risk_rate` | `RateBounded` | intervals up to `MaxWindow` = 9 cycles, bucket of 2, period 3: three refills inside an interval |
| `tx_path` | `TypeOK`, `LaunchFindsIdle`, `WriteWindow`, `SignalConservation`, `KillDrainBounded` | real timing: 16-byte messages, depth 3, header 9, 16 bytes; `almost_full`, `mac_send_end` and the kill switch free, reject reports off |
| `tx_latency` | `CaptureAligned`, `LatencyReported` | depth 1, 4-cycle messages, counter modulo 10, ages up to `MaxAge` = 9: longer than a wait behind two records |
| `tx_stream` | `ImplementsStream` | real timing, reject reports and CSR reads |
| `feed_path` | `TypeOK`, `BookCurrent`, `IntentJustified`, `NoConflict`, `BookMovesForward` | two slots, four messages (`MaxSent`), every loss, repetition and order; clear, trade and snapshot messages, CSR frames; quantities around the rule's thresholds in 4-bit words, shifts 0 and 3, both price orders |
| `pipeline` | `TypeOK`, `JudgedByItsOwnMessage`, `RejectionsWereAdverse` | one slot, messages at least `SPACING` = 5 cycles apart, `CycleMod` 7 and `max_age` 5 (a message is fresh at 5 cycles, stale at 6), sequence numbers to `MaxSeq` = 2, three scores: below, between and above the thresholds, `ml_action` rewritten at any message |
| `golden` | 15 invariants of `GoldenBench` and `GoldenModel`, see below | nine scenarios, see below; `CounterMax` 15, frames of at most `MaxMessages` = 2, order frames of 5 cycles, messages 2 cycles apart, token period 3 or 6, one junk datagram (`MaxStray`) |
| `features` | `TypeOK`, `FeaturesAgree`, `FeaturesFromHistory`, `VerdictsAgree` | two slots, five messages (`MaxMessages`) at least `SPACING` = 4 cycles apart, 4-bit words, 4-bit lanes, windows of 3 in a history of 4 |
| `risk_zero_qty`, `feed_csr`, `golden_ml_count` | a document's claim that the code does not keep, see below | |

What `golden` checks, by what it is about:

- `EngineAgrees`: expected number, gap flag, watched books and the fired signal of
  reference and engine are the same after every message, so a golden vector is a
  fair judge of the RTL;
- `GapsTold`: the gap flag is up exactly when a number is missing since the last
  snapshot or clear, and the counter is the number of missing messages;
- `RefillExact`, `ThrottleHolds`: refilling lazily is the same as refilling on every
  period's end, and the rate holds over the session;
- `SlotsAreOrders`: the two transmit slots are the orders of the last frame time;
- `LedgerIsNet`, `PositionWithinLimit`, `OrdersOnFreshBooks`: ledger, limit, staleness;
- `IngressBalance`, `SignalBalance`, `NoSignalConflict`: the balances of section 10.
  `SignalBalance` states the second one with gates counted per gate;
- `ForcedFramesBite`, `ScenarioAccounted`: the forced frames of "trigger" and
  "crossed" still trigger and cross after any walk of the prices, and every scenario
  shows in the counters what it injected, frame for frame;
- `RecordsAccounted`: every record is read, waiting, or lost by the network.

Why small is enough. Slots of the risk engine share nothing but the bucket, so
one slot reaches every order of ledger and bucket; `RiskProofs` covers any
number. Two sequence numbers tell a record from its neighbour, because at most
two records queue. The clock counter enters only through differences, so runs
whose properties do not mention it set `CycleMod` to 1. Four messages are
enough for a message to be lost, a later one to arrive, the lost one to come
late and a duplicate to follow. In `pipeline` three accepted messages fill a side, fill
the other with an intent, and change the book again while that intent is being
judged; five cycles is tighter than the 16 of the code, and at four the run fails
(the next message overwrites `pend_prev` and `pend_msg`). `MaxMargin` = 1 can
only make the margin smaller than it is, so what is shown of it holds without a bound.
Each scenario of `golden` has the inputs its properties tell apart, so that none is
explored under all: `NUMBERS` (numbers repeated, skipped or next, four frames, a
snapshot, an unwatched symbol, damaged frames, gap clears), `ORDERS` (five
frames on both sides of the rule, two paces, refusing and reducing), `KILLS`, and the
generator's six with `Count` frames: nine for "gaps", which reaches a repeated number
at the fifth and a jump at the ninth, four or fewer for those with a period of three.
In "trigger" every ask quoted has the largest size and the bids
walk down, the worst case for the skewed bid. Five messages of `features` fill a
window of three, push its oldest entry out and clear it; mids move by more than a
signed word holds, and F7 saturates. Its messages come no closer than the
branch is deep: as in the engine, where a message takes 16 cycles. `VerdictsAgree`
leaves an offset outside that wraps the normalizer's difference (see below).
`MaxDrained` and `MaxDebt` cap history counters one above what the properties
speak about. The risk runs use
`CycleMod` 1, so gate STALE never fires in them; the type invariant and the
other theorems of `RiskProofs` hold for every `CycleMod`.

Only the `golden` runs switch the deadlock check off: a session of calls ends
when its scenario does. Elsewhere the clock never stops, and in `FeedPath` a CSR
frame can always arrive.

**Fairness** (`TxPath!FairSpec`, used only by `tx_stream`): the clock runs
(`WF(Next)`), and a MAC that has been given a frame ends it eventually
(`WF(Finish)`): `mac_tx.v` sends a frame to completion with no flow control.
Nothing is assumed of messages, of reads, or of when they arrive; a stream of
CSR reads cannot starve orders because orders win the mux and the order
builder watches `tx_busy` directly. `tx_stream` holds `almost_full` low: the
transmit side ignores a start while it is high, and the record is gone. One
frame at a time cannot fill the vendor's FIFO of 4096 bytes.

### Disagreements between documents and code

- **Position bound** (`risk_zero_qty`): with `cfg_order_qty` 0 and ML reduction,
  `max(1, qty >> shift)` books one lot after gate POSITION looked at zero, and
  the position passes `cfg_max_position`. `ExposureWithinLimit` and its theorem
  assume intents of at least one lot.
- **CSR frames** (`feed_csr`): D19 calls them noise to market-data modules; they
  set the sequence baseline and move the expected number.
- **ML rejections of the reference** (`golden_ml_count`): `golden_model.py` counts a
  rejection by gate ML in the loop over `gates_fired` and again in line 608, so
  `cnt_rej_ml` exceeds `cnt_ml_adverse` (spec line 649); the engine counts it once.

Others were read in the code and have no run that shows them:

- FR-46 says all outbound orders are blocked within a cycle of the kill switch; up
  to three already decided are still sent. `KillDrainBounded` checks that it is never
  more.
- With reject reports on, a reject that overflows the queue is counted as a reject
  and as an overflow, though a comment of `csr_block.v` (line 495) says reports never
  count. `SignalConservation` is checked with reports off.
- The reference adds the missing numbers to `cnt_seq_gap`, the engine adds one per
  gap; it drops an overflowing order before it takes a token or position, the engine
  after; its two transmit slots run side by side, the engine's two orders one after
  the other.
- Gate CROSSED cannot fire in the reference: a crossed book fires no signal.
  The header of `feed_gen.py` says its "crossed" scenario injects that gate.
- `FeedState` of `feed_gen.py` says an ask is generated relative to the last bid; the
  two prices walk independently and cross by themselves in a long run.
- The truncated frame of "malformed" takes a sequence number with it, so every such
  scenario latches the gap flag.
- With `order_qty` 0 and reduction the reference, too, books one lot past the limit;
  `PositionWithinLimit` assumes at least one lot (`ConfigAssumption`).
- `feature_normalizer.v` reads F0, F5 and F7 as signed, so a saturated one becomes
  -1, and its 32-bit difference wraps around for a large offset, though its header
  says it never wraps (raw -2^31 with offset 1 gives 127).
- `ml_golden.py` shifts by the whole of `score_shift`, `ml_policy.v` by its low five
  bits.
- Ctrl+C ends `order_rx.py` with an exception and no summary, the documented way to
  stop a session without `--count`; and with `--count` it waits for ever for records
  the network lost.
- FR-10 says "increment `cnt_seq_gap` by the gap"; `csr_block.v:474` increments it by
  one per gap, and `seq_gap_amount` of `seq_monitor.v` is not connected to it.
- Section 10 balances signals with the sum of `cnt_rej_*`, but FR-43 and the code
  count a reject once for every gate that fires; `SignalConservation` counts
  rejects, not gates.
- FR-50 wants order emission at an offset independent of history, but a queued
  order waits (`LatencyReported` says that its record tells how long).
- A slot whose SYMBOL_n is rewritten goes on showing the old symbol's book until
  the new one is quoted (the feed runs keep the watch list fixed).
- A slot silent for a whole turn of the cycle counter (34 s) looks fresh to gate
  STALE; `JudgedByItsOwnMessage` leaves such slots out (`due.known`).

## 4. Proofs

Eight modules hold theorems, each for every value of the constants under the named
assumptions of the modules it extends. What a theorem assumes beyond those is in its
`ASSUME`, and said here.

**`RiskProofs`**

- **`TypeCorrect`**: the type invariant with the bucket's bounds is inductive.
  The only work is the arithmetic: a wrapped sum stays in the register, a
  refill counter stays within a word because the period does not exceed it.
- **`ExposureSafe`** (intents of at least one lot). `ExposureWithinLimit` alone is
  not inductive over the code's two quantities: the step needs that the
  reduced quantity lies between 1 and the full one, so the booked position lies
  between the old one and the one the gate looked at, both within the limit,
  and that no wrap happens because limits are below 2^31.
- **`LedgerSafe`**, **`CeilingSafe`**: from the type invariant and, for the
  ledger, that no wrap happens.
- **`RateSafe`**: `RateBounded` is not inductive: an interval that starts with a
  full counter refills at once. The strengthening is a potential: orders so
  far times the period, plus tokens left times the period, plus the progress
  of the refill counter, never exceeds what the interval allows.

**`TxProofs`**

- **`TypeSafe`**: every register of the transmit path. The work is in the queue,
  whose ages must stay as long as it, and in the histories' caps.
- **`LaunchSafe`**, assuming `Spaced`, SPACING > `DecisionAge`: the engine is
  safe because a message takes longer to arrive (16 cycles) than its decision
  takes (`2 + ALIGN_DEPTH` = 5). The invariant ties the position of a signal in
  the fast path to the cycles since the last message, so that a read being
  answered leaves no room for a decision. The assumption matters: the
  specification wants a core that accepts a message per cycle (NFR-5) and an ML
  branch that may grow deeper.
- **`WindowSafe`**: the state of the transmit machine determines the age of the
  request, state by state.
- **`ConservationSafe`**, assuming reject reports are off: the balance is the number
  of stages that hold a signal, so the lemma is how that number changes when the
  register shifts: one in, one out.
- **`KillSafe`**, assuming `Spaced`: what is already decided when the switch latches
  is counted, register by register, in `OrdersIn`, and orders launched since plus
  orders still in hand never exceed three.
- **`CaptureSafe`**: the delay line of the order builder is as long as the fast path,
  so entry by entry they hold the same trigger.
- **`LatencySafe`**, assuming `AgesFit` (MaxAge <= LatencyMod <= CycleMod): the age of
  every queued record is the wrapped difference of the cycle counter and its own
  cycle; the lemma is that the difference grows by one whichever of the two wraps.
- **`StreamSafe`**, assuming `Spaced` and no back-pressure: `Spec` implements
  `OrderStream` without its liveness. `Stream!Init` holds initially, and each clock
  edge is an action of `OrderStream` or a stutter, by cases on what the queue,
  `tx_start` and the machine do: which decision leaves, that it was the oldest, and
  that a drop found two before it. `Spaced` is needed since a launch into a busy
  machine would lose a record that `OrderStream` does not drop.

**`FeedProofs`**

- **`TypeSafe`**: every variable of the feed path.
- **`ConflictFree`**: quantities stay below 2^32, so a product of at most 8 fits in
  35 bits and the two rules order the same two numbers both ways (D15).
- **`Forward`**: everything accepted lies below `expected_seq`; no wrap-around
  (`NoWrapAssumption`).
- **`IntentSafe`**: an intent is justified in true integers. On a book that is not
  crossed the spread is not negative, so its 32-bit difference is the difference.
- **`CurrentSafe`**, assuming that symbols stay where they are (`Unremapped`), that no
  two slots watch one (`OneSlotEach`), and that a CSR frame does not carry the number
  of a message to come (`CsrBehind`; `feed_csr` shows what happens then).
  `BookCurrent` alone is not inductive. The invariant (`Tracking`) adds that
  `last` is the message right below `expected_seq`, and that a feed that has accepted
  nothing shows nothing: then a message that raises no gap extends the accepted
  stretch by exactly one, and the search of `LastWord` finds either it or what it
  found before.

**`GoldenProofs`**, about `GoldenSpec`, the reference under any calls

- **`GoldenTypeCorrect`**: the arithmetic is the lazy
  refill: whole periods credited never move the refill time past the clock.
- **`IngressSafe`**: each disjunct of `process_message` adds one to `cnt_msgs_rx` and
  to exactly one counter of the sum. Saturation is why it is stated below
  `CounterMax`.
- **`GoldenConflictFree`**: a quantity cannot exceed a multiple of another that
  exceeds a multiple of it.
- **`ThrottleSafe`**: `ThrottleHolds` is not inductive, since it does not say where in a
  period the clock is. `Credited` bounds orders sent plus tokens left by the periods
  up to `last_refill_cycle`, which never passes the clock.
- **`PositionSafe`**: as `ExposureSafe`: what is booked lies between the old position
  and the one the gate looked at, since `ReducedQty` lies between one lot and
  `order_qty`.

**`BenchProofs`**, about the bench of reference, engine, generator and receiver

- **`FitsSafe`**: every message in hand has the fields a 16-byte record can hold, and
  its number is not the last before the wrap. Frames are bytes, so in the code decoding
  does this (the wrap, after 2^32 messages, is the exception both sides document); in
  the model a price is an integer that walks at random, and that it fits is a fact about
  the frames so far. The invariant `FitInv` bounds them: after g frames a price lies
  within three ticks a frame of where it began, with a forced one at most 20 above
  the other side (`GenInv`; a burst's moves are a sum, bounded by `SumWithin`), and
  traffic's numbers lie below d a frame (`TrafficInv`), since none exceeds the highest
  heard by more than d (`HeardInv`). It assumes `RoomAssumption`: `Count` frames of a
  scenario stay in a word. TLC evaluates that on `golden`. All the theorems below
  that need messages that fit have it from `BenchSafe`.
- **`TypeSafe`**: the rest of `TypeOK`, from `FitsSafe`.
- **`BenchIsGolden`**: every step of the bench is a call of `GoldenSpec` or leaves the
  reference alone, so all theorems of `GoldenProofs` hold of the bench.
- **`LedgerSafe`**: the ledger is the net of the orders that left.
- **`RefillSafe`**: a bucket refilled lazily differs from the eager one by the whole
  periods between `last_refill_cycle` and the clock, and both saturate; the lemmas
  are about `\div` of a sum (`Quotient`, `DivSub`).
- **`SlotsSafe`**: the slots are the ends of the last orders in the order they left;
  since sends are in order, those expired are a prefix.
- **`FreshSafe`**: the time the reference compares is the time of the book's last message.
- **`GapsSafe`**: the highest number heard is `expected_seq - 1` (`HeardInv`), and the
  counter is the cardinality of the numbers below that were not heard in time, up to
  saturation (`GapInv`). `MissingGrows` says what a jump adds.
- **`EngineSafe`**, assuming `EngineFits` (each watched symbol has a slot of its own,
  and the factor is one of the four the engine can shift by): the relation between
  the two states is inductive message by message. One lemma for each wire: the
  filters choose the same book (`FilterAgrees`), the expected numbers move alike
  (`NumbersAgree`), books (`BooksAgree`) and rules (`RulesAgree`, `SignalAgrees`) give
  the same though one side wraps words and the other does not.
- **`SignalSafe`**: a signal moves seven counters and any number of gates' at once.
  `SignalInv` says below saturation what `SignalBalance` does and that signals are
  no more than messages, so that none of its own counters saturates first. Gate ML's
  can: `_run_ml` counts it and the gates may count it again, which is why it
  is no bound from below. That a reject fires a gate makes the sum over all gates grow
  (`SumGrows`).
- **`RecordsSafe`**: records are counted where they are (`Kept`: the places of a queue that
  hold one; a bijection when the head leaves). `RxInv` has three parts: the receiver's
  own sums (`TallyInv`), that a finished capture is empty (`QueueInv`), and that every
  record the counters tell of is read, waiting or lost (`RecordInv`). What ties them to
  the reference is one fact about each message, which record it leaves beside what it
  counts (`Emits` in `SignalCounts`). Assumes `ReceiverAssumption`: the receiver names
  every gate, and junk is not a record; TLC evaluates it.

- **`ForcedSafe`**: `ForcedFramesBite` says what the model makes of a forced bid, but the
  generator forces it against its own ask. The invariant (`BiteInv`) ties the two: between frames
  a valid ask of the model is the generator's, of at most 200 lots (`AskTold`), the next
  number is the one expected, so no quote is dropped as a duplicate (`Awaited`), and a
  frame yielded or in hand carries one message that restores this (`Coming`). Then 500
  lots outweigh the ask, and any skew is at least the spread. Assumes
  `TriggerAssumption`: every configuration "trigger" is run with asks for no
  more than that. `feed_gen.py` says so of its skew ("default min_spread=2/imb_shift=1
  thresholds"); with larger thresholds the scenario fires nothing.
- **`ScenarioSafe`**: `ScenarioAccounted` speaks of the moments between frames. The
  invariant (`ScenarioInv`) says of every state how much of what was promised is still
  owed (`Owing`, `GapOwing`) and by which messages: a run of plain numbered-on
  ones, of which a burst is the longest (`Run`), or a single one that jumps,
  repeats or is damaged, or a cut frame. Each message is counted in exactly the
  counters it owes (`MessageTally`, from the one place every fate of a message
  counts), and the generator's choice by turns makes a promise
  grow when such a message comes (`NextOwing`, `NextGap`: `\div` by 3 and 8).
  Assumes `ScenarioAssumption`: a scenario ends before a counter is full, a full burst is
  a frame the model accepts (88 in both), and the receiver watches the generator's symbols
  (1 to 4 by default in both).

**`PipelineProofs`**, about the fast path beside the ML branch and the risk engine

- **`TypeSafe`**: every register of the three, and of the intent in hand.
- **`JudgedSafe`** and **`RejectionsSafe`**, assuming `Matched`: the delay line is as deep
  as the branch (`ALIGN_DEPTH` = `MlStages`) and a message takes at least two cycles
  longer to arrive (SPACING >= ALIGN_DEPTH + 2): `tob_top.v` has depth 3 and 16 bytes,
  and a run of `pipeline` with a spacing of 4 fails. The invariant has five parts. `PathInv`: the stage where an intent or a
  classified event is tells the cycles since its message, so there is never more
  than one on its way. `VerdictInv`: the verdict of an event in the branch is what
  the policy will decide of it, though the policy reads book and gap flag later.
  `JudgeInv`: each intent in flight is `Faithful`: what the gates say of it from the
  registers of now is what `due` recorded at its message. `SilenceInv`: below
  a turn of the cycle counter, the wrapped difference is the slot's silence.
  `MarginInv`: a rejection is counted the cycle after its event. TLC checked the conjunction on the
  run's instance before it was proved.

**`SumProofs`**, about sums over finite sets (`SumFunction` of the community modules)

The library's induction theorems take an operator as a parameter, which no prover
here can instantiate. Induction on a finite set is had without them from a least
counterexample: natural numbers are well-founded, so among the subsets that break a claim
there is one of least cardinality, and the claim holds of it without any one element
(`LeastSet`). With that the sum exists and is one (`SumExists`, `SumUnique`: the order
of its terms does not matter), loses one term when an element leaves
(`SumRemove`), ignores zeros (`SumOfSome`) and survives a renaming of its indices
(`SumRenamed`). From these, sums grow with their terms (`SumMonotone`, `SumGrows`) and
are bounded by the number of them (`SumWithin`).

**`FeatureProofs`**, about the ML branch beside its Python references

All but `TypeSafe` assume `SameSizes`: both sides have the same word and window (the
reference's list may be longer).

- **`TypeSafe`**: every register of the branch, and all the references remember.
- **`FeaturesSafe`**: `FeaturesAgree` speaks of the moment of an event; the invariant
  `MirrorInv` of all the time in between. Entry j of a slot's shift register is entry
  j from the end of the reference's list (`Listed`), through trades and heartbeats,
  overflow of the list and clears. That both count and sum the same (`SameWindow`)
  is a bijection between the two index sets. Saturated differences agree though one side
  saturates integers and the other compares words (`SatAgrees`).
- **`HistorySafe`**: entry j of the shift register is what the event j from the end of
  the history did (`Told`), and the registered prices are those of its last book
  event (`Chronicles`). A message appended changes no older entry (`MovesKept`).
- **`VerdictSafe`**, assuming also `SameModel` (the memories hold the reference's weights,
  its word is the normalizer's), `Spaced` (SPACING >= 4; messages are 16 bytes) and
  `[]OffsetsFit` (no difference of feature and offset leaves a word; where it does, the code
  wraps, see above). The invariant `VerdictInv` tells from the stage where an event is
  how long ago its message completed, so that book, gap flag, and held level are
  still those the reference saw: `Verdict` is what the policy will say of it.
  **`VerdictSafeAtReset`**: with the offsets `csr_block.v` resets to, which are zero,
  `OffsetsFit` holds and the verdicts agree without it.

TLC checked `TypeInv`, `MirrorInv`, `HistoryInv` and `VerdictInv` on the instance of
`features` before they were proved.

Only model-checked, and why: liveness, the part of `ImplementsStream` under `FairSpec`
(fairness and ENABLED are out of the prover's reach; its safety part is `StreamSafe`). Every
other property that a passing run checks is stated by a theorem.

Assumptions a reader should know: `token_refill_cycles` is not 0 (it would refill
on every cycle) and is fixed for `RateBounded`, since a period shortened below the counter refills
on consecutive cycles until it catches up; limits below 2^31; sequence
numbers do not wrap (`seq_monitor.v` says it does not handle that); the
imbalance factor is 1, 2, 4 or 8; each watched symbol has a slot of its own
(`EngineFits`); what a scenario sends fits its
words (`RoomAssumption`) and its counters (`ScenarioAssumption`). In `FeaturePath` a word has room for a count of the
window (`PathAssumption`), the fields of a message are words (`ContentAssumption`), offsets
are words, scales positive (`ConfigAssumption`), and no event is the mark of there being
none (`EventAssumption`).

## 5. Not modelled, and the plan

Next, in this order:

1. `CsrCounters`: all counters, STATUS, the latency minimum and maximum, the
   histogram; the section 10 invariants with several gates firing (FR-43) and
   with clears while orders are in flight.
2. `RxPath`: the RAM walk of `eth_mac_if.v`, the length gate, framing of messages
   in the parser after a bad frame.
Left out for good: MDIO, PHY resets and LEDs (another clock, no interaction), the
vendored MAC (third-party; its outputs are free inputs), the test benches, the soak
vector writer (a loop over the "normal" scenario), the slides, and of the Python
side what only formats: record and summary lines, hex files, the bytes of a
message, the weight files.
