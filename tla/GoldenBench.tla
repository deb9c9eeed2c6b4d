------------------------------ MODULE GoldenBench ------------------------------
(***************************************************************************)
(* The reference model at work.  It is fed by the scenarios of the feed    *)
(* generator or by any traffic at all, its order records go to the order   *)
(* receiver, and beside it the feed modules of the engine (SeqMonitor,     *)
(* TobEngine, SignalEngine, as tob_top.v connects them) take the same      *)
(* messages: the comparison the test vectors are made for.                 *)
(***************************************************************************)
EXTENDS GoldenModel, FeedGen, OrderRx

CONSTANTS
  Traffic,    \* scenarios of any frames and calls, not of the generator
  Content,    \* [traffic -> what a message can say, besides its number]
  Steps,      \* [traffic -> how its number differs from the highest so far]
  Controls,   \* [traffic -> the other calls made]
  MaxCalls,   \* [traffic -> bound of the frames]
  Setup,      \* [scenario -> configurations it is run with]
  Arrivals,   \* [scenario -> cycles after the last message, or None]
  Listening,  \* [scenario -> who listens to the orders]
  MaxStray,   \* bound of the junk received
  Slot,
  NoSlot,
  NoIntent,
  WordMod     \* widths of the engine, which nothing here reaches (RoomAssumption)

VARIABLES
  inHand,         \* kind and symbol of the frame being processed, or NoFrame
  rtl_expected,
  rtl_seen_first,
  rtl_gap,
  rtl_bid,
  rtl_ask,
  rtl_sig,
  lost,           \* records the network lost
  stray,          \* junk sent so far
  heard,          \* history: numbers that came in time
  resync,         \* history: the gap flag speaks of the numbers from here on
  eager,          \* history: the bucket, refilled on every period's end
  sends,          \* history: when the last two orders left
  net,            \* history: [symbol -> net quantity of the orders]
  touched,        \* history: [symbol -> when its book was last confirmed]
  silence         \* history: how long it had been before the last message

rtlVars == <<rtl_expected, rtl_seen_first, rtl_gap, rtl_bid, rtl_ask, rtl_sig>>
historyVars == <<heard, resync, eager, sends, net, touched, silence>>
vars == <<goldenVars, genVars, rxVars, inHand, rtlVars, lost, stray, historyVars>>

Mon == INSTANCE SeqMonitor WITH SeqMod <- WordMod,
  expected_seq <- rtl_expected, seen_first <- rtl_seen_first, seq_gap <- rtl_gap

Tob == INSTANCE TobEngine WITH bid <- rtl_bid, ask <- rtl_ask

Sig == INSTANCE SignalEngine WITH PriceMod <- WordMod, QtyMod <- WordMod, sig <- rtl_sig

ASSUME BenchAssumption ==
  /\ \A s \in Scenarios : Arrivals[s] \subseteq Int \cup {None}
  /\ Slot \subseteq Nat /\ NoSlot \notin Slot
  /\ WordMod \in Nat \ {0}
  /\ NoIntent \notin [slot : Slot, side : {Tob!BID, Tob!ASK}, price : Nat, qty : Nat]

KILL == "kill"
GAP == "gap"
DAMAGE == "damage"

Init ==
  /\ GoldenInit
  /\ GenInit
  /\ RxInit
  /\ source \in Listening[scenario]
  /\ cfg \in Setup[scenario]
  /\ inHand = NoFrame
  /\ Mon!SeqReset /\ Tob!BookReset /\ Sig!SigReset
  /\ lost = 0 /\ stray = 0
  /\ heard = {} /\ resync = 0
  /\ eager = cfg.token_max
  /\ sends = <<>>
  /\ net = [s \in Symbol |-> 0]
  /\ touched = [s \in Symbol |-> 0]
  /\ silence = 0

-----------------------------------------------------------------------------
(* The engine's feed modules on the same message. *)

rtlCfg ==
  LET watched(s) == s < cfg.num_symbols /\ s + 1 \in DOMAIN cfg.symbols
  IN [symbol |-> [s \in Slot |-> IF watched(s) THEN cfg.symbols[s + 1] ELSE 0],
      symbol_en |-> [s \in Slot |-> watched(s) /\ cfg.symbol_en[s + 1]],
      min_spread |-> cfg.min_spread, imb |-> cfg.imb, order_qty |-> cfg.order_qty]

SeqIn(msg) ==
  [complete |-> TRUE, seq |-> msg.seq_num, snapshot |-> msg.snapshot,
   seq_gap_clear |-> FALSE]

TypeName ==
  [t \in VALID_MSG_TYPES |->
     CASE t = MSG_QUOTE -> Tob!QUOTE [] t = MSG_TRADE -> Tob!TRADE
       [] t = MSG_CLEAR -> Tob!CLEAR [] t = MSG_HEARTBEAT -> Tob!HEARTBEAT]

(* md_parser.v: an undefined type or a reserved flag is not forwarded. *)
BookIn(msg) ==
  LET valid == msg.msg_type \in VALID_MSG_TYPES /\ ~msg.reserved
  IN [valid |-> valid, type |-> IF valid THEN TypeName[msg.msg_type] ELSE "bad",
      symbol |-> msg.symbol_id,
      side |-> IF msg.side = SIDE_BID THEN Tob!BID ELSE Tob!ASK,
      price |-> msg.price, qty |-> msg.quantity,
      dup |-> Mon!err_seq_dup(SeqIn(msg)), cfg |-> rtlCfg]

SigIn(in) ==
  IF Tob!book_upd_valid(in)
  THEN [upd |-> TRUE, slot |-> Tob!filt_slot(in), bid |-> Tob!next_bid(in),
        ask |-> Tob!next_ask(in), crossed |-> Tob!next_crossed(in), cfg |-> rtlCfg]
  ELSE [upd |-> FALSE]

RtlMessage(msg) ==
  /\ Mon!SeqStep(SeqIn(msg))
  /\ Tob!BookStep(BookIn(msg))
  /\ Sig!SignalStep(SigIn(BookIn(msg)))

RtlQuiet(clear) ==
  /\ Mon!SeqStep([complete |-> FALSE, seq |-> 0, snapshot |-> FALSE,
                  seq_gap_clear |-> clear])
  /\ UNCHANGED <<rtl_bid, rtl_ask>>
  /\ Sig!SignalStep([upd |-> FALSE])

-----------------------------------------------------------------------------
(* Where an order record goes: into a datagram that may be lost, or a file. *)

SideOf(order) == IF order.side = SIDE_BID THEN "buy" ELSE "sell"
ReasonOf(order) ==
  IF order.reject_reason = 0 THEN "accepted" ELSE GATE_NAME[order.reject_reason]

Emit ==
  IF result'.order = NoOrder \/ source \notin {UDP, FILE}
  THEN UNCHANGED <<socket, lost>>
  ELSE LET order == result'.order
           rec == [type |-> order.msg_type, side |-> SideOf(order),
                   reason |-> ReasonOf(order), latency |-> order.latency_cyc]
       IN \/ socket' = Append(socket, rec) /\ UNCHANGED lost
          \/ source = UDP /\ lost' = lost + 1 /\ UNCHANGED socket

-----------------------------------------------------------------------------
(* History. *)

Highest == IF heard = {} THEN -1 ELSE CHOOSE n \in heard : \A k \in heard : k <= n

SequenceHistory(msg) ==
  LET inTime == msg.seq_num > Highest
  IN /\ heard' = IF inTime THEN heard \cup {msg.seq_num} ELSE heard
     /\ resync' = IF heard = {} THEN msg.seq_num
                  ELSE IF msg.snapshot
                       THEN 1 + IF inTime THEN msg.seq_num ELSE Highest
                  ELSE resync

(* Period ends passed since the last message, counted on the clock. *)
PeriodEnds ==
  current_cycle' \div cfg.token_refill_cycles - current_cycle \div cfg.token_refill_cycles

OrderHistory ==
  LET sent == result'.order.msg_type = ORDER_MSG_NEW
      order == result'.order
  IN /\ eager' = Lesser(cfg.token_max, eager + PeriodEnds) - One(sent)
     /\ sends' = IF sent
                 THEN IF Len(sends) = 2 THEN <<sends[2], current_cycle'>>
                      ELSE Append(sends, current_cycle')
                 ELSE sends
     /\ net' = IF sent
               THEN [net EXCEPT ![order.symbol_id] = @ + Signed(order.side, order.quantity)]
               ELSE net

BookHistory(msg) ==
  LET confirmed == /\ msg.msg_type \in VALID_MSG_TYPES /\ ~msg.reserved
                   /\ msg.symbol_id \in watched_symbols
                   /\ msg.seq_num > Highest
  IN /\ touched' = IF confirmed THEN [touched EXCEPT ![msg.symbol_id] = current_cycle']
                   ELSE touched
     /\ silence' = current_cycle' - touched[msg.symbol_id]

-----------------------------------------------------------------------------

Arrival(offset) ==
  IF offset = None THEN None ELSE Larger(0, current_cycle + offset)

(* iter_scenario yields the next frame ... *)
Generate ==
  /\ pending = <<>>
  /\ iter_scenario
  /\ inHand' = NoFrame
  /\ UNCHANGED <<goldenVars, rxVars, rtlVars, lost, stray, historyVars>>

(* ... and the model takes it. *)
Feed ==
  /\ Take
  /\ \E offset \in Arrivals[scenario] :
       process_frame(yielded.payload, Arrival(offset), TRUE)
  /\ inHand' = [kind |-> yielded.kind, symbol |-> yielded.symbol]
  /\ RtlQuiet(FALSE)
  /\ silence' = 0
  /\ UNCHANGED <<rxVars, lost, stray, heard, resync, eager, sends, net, touched>>

Numbered(content, n) ==
  [msg_type |-> content.msg_type, symbol_id |-> content.symbol_id,
   side |-> content.side, snapshot |-> content.snapshot,
   reserved |-> content.reserved, price |-> content.price,
   quantity |-> content.quantity, seq_num |-> n]

CallFrame(messages, ragged, fcs_ok) ==
  /\ scenario \in Traffic
  /\ counters["cnt_frames_rx"] < MaxCalls[scenario]
  /\ \E offset \in Arrivals[scenario] :
       process_frame([messages |-> messages, ragged |-> ragged], Arrival(offset), fcs_ok)
  /\ RtlQuiet(FALSE)
  /\ silence' = 0
  /\ UNCHANGED <<genVars, rxVars, inHand, lost, stray, heard, resync, eager,
                 sends, net, touched>>

(* Any message with any number: lost, repeated and reordered ones.         *)
AnyMessage ==
  scenario \in Traffic
    /\ \E content \in Content[scenario], step \in Steps[scenario] :
         CallFrame(<<Numbered(content, Larger(1, Highest + step))>>, FALSE, TRUE)

(* Frames the model must not look into: empty, ragged, or damaged.         *)
AnyBadFrame ==
  /\ scenario \in Traffic /\ DAMAGE \in Controls[scenario]
  /\ \E content \in Content[scenario] :
       LET messages == <<Numbered(content, Highest + 1)>>
       IN \/ CallFrame(<<>>, FALSE, TRUE)
          \/ CallFrame(messages, TRUE, TRUE)
          \/ CallFrame(messages, FALSE, FALSE)

(* The next message of the frame in hand. *)
ProcessNext ==
  /\ process_message
  /\ RtlMessage(Head(pending))
  /\ Emit
  /\ SequenceHistory(Head(pending))
  /\ OrderHistory
  /\ BookHistory(Head(pending))
  /\ UNCHANGED <<genVars, source, session, received, stats, inHand, stray>>

ControlCalls ==
  /\ scenario \in Traffic
  /\ \/ /\ KILL \in Controls[scenario]
        /\ assert_kill_switch \/ clear_kill_switch
        /\ RtlQuiet(FALSE)
        /\ UNCHANGED resync
     \/ /\ GAP \in Controls[scenario]
        /\ clear_seq_gap
        /\ RtlQuiet(TRUE)
        /\ resync' = IF heard = {} THEN resync ELSE Highest + 1
  /\ silence' = 0
  /\ UNCHANGED <<genVars, rxVars, inHand, lost, stray, heard, eager, sends, net,
                 touched>>

(* Unexpected traffic on the receiver's port, or a damaged line. *)
Stray ==
  /\ source \in {UDP, FILE}
  /\ stray < MaxStray
  /\ stray' = stray + 1
  /\ socket' = Append(socket, Junk)
  /\ UNCHANGED <<goldenVars, genVars, source, session, received, stats, inHand,
                 rtlVars, lost, historyVars>>

(* A capture is a whole scenario's; other traffic has no last frame. *)
Ended ==
  scenario \notin Traffic /\ generated >= Limit /\ yielded = NoFrame /\ pending = <<>>

Receiver ==
  /\ Read \/ Skip \/ BadLine \/ Finish(Ended) \/ Interrupt
  /\ UNCHANGED <<goldenVars, genVars, inHand, rtlVars, lost, stray, historyVars>>

Next ==
  \/ Generate \/ Feed
  \/ AnyMessage \/ AnyBadFrame \/ ControlCalls
  \/ ProcessNext
  \/ Stray \/ Receiver

Spec == Init /\ [][Next]_vars

-----------------------------------------------------------------------------

(* Every message in hand was decoded from its sixteen bytes, and numbers   *)
(* do not wrap around.                                                     *)
WireMessage ==
  [msg_type : 0 .. 255, symbol_id : Symbol, side : 0 .. 255,
   snapshot : BOOLEAN, reserved : BOOLEAN, price : 0 .. WordMod - 1,
   quantity : 0 .. WordMod - 1, seq_num : 0 .. WordMod - 2]

Fits == pending \in Seq(WireMessage)

(* The words have room for all a scenario sends.  A price takes at most    *)
(* three ticks a message and is forced to 20 above the other at most, a    *)
(* number jumps by six at most in a frame, and traffic's by at most d.     *)
ASSUME RoomAssumption ==
  /\ FeedSymbols \subseteq Symbol
  /\ Traffic \cap {NORMAL, CROSSED, GAPS, MALFORMED, BURST, TRIGGER} = {}
  /\ \A s \in Scenarios \ Traffic :
       /\ 3 * Count[s] <= 10000 /\ 10030 + 3 * Count[s] < WordMod
       /\ 6 * Count[s] + 2 <= WordMod
  /\ \A t \in Scenarios \cap Traffic :
       /\ MaxCalls[t] \in 0 .. CounterMax
       /\ \A content \in Content[t] : Numbered(content, 0) \in WireMessage
       /\ Steps[t] \subseteq Int
       /\ \E d \in 1 .. WordMod :
            (\A step \in Steps[t] : step <= d) /\ d * MaxCalls[t] + 3 <= WordMod

(* What a record says to the receiver, which can name all it may be sent.  *)
OrderRecord ==
  [type : {ORDER_MSG_NEW, ORDER_MSG_REJECT}, side : SideName, reason : Reasons,
   latency : {TICK_TO_TRADE_CYCLES}]

ASSUME ReceiverAssumption ==
  /\ Reasons = {"accepted"} \cup {GATE_NAME[g] : g \in Gate}
  /\ OrderNames[ORDER_MSG_NEW] = "new_order"
  /\ OrderNames[ORDER_MSG_REJECT] # "new_order"
  /\ RxCount \in Nat \cup {Forever}
  /\ Junk \notin OrderRecord

(* No frame of the generator's is the sign for none. *)
Frame ==
  [payload : [messages : Seq(WireMessage), ragged : BOOLEAN],
   kind : {FILLER, FORCED, DUPLICATE}, symbol : FeedSymbols]

(* "trigger" is tuned to the default thresholds: its skewed bid outweighs  *)
(* the largest quote, and no skew is narrower than the spread required.    *)
ASSUME TriggerAssumption ==
  /\ NoFrame \notin Frame
  /\ \A s \in Scenarios \cap {TRIGGER} : \A c \in Setup[s] :
       200 * c.imb < 500 /\ \A skew \in Skew : c.min_spread <= skew

(* A scenario is for a receiver that watches its symbols and takes the     *)
(* longest burst, and ends before a counter is full.                       *)
ASSUME ScenarioAssumption ==
  /\ BurstSize <= MaxMessages
  /\ \A s \in Scenarios \ Traffic :
       /\ Count[s] <= CounterMax
       /\ \A c \in Setup[s], symbol \in FeedSymbols :
            \E i \in 1 .. Lesser(c.num_symbols, Len(c.symbols)) :
              c.symbol_en[i] /\ c.symbols[i] = symbol

TypeOK ==
  /\ GoldenTypeOK
  /\ Fits
  /\ generated \in 0 .. Limit /\ seq \in Nat
  /\ bid_price \in [FeedSymbols -> Nat] /\ ask_price \in [FeedSymbols -> Nat]
  /\ session \in {LISTENING, SUMMARY, RAISED}
  /\ received \in Nat /\ lost \in Nat
  /\ rtl_expected \in 0 .. WordMod - 1 /\ rtl_gap \in BOOLEAN
  /\ resync \in Nat /\ heard \subseteq Nat

(***************************************************************************)
(* The reference and the engine agree on every message: the number they    *)
(* expect, the gap flag, every watched book with its old prices, and the   *)
(* signal with its side and price.  They are written apart, one message at *)
(* a time in Python and as registers in Verilog, and disagreed more than   *)
(* once (D12, D14).                                                        *)
(***************************************************************************)
SameBook(s, b) ==
  /\ rtl_bid[s] = [price |-> b.bid_price, qty |-> b.bid_qty, valid |-> b.bid_valid]
  /\ rtl_ask[s] = [price |-> b.ask_price, qty |-> b.ask_qty, valid |-> b.ask_valid]

EngineAgrees ==
  /\ rtl_seen_first <=> expected_seq # None
  /\ expected_seq # None => rtl_expected = expected_seq
  /\ rtl_gap = seq_gap
  /\ \A s \in Slot :
       rtlCfg.symbol_en[s] => SameBook(s, books[rtlCfg.symbol[s]])
  /\ rtl_sig # NoIntent <=> result.signal # None
  /\ rtl_sig # NoIntent =>
       /\ rtl_sig.side = IF result.signal = SIDE_BID THEN Tob!BID ELSE Tob!ASK
       /\ result.order # NoOrder =>
            /\ rtl_sig.price = result.order.price
            /\ rtlCfg.symbol[rtl_sig.slot] = result.order.symbol_id

(***************************************************************************)
(* The gap flag is up exactly when a number is missing since the last      *)
(* resynchronization (a snapshot, a clear, or the baseline), and the       *)
(* counter tells exactly how many were ever missing (FR-10, FR-12), in     *)
(* any order of arrival, across undefined and unwatched messages.          *)
(***************************************************************************)
GapsTold ==
  heard # {} =>
    LET first == CHOOSE n \in heard : \A k \in heard : n <= k
    IN /\ seq_gap <=> ~(resync .. Highest \subseteq heard)
       /\ counters["cnt_seq_gap"] =
            Lesser(CounterMax, Cardinality((first .. Highest) \ heard))

(***************************************************************************)
(* The bucket that is refilled only when a message comes always holds what *)
(* one refilled at the end of every period would (the engine's).           *)
(***************************************************************************)
RefillExact == token_bucket = eager

(***************************************************************************)
(* The transmit slots are the orders of the last ORDER_TX_CYCLES cycles,   *)
(* and an order is dropped only behind two of them (spec 7.5).    *)
(***************************************************************************)
OnTheWire == {i \in DOMAIN sends : sends[i] + ORDER_TX_CYCLES > current_cycle}

SlotsAreOrders ==
  /\ Len(tx_busy_until) = Cardinality(OnTheWire)
  /\ \A i \in 1 .. Len(tx_busy_until) :
       tx_busy_until[i] =
         sends[Len(sends) - Len(tx_busy_until) + i] + ORDER_TX_CYCLES
  /\ result.dropped => Cardinality(OnTheWire) = 2

(***************************************************************************)
(* The ledger is the sum of the orders, whatever was reduced, refused or   *)
(* dropped (D16).                                                          *)
(***************************************************************************)
LedgerIsNet == position = net

(***************************************************************************)
(* No order goes out on a book that was silent for longer than max_age     *)
(* before its message (D17).                                               *)
(***************************************************************************)
OrdersOnFreshBooks == result.order.msg_type = ORDER_MSG_NEW => silence <= cfg.max_age

(***************************************************************************)
(* Every signal ends as an order, a reject or an overflow, and is judged   *)
(* once by the classifier (spec section 10, "Signals" and "ML").           *)
(***************************************************************************)
SignalBalance ==
  LET signals == counters["cnt_signal_buy"] + counters["cnt_signal_sell"]
      refused == signals - counters["cnt_orders_tx"] - counters["cnt_order_overflow"]
  IN counters["cnt_msgs_rx"] < CounterMax =>
       /\ refused >= 0
       /\ \A g \in Gate \ {GATE_ML} : counters[GATE_NAME[g]] <= refused
       /\ refused <= SumFunction([g \in Gate |-> counters[GATE_NAME[g]]])
       /\ counters["cnt_ml_events"] = signals
       /\ counters["cnt_ml_adverse"] + counters["cnt_ml_benign"] = signals

(***************************************************************************)
(* The generator's forced frames do what their scenarios are for, however  *)
(* the prices have walked: the skewed bid of "trigger" fires a buy, the    *)
(* crossing bid of "crossed" leaves a crossed book that fires nothing, as  *)
(* soon as the receiver has an ask.                                        *)
(***************************************************************************)
ForcedFramesBite ==
  inHand # NoFrame /\ pending = <<>> =>
    (inHand.kind = FORCED /\ books[inHand.symbol].ask_valid =>
       IF scenario = TRIGGER THEN result.signal = SIDE_BID
       ELSE crossed(books[inHand.symbol]) /\ result.signal = None)

(***************************************************************************)
(* What every scenario promises to inject arrives in the counters, frame   *)
(* for frame, and nothing else does.                                       *)
(***************************************************************************)
ScenarioAccounted ==
  scenario \notin Traffic /\ pending = <<>> /\ yielded = NoFrame =>
    LET malformed(k) == IF scenario = MALFORMED THEN (generated + k) \div 3 ELSE 0
        jumps == IF scenario = GAPS /\ generated > 0 THEN (generated - 1) \div 8 ELSE 0
    IN /\ counters["err_frame_len"] = malformed(2)
       /\ counters["err_msg_type"] = malformed(1)
       /\ counters["err_flags"] = malformed(0)
       /\ counters["cnt_seq_dup"] =
            IF scenario = GAPS THEN (generated + 3) \div 8 ELSE 0
       /\ scenario # MALFORMED =>
            /\ counters["cnt_msgs_accepted"] = generated
            /\ counters["cnt_seq_gap"] \in 2 * jumps .. 5 * jumps

(***************************************************************************)
(* Every order record is read, waiting, or lost by the network, as long as *)
(* the receiver listens; the sums of the summary agree with one another;   *)
(* and a receiver that stops by itself has read what it was asked for.     *)
(* Until the model's counters saturate.                                    *)
(***************************************************************************)
Waiting == {i \in DOMAIN socket : socket[i] # Junk}

Emitted ==
  IF cfg.cfg_reject_report
  THEN counters["cnt_ml_events"] - counters["cnt_order_overflow"]
  ELSE counters["cnt_orders_tx"]

RecordsAccounted ==
  source \in {UDP, FILE} =>
    /\ stats.total = stats.by_side["buy"] + stats.by_side["sell"]
    /\ stats.by_reject_reason["accepted"] = Len(stats.accepted_latencies)
    /\ session = SUMMARY /\ source = UDP => stats.total = RxCount
    /\ counters["cnt_msgs_rx"] < CounterMax =>
         /\ stats.total + Cardinality(Waiting) + lost = Emitted
         /\ stats.by_reject_reason["accepted"] <= counters["cnt_orders_tx"]
         /\ session = SUMMARY /\ source = FILE => stats.total = Emitted

=============================================================================
