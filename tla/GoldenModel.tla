------------------------------ MODULE GoldenModel ------------------------------
(***************************************************************************)
(* sim/golden_model.py: the Python reference of the whole datapath, from a *)
(* frame's payload to an order record, as a state machine of its calls.    *)
(* process_frame is a step that takes the frame in and one step of         *)
(* process_message for each of its messages; nothing else is called until  *)
(* the last of them returns.                                               *)
(*                                                                         *)
(* A message is the record of its fields, with the two facts about flags   *)
(* the model looks at; a payload is its messages and whether its length is *)
(* off a multiple of 16.                                                   *)
(***************************************************************************)
EXTENDS Integers, Sequences, FiniteSets

CONSTANTS
  Symbol,           \* symbol identifiers on the feed
  None,             \* expected_seq before the first message, no arrival given
  CounterMax,       \* where a counter saturates: 2^32 - 1
  TriggerMod,       \* trigger_seq keeps the low 16 bits: 2^16
  MaxMessages,      \* messages of the longest frame: 88
  ORDER_TX_CYCLES,
  TICK_TO_TRADE_CYCLES,
  DEFAULT_INTER_ARRIVAL_CYCLES,
  Configs           \* what the model is built with

ASSUME GoldenAssumption ==
  /\ None \notin Int
  /\ CounterMax \in Nat \ {0}
  /\ TriggerMod \in Nat \ {0}
  /\ MaxMessages \in Nat \ {0}
  /\ ORDER_TX_CYCLES \in Nat \ {0}
  /\ TICK_TO_TRADE_CYCLES \in Nat
  /\ DEFAULT_INTER_ARRIVAL_CYCLES \in Nat \ {0}

(* An order is at least one lot; a period of 0 would raise an error.       *)
ASSUME ConfigAssumption ==
  \A c \in Configs :
    /\ c.num_symbols \in Nat
    /\ DOMAIN c.symbol_en = DOMAIN c.symbols
    /\ {c.min_spread, c.max_order_qty, c.max_position, c.price_band, c.max_age,
        c.token_max, c.ml_action} \subseteq Nat
    /\ {c.order_qty, c.token_refill_cycles, c.imb, c.ml_reduce} \subseteq Nat \ {0}
    /\ c.cfg_reject_report \in BOOLEAN

VARIABLES
  cfg,                \* self.cfg, never changed by the model
  counters,
  books,              \* a symbol never touched has the default book
  position,
  expected_seq,
  seq_gap,
  kill_latched,
  token_bucket,
  last_refill_cycle,
  tx_busy_until,      \* when the order frames on their way will have left
  current_cycle,
  pending,            \* messages of the frame in hand still to be processed
  arrival,            \* arrival cycle of the next of them, or None
  result              \* what the last message returned

feedVars == <<expected_seq, seq_gap>>
paceVars == <<token_bucket, last_refill_cycle, tx_busy_until, current_cycle>>
goldenVars == <<cfg, counters, books, position, feedVars, kill_latched,
                paceVars, pending, arrival, result>>

MSG_QUOTE == 1
MSG_TRADE == 2
MSG_CLEAR == 3
MSG_HEARTBEAT == 255
VALID_MSG_TYPES == {MSG_QUOTE, MSG_TRADE, MSG_CLEAR, MSG_HEARTBEAT}

SIDE_BID == 0
SIDE_ASK == 1

ORDER_MSG_NEW == 16
ORDER_MSG_REJECT == 17

GATE_KILL == 1
GATE_SIZE == 2
GATE_POSITION == 3
GATE_BAND == 4
GATE_STALE == 5
GATE_SEQGAP == 6
GATE_CROSSED == 7
GATE_THROTTLE == 8
GATE_ML == 9

GATE_NAME ==
  <<"cnt_rej_kill", "cnt_rej_size", "cnt_rej_position", "cnt_rej_band",
    "cnt_rej_stale", "cnt_rej_seqgap", "cnt_rej_crossed", "cnt_rej_throttle",
    "cnt_rej_ml">>
Gate == 1 .. 9

(* The counters somebody increments. *)
Counter ==
  {"cnt_frames_rx", "cnt_msgs_rx", "cnt_msgs_filtered", "cnt_msgs_accepted",
   "err_fcs", "err_frame_len", "err_msg_type", "err_flags",
   "err_signal_conflict", "cnt_seq_gap", "cnt_seq_dup", "cnt_crossed",
   "cnt_book_clear", "cnt_trades", "cnt_heartbeats", "cnt_signal_buy",
   "cnt_signal_sell", "cnt_ml_events", "cnt_ml_adverse", "cnt_ml_benign",
   "cnt_orders_tx", "cnt_order_overflow"} \cup {GATE_NAME[g] : g \in Gate}

Message == [msg_type : 0 .. 255, symbol_id : Symbol, side : 0 .. 255,
            snapshot : BOOLEAN, reserved : BOOLEAN, price : Nat,
            quantity : Nat, seq_num : Nat]
Payload == [messages : Seq(Message), ragged : BOOLEAN]

Book == [bid_price : Nat, bid_qty : Nat, bid_valid : BOOLEAN,
         ask_price : Nat, ask_qty : Nat, ask_valid : BOOLEAN,
         last_update_cycle : Nat]
NewBook == [bid_price |-> 0, bid_qty |-> 0, bid_valid |-> FALSE,
            ask_price |-> 0, ask_qty |-> 0, ask_valid |-> FALSE,
            last_update_cycle |-> 0]

NoOrder == [msg_type |-> 0]
NoResult == [order |-> NoOrder, dropped |-> FALSE, signal |-> None]

Lesser(a, b) == IF a <= b THEN a ELSE b
Larger(a, b) == IF a >= b THEN a ELSE b
Abs(x) == IF x < 0 THEN -x ELSE x
One(b) == IF b THEN 1 ELSE 0

watched_symbols ==
  {cfg.symbols[i] : i \in {j \in 1 .. Lesser(cfg.num_symbols, Len(cfg.symbols)) :
                             cfg.symbol_en[j]}}

GoldenInit ==
  /\ cfg \in Configs
  /\ counters = [c \in Counter |-> 0]
  /\ books = [s \in Symbol |-> NewBook]
  /\ position = [s \in Symbol |-> 0]
  /\ expected_seq = None
  /\ seq_gap = FALSE
  /\ kill_latched = FALSE
  /\ token_bucket = cfg.token_max
  /\ last_refill_cycle = 0
  /\ tx_busy_until = <<>>
  /\ current_cycle = 0
  /\ pending = <<>>
  /\ arrival = None
  /\ result = NoResult

-----------------------------------------------------------------------------
(* Counters. *)

(* Counters.inc, once for each name in hits, again for those in again, and *)
(* gap missing messages at once.                                           *)
Increment(hits, again, gap) ==
  counters' = [c \in Counter |->
                 Lesser(CounterMax,
                        counters[c] + One(c \in hits) + One(c \in again)
                          + (IF c = "cnt_seq_gap" THEN gap ELSE 0))]

-----------------------------------------------------------------------------
(* The clock, the throttle and the transmit slots. *)

MessageCycle ==
  LET arrives == IF arrival = None
                 THEN current_cycle + DEFAULT_INTER_ARRIVAL_CYCLES ELSE arrival
  IN Larger(current_cycle, arrives)

(* Whole refill periods since the last one credited. *)
Refills(now) ==
  IF now <= last_refill_cycle THEN 0
  ELSE (now - last_refill_cycle) \div cfg.token_refill_cycles

(* Mutant: the bucket has no ceiling. *)
TokensAt_NoCeiling(now) == token_bucket + Refills(now)

TokensAt(now) ==
  IF Refills(now) > 0 THEN Lesser(cfg.token_max, token_bucket + Refills(now))
  ELSE token_bucket

(* Mutant: a credited period stays due. *)
LastRefillAt_Unmoved(now) == last_refill_cycle

(* Mutant: the rest of a period is forgotten. *)
LastRefillAt_Rounded(now) == IF Refills(now) > 0 THEN now ELSE last_refill_cycle

LastRefillAt(now) == last_refill_cycle + Refills(now) * cfg.token_refill_cycles

(* Mutant: a frame that ends on this very cycle is still on its way. *)
TxBusyAt_Late(now) == SelectSeq(tx_busy_until, LAMBDA ends : ends >= now)

(* Frames leave from the front as long as their end has come. *)
TxBusyAt(now) ==
  LET gone == {i \in 1 .. Len(tx_busy_until) : tx_busy_until[i] <= now}
      first == {i \in 1 .. Len(tx_busy_until) : \A j \in 1 .. i : j \in gone}
  IN SubSeq(tx_busy_until, Cardinality(first) + 1, Len(tx_busy_until))

-----------------------------------------------------------------------------
(* Sequence numbers, before anything is known about the message. *)

Expected(msg) == IF expected_seq = None THEN msg.seq_num ELSE expected_seq
IsDup(msg) == msg.seq_num < Expected(msg)
(* Mutant: a gap is counted, not the messages missing in it. *)
Gap_Once(msg) == IF msg.seq_num > Expected(msg) THEN 1 ELSE 0

Gap(msg) == IF msg.seq_num > Expected(msg) THEN msg.seq_num - Expected(msg) ELSE 0
GapAfter(msg) == ~msg.snapshot /\ (seq_gap \/ Gap(msg) > 0)

(* Mutant: only watched symbols are tracked. *)
TrackSequence_Watched(msg) ==
  IF msg.symbol_id \in watched_symbols
  THEN /\ expected_seq' = IF IsDup(msg) THEN expected_seq ELSE msg.seq_num + 1
       /\ seq_gap' = GapAfter(msg)
  ELSE UNCHANGED feedVars

TrackSequence(msg) ==
  /\ expected_seq' = IF IsDup(msg) THEN expected_seq ELSE msg.seq_num + 1
  /\ seq_gap' = GapAfter(msg)

Usable(msg) ==
  /\ msg.msg_type \in VALID_MSG_TYPES
  /\ ~msg.reserved
  /\ msg.symbol_id \in watched_symbols
  /\ ~IsDup(msg)

(* Mutant: a duplicate has a counter of its own and is not accepted. *)
DropCounter_Duplicate(msg) ==
  CASE msg.msg_type \notin VALID_MSG_TYPES -> "err_msg_type"
    [] msg.msg_type \in VALID_MSG_TYPES /\ msg.reserved -> "err_flags"
    [] OTHER -> IF msg.symbol_id \notin watched_symbols
                THEN "cnt_msgs_filtered" ELSE "cnt_seq_dup"

(* Where a message that goes no further is counted. *)
DropCounter(msg) ==
  CASE msg.msg_type \notin VALID_MSG_TYPES -> "err_msg_type"
    [] msg.msg_type \in VALID_MSG_TYPES /\ msg.reserved -> "err_flags"
    [] OTHER -> IF msg.symbol_id \notin watched_symbols
                THEN "cnt_msgs_filtered" ELSE "cnt_msgs_accepted"

-----------------------------------------------------------------------------
(* The book of one symbol, and the rule that fires a signal on it. *)

crossed(b) == b.bid_valid /\ b.ask_valid /\ b.bid_price >= b.ask_price
mid(b) == (b.bid_price + b.ask_price) \div 2

(* An empty quote keeps the side's price (D14). *)
Quoted(b, msg) ==
  LET price(old) == IF msg.quantity # 0 THEN msg.price ELSE old
  IN IF msg.side = SIDE_BID
     THEN [b EXCEPT !.bid_price = price(@), !.bid_qty = msg.quantity,
                    !.bid_valid = msg.quantity # 0]
     ELSE [b EXCEPT !.ask_price = price(@), !.ask_qty = msg.quantity,
                    !.ask_valid = msg.quantity # 0]

Cleared(b) == [b EXCEPT !.bid_valid = FALSE, !.ask_valid = FALSE]

BookAfter(msg, now) ==
  LET b == books[msg.symbol_id]
      applied == IF msg.msg_type = MSG_QUOTE THEN Quoted(b, msg)
                 ELSE IF msg.msg_type = MSG_CLEAR THEN Cleared(b) ELSE b
  IN [applied EXCEPT !.last_update_cycle = now]

Tradable(b) ==
  /\ b.bid_valid /\ b.ask_valid /\ ~crossed(b)
  /\ b.ask_price - b.bid_price >= cfg.min_spread

(* Mutant: the product is cut to a word. *)
buy_ok_Narrow(b) ==
  Tradable(b) /\ b.bid_qty > (b.ask_qty * cfg.imb) % (CounterMax + 1)

(* cfg.imb is 2^imb_shift, and cfg.ml_reduce 2^ml_reduce_shift. *)
buy_ok(b) == Tradable(b) /\ b.bid_qty > b.ask_qty * cfg.imb
sell_ok(b) == Tradable(b) /\ b.ask_qty > b.bid_qty * cfg.imb

(* The side an order would take, if the message fires a signal. *)
Conflict(msg, b) ==
  msg.msg_type \in {MSG_QUOTE, MSG_CLEAR} /\ buy_ok(b) /\ sell_ok(b)
SignalSide(msg, b) ==
  IF msg.msg_type \notin {MSG_QUOTE, MSG_CLEAR} \/ Conflict(msg, b) THEN None
  ELSE IF buy_ok(b) THEN SIDE_BID
  ELSE IF sell_ok(b) THEN SIDE_ASK
  ELSE None

OrderPrice(side, b) == IF side = SIDE_BID THEN b.ask_price ELSE b.bid_price
Signed(side, qty) == IF side = SIDE_BID THEN qty ELSE -qty

(* What the message and the book leave in the counters. *)
BookHits(msg, b) ==
  {"cnt_msgs_rx", "cnt_msgs_accepted"}
    \cup (IF msg.msg_type = MSG_CLEAR THEN {"cnt_book_clear"} ELSE {})
    \cup (IF msg.msg_type = MSG_TRADE THEN {"cnt_trades"} ELSE {})
    \cup (IF msg.msg_type = MSG_HEARTBEAT THEN {"cnt_heartbeats"} ELSE {})
    \cup (IF crossed(b) THEN {"cnt_crossed"} ELSE {})

SignalHits(side, adverse) ==
  {IF side = SIDE_BID THEN "cnt_signal_buy" ELSE "cnt_signal_sell",
   "cnt_ml_events", IF adverse THEN "cnt_ml_adverse" ELSE "cnt_ml_benign"}

-----------------------------------------------------------------------------
(* The nine gates. *)

(* Mutant: the message refreshes the book before its age is looked at. *)
Stale_Refreshed(msg, now) ==
  now - BookAfter(msg, now).last_update_cycle > cfg.max_age

(* The silence before the message, not after it (D17). *)
Stale(msg, now) ==
  now - books[msg.symbol_id].last_update_cycle > cfg.max_age

(* Mutant: a sell is added. *)
Prospective_Unsigned(msg, side) == position[msg.symbol_id] + cfg.order_qty

(* Gate POSITION looks at the full quantity, whatever gate ML will do. *)
Prospective(msg, side) == position[msg.symbol_id] + Signed(side, cfg.order_qty)

GatesFired(msg, b, side, now, adverse) ==
  {g \in Gate :
     \/ g = GATE_KILL     /\ kill_latched
     \/ g = GATE_SIZE     /\ cfg.order_qty > cfg.max_order_qty
     \/ g = GATE_POSITION /\ Abs(Prospective(msg, side)) > cfg.max_position
     \/ g = GATE_BAND     /\ Abs(OrderPrice(side, b) - mid(b)) > cfg.price_band
     \/ g = GATE_STALE    /\ Stale(msg, now)
     \/ g = GATE_SEQGAP   /\ GapAfter(msg)
     \/ g = GATE_CROSSED  /\ crossed(b)
     \/ g = GATE_THROTTLE /\ TokensAt(now) <= 0
     \/ g = GATE_ML       /\ adverse /\ cfg.ml_action = 0}

(* Gate ML in its other mode: smaller, but at least one lot. *)
ReducedQty(adverse) ==
  IF adverse /\ cfg.ml_action # 0
  THEN Larger(1, cfg.order_qty \div cfg.ml_reduce)
  ELSE cfg.order_qty

Lowest(gates) == CHOOSE g \in gates : \A h \in gates : g <= h

Record(type, msg, side, reason, price, qty) ==
  [msg_type |-> type, symbol_id |-> msg.symbol_id, side |-> side,
   reject_reason |-> reason, price |-> price, quantity |-> qty,
   trigger_seq |-> msg.seq_num % TriggerMod, latency_cyc |-> TICK_TO_TRADE_CYCLES]

-----------------------------------------------------------------------------
(* process_message, by where it returns. *)

(* What every message does first, and what most leave as it is then. *)
Arrive(msg, now) ==
  /\ current_cycle' = now
  /\ last_refill_cycle' = LastRefillAt(now)
  /\ TrackSequence(msg)
NoTrade(now) ==
  /\ token_bucket' = TokensAt(now)
  /\ tx_busy_until' = TxBusyAt(now)
  /\ UNCHANGED position

Discard(msg) ==
  LET now == MessageCycle
  IN /\ ~Usable(msg)
     /\ Arrive(msg, now)
     /\ NoTrade(now)
     /\ Increment({"cnt_msgs_rx", DropCounter(msg)}
                    \cup (IF IsDup(msg) THEN {"cnt_seq_dup"} ELSE {}), {}, Gap(msg))
     /\ result' = NoResult
     /\ UNCHANGED books

Apply(msg, b, now) ==
  /\ Usable(msg)
  /\ Arrive(msg, now)
  /\ books' = [books EXCEPT ![msg.symbol_id] = b]

Observe(msg) ==
  LET now == MessageCycle
      b == BookAfter(msg, now)
  IN /\ Apply(msg, b, now)
     /\ SignalSide(msg, b) = None
     /\ NoTrade(now)
     /\ Increment(BookHits(msg, b)
                    \cup (IF Conflict(msg, b) THEN {"err_signal_conflict"} ELSE {}),
                  {}, Gap(msg))
     /\ result' = NoResult

(* Every gate that fires is counted, gate ML twice: once in the loop over  *)
(* gates_fired and once by the line after it.                              *)
Refuse(msg, adverse) ==
  LET now == MessageCycle
      b == BookAfter(msg, now)
      side == SignalSide(msg, b)
      gates == GatesFired(msg, b, side, now, adverse)
  IN /\ Apply(msg, b, now)
     /\ side # None
     /\ gates # {}
     /\ NoTrade(now)
     /\ Increment(BookHits(msg, b) \cup SignalHits(side, adverse)
                    \cup {GATE_NAME[g] : g \in gates},
                  {GATE_NAME[g] : g \in gates \cap {GATE_ML}}, Gap(msg))
     /\ result' = [order |-> IF cfg.cfg_reject_report
                             THEN Record(ORDER_MSG_REJECT, msg, side, Lowest(gates),
                                         OrderPrice(side, b), cfg.order_qty)
                             ELSE NoOrder,
                   dropped |-> FALSE, signal |-> side]

(* Mutant: the drop is not counted. *)
Overflow_Uncounted(msg, adverse) ==
  LET now == MessageCycle
      b == BookAfter(msg, now)
      side == SignalSide(msg, b)
  IN /\ Apply(msg, b, now)
     /\ side # None
     /\ GatesFired(msg, b, side, now, adverse) = {}
     /\ Len(TxBusyAt(now)) >= 2
     /\ NoTrade(now)
     /\ Increment(BookHits(msg, b) \cup SignalHits(side, adverse), {}, Gap(msg))
     /\ result' = [order |-> NoOrder, dropped |-> TRUE, signal |-> side]

(* An accepted order that finds both transmit slots taken is dropped, and  *)
(* costs neither a token nor position.                                     *)
Overflow(msg, adverse) ==
  LET now == MessageCycle
      b == BookAfter(msg, now)
      side == SignalSide(msg, b)
  IN /\ Apply(msg, b, now)
     /\ side # None
     /\ GatesFired(msg, b, side, now, adverse) = {}
     /\ Len(TxBusyAt(now)) >= 2
     /\ NoTrade(now)
     /\ Increment(BookHits(msg, b) \cup SignalHits(side, adverse)
                    \cup {"cnt_order_overflow"}, {}, Gap(msg))
     /\ result' = [order |-> NoOrder, dropped |-> TRUE, signal |-> side]

(* Mutant: the ledger books the full quantity. *)
Trade_Unreduced(msg, adverse) ==
  LET now == MessageCycle
      b == BookAfter(msg, now)
      side == SignalSide(msg, b)
      qty == ReducedQty(adverse)
  IN /\ Apply(msg, b, now)
     /\ side # None
     /\ GatesFired(msg, b, side, now, adverse) = {}
     /\ Len(TxBusyAt(now)) < 2
     /\ token_bucket' = TokensAt(now) - 1
     /\ position' = [position EXCEPT ![msg.symbol_id] = @ + Signed(side, cfg.order_qty)]
     /\ tx_busy_until' = Append(TxBusyAt(now), now + ORDER_TX_CYCLES)
     /\ Increment(BookHits(msg, b) \cup SignalHits(side, adverse)
                    \cup {"cnt_orders_tx"}, {}, Gap(msg))
     /\ result' = [order |-> Record(ORDER_MSG_NEW, msg, side, 0,
                                    OrderPrice(side, b), qty),
                   dropped |-> FALSE, signal |-> side]

(* The ledger books what is sent (D16). *)
Trade(msg, adverse) ==
  LET now == MessageCycle
      b == BookAfter(msg, now)
      side == SignalSide(msg, b)
      qty == ReducedQty(adverse)
  IN /\ Apply(msg, b, now)
     /\ side # None
     /\ GatesFired(msg, b, side, now, adverse) = {}
     /\ Len(TxBusyAt(now)) < 2
     /\ token_bucket' = TokensAt(now) - 1
     /\ position' = [position EXCEPT ![msg.symbol_id] = @ + Signed(side, qty)]
     /\ tx_busy_until' = Append(TxBusyAt(now), now + ORDER_TX_CYCLES)
     /\ Increment(BookHits(msg, b) \cup SignalHits(side, adverse)
                    \cup {"cnt_orders_tx"}, {}, Gap(msg))
     /\ result' = [order |-> Record(ORDER_MSG_NEW, msg, side, 0,
                                    OrderPrice(side, b), qty),
                   dropped |-> FALSE, signal |-> side]

(* adverse is what adverse_risk_fn says of the message. *)
process_message ==
  /\ pending # <<>>
  /\ pending' = Tail(pending)
  /\ arrival' = IF arrival = None THEN None ELSE arrival + 1
  /\ UNCHANGED <<cfg, kill_latched>>
  /\ LET msg == Head(pending)
     IN \/ Discard(msg)
        \/ Observe(msg)
        \/ \E adverse \in BOOLEAN :
             Refuse(msg, adverse) \/ Overflow(msg, adverse) \/ Trade(msg, adverse)

-----------------------------------------------------------------------------
(* The other calls. *)

BadLength(payload) ==
  payload.ragged \/ Len(payload.messages) \notin 1 .. MaxMessages

process_frame(payload, cycle, fcs_ok) ==
  /\ pending = <<>>
  /\ LET hits == IF ~fcs_ok THEN {"err_fcs"}
                 ELSE IF BadLength(payload) THEN {"err_frame_len"} ELSE {}
     IN /\ pending' = IF hits = {} THEN payload.messages ELSE <<>>
        /\ arrival' = IF hits = {} THEN cycle ELSE None
        /\ Increment({"cnt_frames_rx"} \cup hits, {}, 0)
  /\ result' = NoResult
  /\ UNCHANGED <<cfg, books, position, feedVars, kill_latched, paceVars>>

ControlCall ==
  /\ pending = <<>>
  /\ result' = NoResult
  /\ UNCHANGED <<cfg, counters, books, position, expected_seq, paceVars,
                 pending, arrival>>

assert_kill_switch == ControlCall /\ kill_latched' = TRUE /\ UNCHANGED seq_gap

clear_kill_switch == ControlCall /\ kill_latched' = FALSE /\ UNCHANGED seq_gap

clear_seq_gap == ControlCall /\ seq_gap' = FALSE /\ UNCHANGED kill_latched

GoldenNext ==
  \/ process_message
  \/ \E payload \in Payload, cycle \in Nat \cup {None}, fcs_ok \in BOOLEAN :
       process_frame(payload, cycle, fcs_ok)
  \/ assert_kill_switch \/ clear_kill_switch \/ clear_seq_gap

(* Any calls at all. *)
GoldenSpec == GoldenInit /\ [][GoldenNext]_goldenVars

-----------------------------------------------------------------------------

Order ==
  [msg_type : {ORDER_MSG_NEW, ORDER_MSG_REJECT}, symbol_id : Symbol,
   side : {SIDE_BID, SIDE_ASK}, reject_reason : {0} \cup Gate, price : Nat,
   quantity : Nat, trigger_seq : 0 .. TriggerMod - 1,
   latency_cyc : {TICK_TO_TRADE_CYCLES}]

GoldenTypeOK ==
  /\ cfg \in Configs
  /\ counters \in [Counter -> 0 .. CounterMax]
  /\ books \in [Symbol -> Book]
  /\ position \in [Symbol -> Int]
  /\ expected_seq \in Nat \cup {None}
  /\ seq_gap \in BOOLEAN
  /\ kill_latched \in BOOLEAN
  /\ token_bucket \in 0 .. cfg.token_max
  /\ last_refill_cycle \in 0 .. current_cycle
  /\ tx_busy_until \in Seq(Nat)
  /\ current_cycle \in Nat
  /\ pending \in Seq(Message)
  /\ arrival \in Nat \cup {None}
  /\ result \in [order : Order \cup {NoOrder}, dropped : BOOLEAN,
                 signal : {None, SIDE_BID, SIDE_ASK}]

(***************************************************************************)
(* Every message received is filtered, accepted or an error, exactly once, *)
(* whatever else is wrong with it (spec section 10, "Ingress"): a late     *)
(* message is accepted, an undefined type on an unwatched symbol is an     *)
(* error.  Until the counters saturate.                                    *)
(***************************************************************************)
IngressBalance ==
  counters["cnt_msgs_rx"] < CounterMax =>
    counters["cnt_msgs_rx"] = counters["cnt_msgs_filtered"] + counters["cnt_msgs_accepted"]
                                + counters["err_msg_type"] + counters["err_flags"]

(***************************************************************************)
(* The throttle's promise over a whole session (FR-47): a full bucket, and *)
(* one order for every refill period that has passed.  Crediting periods   *)
(* lazily, when a message comes, never credits one twice.                  *)
(***************************************************************************)
ThrottleHolds ==
  (counters["cnt_orders_tx"] + token_bucket - cfg.token_max) * cfg.token_refill_cycles
    <= current_cycle

(***************************************************************************)
(* No sequence of fills takes a position past the limit (gate POSITION),   *)
(* though the gate looks at the full quantity and the ledger books the     *)
(* reduced one.                                                            *)
(***************************************************************************)
PositionWithinLimit ==
  \A s \in Symbol : Abs(position[s]) <= cfg.max_position

(***************************************************************************)
(* The two rules never hold together (FR-37, "impossible by construction").*)
(***************************************************************************)
NoSignalConflict == counters["err_signal_conflict"] = 0

(***************************************************************************)
(* A rejection by the classifier is one adverse event at most (spec        *)
(* section 10, "ML safe forcing").                                         *)
(***************************************************************************)
MlRejectsWereAdverse == counters["cnt_rej_ml"] <= counters["cnt_ml_adverse"]

=============================================================================
