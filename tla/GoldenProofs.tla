----------------------------- MODULE GoldenProofs -----------------------------
(***************************************************************************)
(* What holds of the reference model for every configuration, every feed   *)
(* and every order of calls.                                               *)
(***************************************************************************)
EXTENDS GoldenModel, FiniteSetTheorems, SequenceTheorems, TLAPS

-----------------------------------------------------------------------------
(* Arithmetic. *)

LEMMA Quotient ==
  ASSUME NEW a \in Nat, NEW p \in Nat \ {0}
  PROVE  /\ a \div p \in Nat
         /\ (a \div p) * p <= a
         /\ a \div p <= a
OBVIOUS

LEMMA ProductGrows ==
  ASSUME NEW x \in Nat, NEW k \in Nat \ {0}
  PROVE  x * k \in Nat /\ x <= x * k
OBVIOUS

LEMMA Distribute ==
  ASSUME NEW x \in Int, NEW r \in Int, NEW p \in Int
  PROVE  (x + r) * p = x * p + r * p
OBVIOUS

LEMMA ProductMonotone ==
  ASSUME NEW x \in Int, NEW y \in Int, x <= y, NEW p \in Nat
  PROVE  x * p <= y * p
OBVIOUS

(* What the assumption says of the configuration in force. *)
LEMMA ConfigFacts ==
  ASSUME cfg \in Configs
  PROVE  /\ cfg.min_spread \in Nat /\ cfg.max_order_qty \in Nat
         /\ cfg.max_position \in Nat /\ cfg.price_band \in Nat
         /\ cfg.max_age \in Nat /\ cfg.token_max \in Nat
         /\ cfg.order_qty \in Nat \ {0} /\ cfg.token_refill_cycles \in Nat \ {0}
         /\ cfg.imb \in Nat \ {0} /\ cfg.ml_reduce \in Nat \ {0}
BY ConfigAssumption

(* Names of gates are counters, and none of the counters of ingress and    *)
(* egress.                                                                 *)
Ledger == {"cnt_frames_rx", "cnt_msgs_rx", "cnt_msgs_filtered", "cnt_msgs_accepted",
           "err_msg_type", "err_flags", "err_signal_conflict", "cnt_orders_tx"}

LEMMA GateNames ==
  ASSUME NEW g \in Gate
  PROVE  GATE_NAME[g] \notin Ledger
<1>1. g \in {1, 2, 3, 4, 5, 6, 7, 8, 9}
  BY DEF Gate
<1>2. /\ GATE_NAME[1] = "cnt_rej_kill" /\ GATE_NAME[2] = "cnt_rej_size"
      /\ GATE_NAME[3] = "cnt_rej_position" /\ GATE_NAME[4] = "cnt_rej_band"
      /\ GATE_NAME[5] = "cnt_rej_stale" /\ GATE_NAME[6] = "cnt_rej_seqgap"
      /\ GATE_NAME[7] = "cnt_rej_crossed" /\ GATE_NAME[8] = "cnt_rej_throttle"
      /\ GATE_NAME[9] = "cnt_rej_ml"
  BY DEF GATE_NAME
<1> QED
  BY <1>1, <1>2 DEF Ledger

-----------------------------------------------------------------------------
(* The operators a message goes through. *)

LEMMA IncrementType ==
  ASSUME counters \in [Counter -> 0 .. CounterMax], NEW hits, NEW again,
         NEW gap \in Nat, Increment(hits, again, gap)
  PROVE  /\ counters' \in [Counter -> 0 .. CounterMax]
         /\ \A c \in Counter :
              counters'[c] =
                Lesser(CounterMax, counters[c] + One(c \in hits) + One(c \in again)
                                     + (IF c = "cnt_seq_gap" THEN gap ELSE 0))
BY GoldenAssumption DEF Increment, Lesser, One

LEMMA GapType ==
  ASSUME expected_seq \in Nat \cup {None}, NEW msg \in Message
  PROVE  Gap(msg) \in Nat
BY GoldenAssumption DEF Gap, Expected, Message

LEMMA CycleType ==
  ASSUME current_cycle \in Nat, arrival \in Nat \cup {None}
  PROVE  MessageCycle \in Nat /\ MessageCycle >= current_cycle
BY GoldenAssumption DEF MessageCycle, Larger

LEMMA RefillsType ==
  ASSUME cfg \in Configs, current_cycle \in Nat, last_refill_cycle \in 0 .. current_cycle,
         NEW now \in Nat, now >= current_cycle
  PROVE  /\ Refills(now) \in Nat
         /\ LastRefillAt(now) \in 0 .. now
         /\ LastRefillAt(now) = last_refill_cycle + Refills(now) * cfg.token_refill_cycles
<1>1. cfg.token_refill_cycles \in Nat \ {0}
  BY ConfigFacts
<1>2. CASE now <= last_refill_cycle
  BY <1>1, <1>2 DEF Refills, LastRefillAt
<1>3. CASE ~(now <= last_refill_cycle)
  <2>1. now - last_refill_cycle \in Nat
    BY <1>3
  <2>2. Refills(now) = (now - last_refill_cycle) \div cfg.token_refill_cycles
    BY <1>3 DEF Refills
  <2>3. Refills(now) \in Nat
    BY <1>1, <2>1, <2>2, Quotient
  <2>4. Refills(now) * cfg.token_refill_cycles <= now - last_refill_cycle
    BY <1>1, <2>1, <2>2, Quotient
  <2>5. Refills(now) * cfg.token_refill_cycles \in Nat
    BY <1>1, <2>3, ProductGrows
  <2> QED
    BY <2>3, <2>4, <2>5 DEF LastRefillAt
<1> QED
  BY <1>2, <1>3

LEMMA TokensType ==
  ASSUME cfg \in Configs, token_bucket \in 0 .. cfg.token_max, NEW now,
         Refills(now) \in Nat
  PROVE  /\ TokensAt(now) \in 0 .. cfg.token_max
         /\ TokensAt(now) <= token_bucket + Refills(now)
BY ConfigFacts DEF TokensAt, Lesser

LEMMA BookType ==
  ASSUME books \in [Symbol -> Book], NEW msg \in Message, NEW now \in Nat
  PROVE  BookAfter(msg, now) \in Book
<1> DEFINE b == books[msg.symbol_id]
<1>1. b \in Book
  BY DEF Message
<1>2. Quoted(b, msg) \in Book
  BY <1>1 DEF Quoted, Book, Message
<1>3. Cleared(b) \in Book
  BY <1>1 DEF Cleared, Book
<1> QED
  BY <1>1, <1>2, <1>3 DEF BookAfter, Book

(* FR-37: no quantity is larger than a multiple of one that is larger than *)
(* a multiple of it.                                                       *)
LEMMA RulesExclude ==
  ASSUME cfg \in Configs, NEW b \in Book
  PROVE  ~(buy_ok(b) /\ sell_ok(b))
<1>1. b.bid_qty \in Nat /\ b.ask_qty \in Nat
  BY DEF Book
<1>2. b.bid_qty <= b.bid_qty * cfg.imb /\ b.ask_qty <= b.ask_qty * cfg.imb
  BY <1>1, ConfigFacts, ProductGrows
<1>3. b.bid_qty * cfg.imb \in Nat /\ b.ask_qty * cfg.imb \in Nat
  BY <1>1, ConfigFacts, ProductGrows
<1> QED
  BY <1>1, <1>2, <1>3 DEF buy_ok, sell_ok

LEMMA ReducedWithin ==
  ASSUME cfg \in Configs, NEW adverse \in BOOLEAN
  PROVE  ReducedQty(adverse) \in 1 .. cfg.order_qty
<1> DEFINE q == cfg.order_qty \div cfg.ml_reduce
<1>1. cfg.order_qty \in Nat \ {0} /\ cfg.ml_reduce \in Nat \ {0}
  BY ConfigFacts
<1>2. q \in Nat /\ q <= cfg.order_qty
  BY <1>1, Quotient
<1>3. Larger(1, q) \in 1 .. cfg.order_qty
  BY <1>1, <1>2 DEF Larger
<1> QED
  BY <1>1, <1>3 DEF ReducedQty

(* An order passes gates POSITION and THROTTLE. *)
LEMMA PassedGates ==
  ASSUME NEW msg, NEW b, NEW side, NEW now, NEW adverse,
         GatesFired(msg, b, side, now, adverse) = {}
  PROVE  /\ ~(Abs(Prospective(msg, side)) > cfg.max_position)
         /\ ~(TokensAt(now) <= 0)
<1>1. 3 \in Gate /\ 8 \in Gate
  BY DEF Gate
<1>2. ~(Abs(Prospective(msg, side)) > cfg.max_position)
  BY <1>1 DEF GatesFired, GATE_POSITION
<1>3. ~(TokensAt(now) <= 0)
  BY <1>1 DEF GatesFired, GATE_THROTTLE
<1> QED
  BY <1>2, <1>3

LEMMA LowestType ==
  ASSUME NEW G \in SUBSET Gate, G # {}
  PROVE  Lowest(G) \in Gate
<1>1. \A g \in G : g \in 1 .. 9
  BY DEF Gate
<1>2. \E g \in G : \A h \in G : g <= h
  BY <1>1
<1> QED
  BY <1>2 DEF Lowest

LEMMA SlotsType ==
  ASSUME tx_busy_until \in Seq(Nat), NEW now \in Nat
  PROVE  TxBusyAt(now) \in Seq(Nat)
<1> DEFINE n == Len(tx_busy_until)
           gone == {i \in 1 .. n : tx_busy_until[i] <= now}
           first == {i \in 1 .. n : \A j \in 1 .. i : j \in gone}
<1>1. n \in Nat
  OBVIOUS
<1>2. IsFiniteSet(1 .. n)
  BY <1>1, FS_Interval
<1>3. IsFiniteSet(first)
  BY <1>2, FS_Subset
<1>4. Cardinality(first) \in Nat
  BY <1>3, FS_CardinalityType
<1>5. \A m \in Nat : SubSeq(tx_busy_until, m + 1, n) \in Seq(Nat)
  BY <1>1
<1>6. TxBusyAt(now) = SubSeq(tx_busy_until, Cardinality(first) + 1, n)
  BY DEF TxBusyAt
<1> QED
  BY <1>4, <1>5, <1>6

-----------------------------------------------------------------------------
(* Type correctness. *)

LEMMA InitType ==
  ASSUME GoldenInit
  PROVE  GoldenTypeOK
<1>1. cfg \in Configs /\ cfg.token_max \in Nat /\ token_bucket \in 0 .. cfg.token_max
  BY ConfigFacts DEF GoldenInit
<1>2. counters \in [Counter -> 0 .. CounterMax]
  BY GoldenAssumption DEF GoldenInit
<1>3. NewBook \in Book
  BY DEF NewBook, Book
<1>4. books \in [Symbol -> Book] /\ position \in [Symbol -> Int]
  BY <1>3 DEF GoldenInit
<1>5. result \in [order : Order \cup {NoOrder}, dropped : BOOLEAN,
                  signal : {None, SIDE_BID, SIDE_ASK}]
  BY DEF GoldenInit, NoResult
<1>6. pending \in Seq(Message) /\ tx_busy_until \in Seq(Nat)
  BY DEF GoldenInit
<1>7. current_cycle \in Nat /\ last_refill_cycle \in 0 .. current_cycle
  <2>1. current_cycle = 0 /\ last_refill_cycle = 0
    BY DEF GoldenInit
  <2> QED
    BY <2>1
<1>8. seq_gap \in BOOLEAN /\ kill_latched \in BOOLEAN
  BY DEF GoldenInit
<1>9. expected_seq \in Nat \cup {None} /\ arrival \in Nat \cup {None}
  BY DEF GoldenInit
<1> QED
  BY <1>1, <1>2, <1>4, <1>5, <1>6, <1>7, <1>8, <1>9 DEF GoldenTypeOK

(* What every message leaves behind, whatever becomes of it. *)
LEMMA ArriveType ==
  ASSUME GoldenTypeOK, NEW msg \in Message, NEW now \in Nat, now >= current_cycle,
         Arrive(msg, now), UNCHANGED <<cfg, kill_latched>>
  PROVE  /\ cfg' \in Configs
         /\ current_cycle' = now
         /\ last_refill_cycle' \in 0 .. current_cycle'
         /\ expected_seq' \in Nat \cup {None}
         /\ seq_gap' \in BOOLEAN
         /\ kill_latched' \in BOOLEAN
<1>1. LastRefillAt(now) \in 0 .. now
  BY RefillsType DEF GoldenTypeOK
<1>2. msg.seq_num \in Nat
  BY DEF Message
<1>3. expected_seq' \in Nat \cup {None}
  BY <1>2 DEF Arrive, TrackSequence, GoldenTypeOK
<1>4. seq_gap' \in BOOLEAN
  BY DEF Arrive, TrackSequence, GapAfter
<1> QED
  BY <1>1, <1>3, <1>4 DEF Arrive, GoldenTypeOK

LEMMA NoTradeType ==
  ASSUME GoldenTypeOK, NEW now \in Nat, now >= current_cycle, NoTrade(now),
         UNCHANGED cfg
  PROVE  /\ token_bucket' \in 0 .. cfg'.token_max
         /\ tx_busy_until' \in Seq(Nat)
         /\ position' \in [Symbol -> Int]
<1>1. Refills(now) \in Nat
  BY RefillsType DEF GoldenTypeOK
<1>2. TokensAt(now) \in 0 .. cfg.token_max
  BY <1>1, TokensType DEF GoldenTypeOK
<1>3. TxBusyAt(now) \in Seq(Nat)
  BY SlotsType DEF GoldenTypeOK
<1> QED
  BY <1>2, <1>3 DEF NoTrade, GoldenTypeOK

(* A record carries the message's symbol and number. *)
LEMMA RecordType ==
  ASSUME NEW type \in {ORDER_MSG_NEW, ORDER_MSG_REJECT}, NEW msg \in Message,
         NEW side \in {SIDE_BID, SIDE_ASK}, NEW reason \in {0} \cup Gate,
         NEW price \in Nat, NEW qty \in Nat
  PROVE  Record(type, msg, side, reason, price, qty) \in Order
<1>1. msg.symbol_id \in Symbol /\ msg.seq_num \in Nat
  BY DEF Message
<1>2. msg.seq_num % TriggerMod \in 0 .. TriggerMod - 1
  BY <1>1, GoldenAssumption
<1> QED
  BY <1>1, <1>2 DEF Record, Order

LEMMA SideType ==
  ASSUME NEW msg, NEW b \in Book
  PROVE  /\ SignalSide(msg, b) \in {None, SIDE_BID, SIDE_ASK}
         /\ \A side : OrderPrice(side, b) \in Nat
BY DEF SignalSide, OrderPrice, Book

(* The facts about the message in hand that its four fates share. *)
LEMMA InHand ==
  ASSUME GoldenTypeOK, pending # <<>>
  PROVE  /\ Head(pending) \in Message
         /\ Tail(pending) \in Seq(Message)
         /\ MessageCycle \in Nat /\ MessageCycle >= current_cycle
         /\ Gap(Head(pending)) \in Nat
         /\ BookAfter(Head(pending), MessageCycle) \in Book
         /\ Refills(MessageCycle) \in Nat
         /\ TokensAt(MessageCycle) \in 0 .. cfg.token_max
<1>1. Head(pending) \in Message /\ Tail(pending) \in Seq(Message)
  BY HeadTailProperties DEF GoldenTypeOK
<1>2. MessageCycle \in Nat /\ MessageCycle >= current_cycle
  BY CycleType DEF GoldenTypeOK
<1>3. Gap(Head(pending)) \in Nat
  BY <1>1, GapType DEF GoldenTypeOK
<1>4. BookAfter(Head(pending), MessageCycle) \in Book
  BY <1>1, <1>2, BookType DEF GoldenTypeOK
<1>5. Refills(MessageCycle) \in Nat
  BY <1>2, RefillsType DEF GoldenTypeOK
<1>6. TokensAt(MessageCycle) \in 0 .. cfg.token_max
  BY <1>5, TokensType DEF GoldenTypeOK
<1> QED
  BY <1>1, <1>2, <1>3, <1>4, <1>5, <1>6

LEMMA MessageType ==
  ASSUME GoldenTypeOK, process_message
  PROVE  GoldenTypeOK'
<1> DEFINE msg == Head(pending)
           now == MessageCycle
           b == BookAfter(msg, now)
           side == SignalSide(msg, b)
<1>1. /\ pending # <<>> /\ pending' = Tail(pending)
      /\ arrival' = IF arrival = None THEN None ELSE arrival + 1
      /\ UNCHANGED <<cfg, kill_latched>>
  BY DEF process_message
<1>2. /\ msg \in Message /\ Tail(pending) \in Seq(Message)
      /\ now \in Nat /\ now >= current_cycle
      /\ Gap(msg) \in Nat /\ b \in Book
      /\ Refills(now) \in Nat /\ TokensAt(now) \in 0 .. cfg.token_max
  BY <1>1, InHand
<1>3. arrival' \in Nat \cup {None}
  BY <1>1 DEF GoldenTypeOK
<1>4. side \in {None, SIDE_BID, SIDE_ASK} /\ \A sd : OrderPrice(sd, b) \in Nat
  BY <1>2, SideType
<1>5. counters \in [Counter -> 0 .. CounterMax]
  BY DEF GoldenTypeOK
<1>6. NoResult \in [order : Order \cup {NoOrder}, dropped : BOOLEAN,
                    signal : {None, SIDE_BID, SIDE_ASK}]
  BY DEF NoResult
<1>7. ASSUME Arrive(msg, now), NoTrade(now), books' \in [Symbol -> Book],
             counters' \in [Counter -> 0 .. CounterMax],
             result' \in [order : Order \cup {NoOrder}, dropped : BOOLEAN,
                          signal : {None, SIDE_BID, SIDE_ASK}]
      PROVE  GoldenTypeOK'
  <2>1. /\ cfg' \in Configs
        /\ current_cycle' = now
        /\ last_refill_cycle' \in 0 .. current_cycle'
        /\ expected_seq' \in Nat \cup {None}
        /\ seq_gap' \in BOOLEAN
        /\ kill_latched' \in BOOLEAN
    BY <1>1, <1>2, <1>7, ArriveType
  <2>2. /\ token_bucket' \in 0 .. cfg'.token_max
        /\ tx_busy_until' \in Seq(Nat)
        /\ position' \in [Symbol -> Int]
    BY <1>1, <1>2, <1>7, NoTradeType
  <2> QED
    BY <1>1, <1>2, <1>3, <1>7, <2>1, <2>2 DEF GoldenTypeOK
<1>8. ASSUME Apply(msg, b, now)
      PROVE  Arrive(msg, now) /\ books' \in [Symbol -> Book]
  BY <1>2, <1>8 DEF Apply, GoldenTypeOK
<1>9. CASE Discard(msg)
  <2>1. counters' \in [Counter -> 0 .. CounterMax]
    BY <1>2, <1>5, <1>9, IncrementType DEF Discard
  <2>2. books' \in [Symbol -> Book]
    BY <1>9 DEF Discard, GoldenTypeOK
  <2> QED
    BY <1>6, <1>7, <1>9, <2>1, <2>2 DEF Discard
<1>10. CASE Observe(msg)
  <2>1. counters' \in [Counter -> 0 .. CounterMax]
    BY <1>2, <1>5, <1>10, IncrementType DEF Observe
  <2> QED
    BY <1>6, <1>7, <1>8, <1>10, <2>1 DEF Observe
<1>11. ASSUME NEW adverse \in BOOLEAN, Refuse(msg, adverse)
       PROVE  GoldenTypeOK'
  <2> DEFINE gates == GatesFired(msg, b, side, now, adverse)
  <2>1. counters' \in [Counter -> 0 .. CounterMax]
    BY <1>2, <1>5, <1>11, IncrementType DEF Refuse
  <2>2. gates \subseteq Gate /\ gates # {} /\ side # None
    BY <1>11 DEF Refuse, GatesFired
  <2>3. Record(ORDER_MSG_REJECT, msg, side, Lowest(gates), OrderPrice(side, b),
               cfg.order_qty) \in Order
    <3>1. Lowest(gates) \in Gate
      BY <2>2, LowestType
    <3>2. cfg.order_qty \in Nat
      BY ConfigFacts DEF GoldenTypeOK
    <3> QED
      BY <1>2, <1>4, <2>2, <3>1, <3>2, RecordType
  <2>4. result' \in [order : Order \cup {NoOrder}, dropped : BOOLEAN,
                     signal : {None, SIDE_BID, SIDE_ASK}]
    BY <1>4, <1>11, <2>3 DEF Refuse
  <2> QED
    BY <1>7, <1>8, <1>11, <2>1, <2>4 DEF Refuse
<1>12. ASSUME NEW adverse \in BOOLEAN, Overflow(msg, adverse)
       PROVE  GoldenTypeOK'
  <2>1. counters' \in [Counter -> 0 .. CounterMax]
    BY <1>2, <1>5, <1>12, IncrementType DEF Overflow
  <2>2. result' \in [order : Order \cup {NoOrder}, dropped : BOOLEAN,
                     signal : {None, SIDE_BID, SIDE_ASK}]
    BY <1>4, <1>12 DEF Overflow
  <2> QED
    BY <1>7, <1>8, <1>12, <2>1, <2>2 DEF Overflow
<1>13. ASSUME NEW adverse \in BOOLEAN, Trade(msg, adverse)
       PROVE  GoldenTypeOK'
  <2> DEFINE qty == ReducedQty(adverse)
  <2>1. counters' \in [Counter -> 0 .. CounterMax]
    BY <1>2, <1>5, <1>13, IncrementType DEF Trade
  <2>2. qty \in Nat
    BY ReducedWithin, ConfigFacts DEF GoldenTypeOK
  <2>3. Arrive(msg, now) /\ books' \in [Symbol -> Book] /\ side # None
    BY <1>8, <1>13 DEF Trade
  <2>4. result' \in [order : Order \cup {NoOrder}, dropped : BOOLEAN,
                     signal : {None, SIDE_BID, SIDE_ASK}]
    <3>1. Record(ORDER_MSG_NEW, msg, side, 0, OrderPrice(side, b), qty) \in Order
      BY <1>2, <1>4, <2>2, <2>3, RecordType
    <3> QED
      BY <1>4, <1>13, <3>1 DEF Trade
  <2>5. token_bucket' \in 0 .. cfg'.token_max
    <3>1. ~(TokensAt(now) <= 0)
      BY <1>13, PassedGates DEF Trade
    <3>2. token_bucket' = TokensAt(now) - 1 /\ cfg' = cfg /\ cfg.token_max \in Nat
      BY <1>1, <1>13, ConfigFacts DEF Trade, GoldenTypeOK
    <3> QED
      BY <1>2, <3>1, <3>2
  <2>6. tx_busy_until' \in Seq(Nat)
    <3>1. TxBusyAt(now) \in Seq(Nat)
      BY <1>2, SlotsType DEF GoldenTypeOK
    <3>2. now + ORDER_TX_CYCLES \in Nat
      BY <1>2, GoldenAssumption
    <3>3. tx_busy_until' = Append(TxBusyAt(now), now + ORDER_TX_CYCLES)
      BY <1>13 DEF Trade
    <3> QED
      BY <3>1, <3>2, <3>3
  <2>7. position' \in [Symbol -> Int]
    <3>1. Signed(side, qty) \in Int
      BY <2>2 DEF Signed
    <3>2. position' = [position EXCEPT ![msg.symbol_id] = @ + Signed(side, qty)]
      BY <1>13 DEF Trade
    <3>3. position \in [Symbol -> Int]
      BY DEF GoldenTypeOK
    <3> HIDE DEF qty, side
    <3>4. position[msg.symbol_id] + Signed(side, qty) \in Int
          \/ msg.symbol_id \notin Symbol
      BY <3>1, <3>3
    <3> QED
      BY <3>2, <3>3, <3>4
  <2>8. /\ cfg' \in Configs
        /\ current_cycle' = now
        /\ last_refill_cycle' \in 0 .. current_cycle'
        /\ expected_seq' \in Nat \cup {None}
        /\ seq_gap' \in BOOLEAN
        /\ kill_latched' \in BOOLEAN
    BY <1>1, <1>2, <2>3, ArriveType
  <2> QED
    BY <1>1, <1>2, <1>3, <2>1, <2>3, <2>4, <2>5, <2>6, <2>7, <2>8 DEF GoldenTypeOK
<1> QED
  BY <1>9, <1>10, <1>11, <1>12, <1>13 DEF process_message

LEMMA FrameType ==
  ASSUME GoldenTypeOK, NEW payload \in Payload, NEW cycle \in Nat \cup {None},
         NEW fcs_ok \in BOOLEAN, process_frame(payload, cycle, fcs_ok)
  PROVE  GoldenTypeOK'
<1>1. payload.messages \in Seq(Message)
  BY DEF Payload
<1>2. counters' \in [Counter -> 0 .. CounterMax]
  BY IncrementType DEF process_frame, GoldenTypeOK
<1>3. pending' \in Seq(Message) /\ arrival' \in Nat \cup {None}
  BY <1>1 DEF process_frame
<1>4. result' \in [order : Order \cup {NoOrder}, dropped : BOOLEAN,
                   signal : {None, SIDE_BID, SIDE_ASK}]
  BY DEF process_frame, NoResult
<1>5. UNCHANGED <<cfg, books, position, feedVars, kill_latched, paceVars>>
  BY DEF process_frame
<1> QED
  BY <1>2, <1>3, <1>4, <1>5 DEF feedVars, paceVars, GoldenTypeOK

LEMMA ControlType ==
  ASSUME GoldenTypeOK,
         ControlCall, kill_latched' \in BOOLEAN, seq_gap' \in BOOLEAN
  PROVE  GoldenTypeOK'
<1>1. result' \in [order : Order \cup {NoOrder}, dropped : BOOLEAN,
                   signal : {None, SIDE_BID, SIDE_ASK}]
  BY DEF ControlCall, NoResult
<1>2. UNCHANGED <<cfg, counters, books, position, expected_seq, paceVars,
                  pending, arrival>>
  BY DEF ControlCall
<1> QED
  BY <1>1, <1>2 DEF paceVars, GoldenTypeOK

LEMMA GoldenTypeStep ==
  GoldenTypeOK /\ [GoldenNext]_goldenVars => GoldenTypeOK'
<1> SUFFICES ASSUME GoldenTypeOK, [GoldenNext]_goldenVars
             PROVE  GoldenTypeOK'
  OBVIOUS
<1>1. CASE process_message
  BY <1>1, MessageType
<1>2. ASSUME NEW payload \in Payload, NEW cycle \in Nat \cup {None},
             NEW fcs_ok \in BOOLEAN, process_frame(payload, cycle, fcs_ok)
      PROVE  GoldenTypeOK'
  BY <1>2, FrameType
<1>3. CASE assert_kill_switch \/ clear_kill_switch \/ clear_seq_gap
  BY <1>3, ControlType
     DEF assert_kill_switch, clear_kill_switch, clear_seq_gap, GoldenTypeOK
<1>4. CASE UNCHANGED goldenVars
  BY <1>4 DEF goldenVars, feedVars, paceVars, GoldenTypeOK
<1> QED
  BY <1>1, <1>2, <1>3, <1>4 DEF GoldenNext

(* Each variable holds values of its kind: the bucket never more than it   *)
(* can, nor less than none; the last credit never after the clock.         *)
THEOREM GoldenTypeCorrect == GoldenSpec => []GoldenTypeOK
<1>1. GoldenInit => GoldenTypeOK
  BY InitType
<1> QED
  BY <1>1, GoldenTypeStep, PTL DEF GoldenSpec

-----------------------------------------------------------------------------
(* What one message does to the counters of the ledger. *)

Fates == {"cnt_msgs_filtered", "cnt_msgs_accepted", "err_msg_type", "err_flags"}

(* hits and again are the names a message increments: one reception, one   *)
(* fate, no conflict; an order only where one is sent.                     *)
Counts(hits, again) ==
  /\ "cnt_msgs_rx" \in hits
  /\ \E f \in Fates : hits \cap Fates = {f}
  /\ "err_signal_conflict" \notin hits
  /\ again \cap Ledger = {}

LEMMA BookCounts ==
  ASSUME NEW msg, NEW b, NEW side, NEW adverse, NEW gates \in SUBSET Gate,
         NEW more \in {{}, {"cnt_order_overflow"}, {"cnt_orders_tx"}}
  PROVE  /\ Counts(BookHits(msg, b), {})
         /\ Counts(BookHits(msg, b) \cup SignalHits(side, adverse) \cup more, {})
         /\ Counts(BookHits(msg, b) \cup SignalHits(side, adverse)
                      \cup {GATE_NAME[g] : g \in gates},
                   {GATE_NAME[g] : g \in gates \cap {GATE_ML}})
         /\ "cnt_orders_tx" \notin BookHits(msg, b) \cup SignalHits(side, adverse)
         /\ "cnt_orders_tx" \notin {GATE_NAME[g] : g \in gates}
<1> DEFINE H == BookHits(msg, b)
           S == SignalHits(side, adverse)
           G == {GATE_NAME[g] : g \in gates}
           A == {GATE_NAME[g] : g \in gates \cap {GATE_ML}}
<1>1. G \cap Ledger = {} /\ A \cap Ledger = {}
  BY GateNames
<1>2. /\ H \cap Ledger = {"cnt_msgs_rx", "cnt_msgs_accepted"}
      /\ S \cap Ledger = {}
  BY DEF BookHits, SignalHits, Ledger
<1>3. /\ more \cap Ledger \subseteq {"cnt_orders_tx"}
      /\ more \cap Fates = {}
      /\ "err_signal_conflict" \notin more
  BY DEF Ledger, Fates
<1>4. /\ Fates \subseteq Ledger /\ "cnt_msgs_accepted" \in Fates
      /\ "cnt_msgs_rx" \in Ledger /\ "cnt_msgs_rx" \notin Fates
      /\ "err_signal_conflict" \in Ledger /\ "err_signal_conflict" \notin Fates
      /\ "cnt_orders_tx" \in Ledger /\ "cnt_orders_tx" \notin Fates
  BY DEF Ledger, Fates
<1> HIDE DEF H, S, G, A
<1>5. /\ H \cap Fates = {"cnt_msgs_accepted"}
      /\ (H \cup S \cup more) \cap Fates = {"cnt_msgs_accepted"}
      /\ (H \cup S \cup G) \cap Fates = {"cnt_msgs_accepted"}
  BY <1>1, <1>2, <1>3, <1>4
<1>6. "cnt_msgs_rx" \in H
  BY <1>2
<1>7. "err_signal_conflict" \notin H \cup S \cup G
  BY <1>1, <1>2, <1>4
<1>8. "cnt_orders_tx" \notin H \cup S \cup G
  BY <1>1, <1>2, <1>4
<1>9. Counts(H, {})
  BY <1>4, <1>5, <1>6, <1>7 DEF Counts
<1>10. Counts(H \cup S \cup more, {})
  BY <1>3, <1>4, <1>5, <1>6, <1>7 DEF Counts
<1>11. Counts(H \cup S \cup G, A)
  BY <1>1, <1>4, <1>5, <1>6, <1>7 DEF Counts
<1> QED
  BY <1>8, <1>9, <1>10, <1>11 DEF H, S, G, A

LEMMA DropCounts ==
  ASSUME NEW msg, NEW more \in {{}, {"cnt_seq_dup"}}
  PROVE  /\ Counts({"cnt_msgs_rx", DropCounter(msg)} \cup more, {})
         /\ "cnt_orders_tx" \notin {"cnt_msgs_rx", DropCounter(msg)} \cup more
<1>1. DropCounter(msg) \in Fates
  BY DEF DropCounter, Fates
<1>2. ({"cnt_msgs_rx", DropCounter(msg)} \cup more) \cap Fates = {DropCounter(msg)}
  BY <1>1 DEF Fates
<1> QED
  BY <1>1, <1>2 DEF Counts, Fates

(* One of them is an order exactly when a token is spent. *)
LEMMA MessageCounts ==
  ASSUME GoldenTypeOK, process_message
  PROVE  \E hits, again :
           /\ Increment(hits, again, Gap(Head(pending)))
           /\ Counts(hits, again)
           /\ token_bucket' = TokensAt(MessageCycle) - One("cnt_orders_tx" \in hits)
<1> DEFINE msg == Head(pending)
           now == MessageCycle
           b == BookAfter(msg, now)
           side == SignalSide(msg, b)
           Goal(hits, again) ==
             /\ Increment(hits, again, Gap(msg))
             /\ Counts(hits, again)
             /\ token_bucket' = TokensAt(now) - One("cnt_orders_tx" \in hits)
<1>1. /\ pending # <<>> /\ msg \in Message /\ b \in Book
      /\ TokensAt(now) \in Int
  BY InHand DEF process_message
<1>2. CASE Discard(msg)
  <2> DEFINE late == IF IsDup(msg) THEN {"cnt_seq_dup"} ELSE {}
             hits == {"cnt_msgs_rx", DropCounter(msg)} \cup late
  <2>1. Counts(hits, {}) /\ "cnt_orders_tx" \notin hits
    BY DropCounts
  <2>2. Increment(hits, {}, Gap(msg)) /\ token_bucket' = TokensAt(now)
    BY <1>2 DEF Discard, NoTrade
  <2> HIDE DEF hits
  <2> QED
    BY <1>1, <2>1, <2>2 DEF One
<1>3. CASE Observe(msg)
  <2> DEFINE hits == BookHits(msg, b)
  <2>1. ~Conflict(msg, b)
    BY <1>1, RulesExclude DEF Conflict, GoldenTypeOK
  <2>2. Increment(hits, {}, Gap(msg)) /\ token_bucket' = TokensAt(now)
    <3>1. hits \cup (IF Conflict(msg, b) THEN {"err_signal_conflict"} ELSE {}) = hits
      BY <2>1
    <3> QED
      BY <1>3, <3>1 DEF Observe, NoTrade
  <2>3. Counts(hits, {}) /\ "cnt_orders_tx" \notin hits
    BY BookCounts
  <2> HIDE DEF hits
  <2> QED
    BY <1>1, <2>2, <2>3 DEF One
<1>4. ASSUME NEW adverse \in BOOLEAN, Refuse(msg, adverse)
      PROVE  \E hits, again : Goal(hits, again)
  <2> DEFINE gates == GatesFired(msg, b, side, now, adverse)
             hits == BookHits(msg, b) \cup SignalHits(side, adverse)
                       \cup {GATE_NAME[g] : g \in gates}
             again == {GATE_NAME[g] : g \in gates \cap {GATE_ML}}
  <2>1. gates \in SUBSET Gate
    BY DEF GatesFired
  <2>2. Increment(hits, again, Gap(msg)) /\ token_bucket' = TokensAt(now)
    BY <1>4 DEF Refuse, NoTrade
  <2> HIDE DEF gates
  <2>3. Counts(hits, again) /\ "cnt_orders_tx" \notin hits
    BY <2>1, BookCounts
  <2> HIDE DEF hits, again
  <2> QED
    BY <1>1, <2>2, <2>3 DEF One
<1>5. ASSUME NEW adverse \in BOOLEAN, Overflow(msg, adverse)
      PROVE  \E hits, again : Goal(hits, again)
  <2> DEFINE hits == BookHits(msg, b) \cup SignalHits(side, adverse)
                       \cup {"cnt_order_overflow"}
  <2>1. Increment(hits, {}, Gap(msg)) /\ token_bucket' = TokensAt(now)
    BY <1>5 DEF Overflow, NoTrade
  <2>2. Counts(hits, {}) /\ "cnt_orders_tx" \notin hits
    BY BookCounts
  <2> HIDE DEF hits
  <2> QED
    BY <1>1, <2>1, <2>2 DEF One
<1>6. ASSUME NEW adverse \in BOOLEAN, Trade(msg, adverse)
      PROVE  \E hits, again : Goal(hits, again)
  <2> DEFINE hits == BookHits(msg, b) \cup SignalHits(side, adverse)
                       \cup {"cnt_orders_tx"}
  <2>1. Increment(hits, {}, Gap(msg)) /\ token_bucket' = TokensAt(now) - 1
    BY <1>6 DEF Trade
  <2>2. Counts(hits, {}) /\ "cnt_orders_tx" \in hits
    BY BookCounts
  <2> HIDE DEF hits
  <2> QED
    BY <1>1, <2>1, <2>2 DEF One
<1> QED
  BY <1>2, <1>3, <1>4, <1>5, <1>6 DEF process_message

-----------------------------------------------------------------------------
(* The ingress ledger. *)

LEMMA BalanceStep ==
  ASSUME counters \in [Counter -> 0 .. CounterMax], IngressBalance,
         NEW hits, NEW again, NEW gap \in Nat,
         Increment(hits, again, gap), Counts(hits, again)
  PROVE  IngressBalance'
<1> DEFINE n(c) == counters[c]
<1>1. /\ Fates \subseteq Counter /\ Fates \subseteq Ledger
      /\ "cnt_msgs_rx" \in Counter /\ "cnt_msgs_rx" \in Ledger
      /\ "cnt_seq_gap" \notin Ledger
  BY DEF Fates, Counter, Ledger
<1>2. PICK f \in Fates : hits \cap Fates = {f}
  BY DEF Counts
<1>3. \A c \in Fates : counters'[c] = Lesser(CounterMax, n(c) + One(c = f))
  <2> TAKE c \in Fates
  <2>1. c \in hits <=> c = f
    BY <1>2
  <2>2. c \notin again /\ c \in Counter /\ c # "cnt_seq_gap"
    BY <1>1 DEF Counts
  <2>3. counters'[c] = Lesser(CounterMax, n(c) + One(c \in hits) + 0 + 0)
    BY <2>2, IncrementType DEF One
  <2>4. n(c) \in Nat
    BY <2>2
  <2> QED
    BY <2>1, <2>3, <2>4 DEF One
<1>4. counters'["cnt_msgs_rx"] = Lesser(CounterMax, n("cnt_msgs_rx") + 1)
  <2>1. /\ "cnt_msgs_rx" \in hits /\ "cnt_msgs_rx" \notin again
        /\ "cnt_msgs_rx" # "cnt_seq_gap"
    BY <1>1 DEF Counts
  <2>2. counters'["cnt_msgs_rx"] = Lesser(CounterMax, n("cnt_msgs_rx") + 1 + 0 + 0)
    BY <1>1, <2>1, IncrementType DEF One
  <2>3. n("cnt_msgs_rx") \in Nat
    BY <1>1
  <2> QED
    BY <2>2, <2>3
<1>5. /\ n("cnt_msgs_rx") \in Nat /\ n("cnt_msgs_filtered") \in Nat
      /\ n("cnt_msgs_accepted") \in Nat /\ n("err_msg_type") \in Nat
      /\ n("err_flags") \in Nat
  BY <1>1 DEF Fates
<1>6. /\ counters'["cnt_msgs_filtered"]
             = Lesser(CounterMax, n("cnt_msgs_filtered") + One("cnt_msgs_filtered" = f))
      /\ counters'["cnt_msgs_accepted"]
             = Lesser(CounterMax, n("cnt_msgs_accepted") + One("cnt_msgs_accepted" = f))
      /\ counters'["err_msg_type"]
             = Lesser(CounterMax, n("err_msg_type") + One("err_msg_type" = f))
      /\ counters'["err_flags"]
             = Lesser(CounterMax, n("err_flags") + One("err_flags" = f))
  BY <1>3 DEF Fates
<1>7. One("cnt_msgs_filtered" = f) + One("cnt_msgs_accepted" = f)
        + One("err_msg_type" = f) + One("err_flags" = f) = 1
  BY <1>2 DEF Fates, One
<1>8. /\ One("cnt_msgs_filtered" = f) \in {0, 1} /\ One("cnt_msgs_accepted" = f) \in {0, 1}
      /\ One("err_msg_type" = f) \in {0, 1} /\ One("err_flags" = f) \in {0, 1}
  BY DEF One
<1> HIDE DEF n
<1> QED
  <2> SUFFICES ASSUME counters'["cnt_msgs_rx"] < CounterMax
               PROVE  counters'["cnt_msgs_rx"]
                        = counters'["cnt_msgs_filtered"] + counters'["cnt_msgs_accepted"]
                            + counters'["err_msg_type"] + counters'["err_flags"]
    BY DEF IngressBalance
  <2>1. n("cnt_msgs_rx") + 1 < CounterMax
        /\ counters'["cnt_msgs_rx"] = n("cnt_msgs_rx") + 1
    BY <1>4, <1>5, GoldenAssumption DEF Lesser
  <2>2. n("cnt_msgs_rx") = n("cnt_msgs_filtered") + n("cnt_msgs_accepted")
                             + n("err_msg_type") + n("err_flags")
    BY <1>5, <2>1, GoldenAssumption DEF IngressBalance, n
  <2> QED
    BY <1>5, <1>6, <1>7, <1>8, <2>1, <2>2, GoldenAssumption DEF Lesser

(* A frame counts what no message counts. *)
LEMMA FrameCounts ==
  ASSUME GoldenTypeOK, NEW payload, NEW cycle, NEW fcs_ok,
         process_frame(payload, cycle, fcs_ok)
  PROVE  /\ \A c \in Fates \cup {"cnt_msgs_rx", "cnt_orders_tx", "err_signal_conflict"} :
               counters'[c] = counters[c]
         /\ UNCHANGED <<cfg, position, token_bucket, last_refill_cycle, current_cycle>>
<1> DEFINE hits == {"cnt_frames_rx"}
                     \cup (IF ~fcs_ok THEN {"err_fcs"}
                           ELSE IF BadLength(payload) THEN {"err_frame_len"} ELSE {})
<1>1. Increment(hits, {}, 0)
  BY DEF process_frame
<1>2. ASSUME NEW c \in Fates \cup {"cnt_msgs_rx", "cnt_orders_tx", "err_signal_conflict"}
      PROVE  counters'[c] = counters[c]
  <2>1. c \notin hits /\ c \in Counter /\ c # "cnt_seq_gap"
    BY DEF Fates, Counter
  <2>2. counters[c] \in 0 .. CounterMax
    BY <2>1 DEF GoldenTypeOK
  <2> HIDE DEF hits
  <2>3. counters'[c] = Lesser(CounterMax, counters[c] + 0 + 0 + 0)
    BY <1>1, <2>1, IncrementType DEF One, GoldenTypeOK
  <2> QED
    BY <2>2, <2>3, GoldenAssumption DEF Lesser
<1> QED
  BY <1>2 DEF process_frame, paceVars

(* Whatever is not a message leaves the ledger as it is. *)
Idle ==
  /\ \A c \in Fates \cup {"cnt_msgs_rx", "cnt_orders_tx", "err_signal_conflict"} :
       counters'[c] = counters[c]
  /\ UNCHANGED <<cfg, position, token_bucket, last_refill_cycle, current_cycle>>

LEMMA OtherSteps ==
  ASSUME GoldenTypeOK, [GoldenNext]_goldenVars
  PROVE  process_message \/ Idle
<1>1. ASSUME NEW payload \in Payload, NEW cycle \in Nat \cup {None},
             NEW fcs_ok \in BOOLEAN, process_frame(payload, cycle, fcs_ok)
      PROVE  Idle
  BY <1>1, FrameCounts DEF Idle
<1>2. CASE assert_kill_switch \/ clear_kill_switch \/ clear_seq_gap
  BY <1>2 DEF assert_kill_switch, clear_kill_switch, clear_seq_gap, ControlCall,
              paceVars, Idle
<1>3. CASE UNCHANGED goldenVars
  BY <1>3 DEF goldenVars, feedVars, paceVars, Idle
<1> QED
  BY <1>1, <1>2, <1>3 DEF GoldenNext

(* Spec section 10, "Ingress". *)
THEOREM IngressSafe == GoldenSpec => []IngressBalance
<1>1. GoldenInit => IngressBalance
  BY DEF GoldenInit, IngressBalance, Counter
<1>2. GoldenTypeOK /\ IngressBalance /\ [GoldenNext]_goldenVars => IngressBalance'
  <2> SUFFICES ASSUME GoldenTypeOK, IngressBalance, [GoldenNext]_goldenVars
               PROVE  IngressBalance'
    OBVIOUS
  <2>1. CASE process_message
    <3>1. PICK hits, again : /\ Increment(hits, again, Gap(Head(pending)))
                             /\ Counts(hits, again)
      BY <2>1, MessageCounts
    <3>2. Gap(Head(pending)) \in Nat
      BY <2>1, InHand DEF process_message
    <3> QED
      BY <3>1, <3>2, BalanceStep DEF GoldenTypeOK
  <2>2. CASE Idle
    BY <2>2 DEF Idle, Fates, IngressBalance
  <2> QED
    BY <2>1, <2>2, OtherSteps
<1> QED
  BY <1>1, <1>2, GoldenTypeCorrect, PTL DEF GoldenSpec

(* FR-37: nothing ever counts a conflict. *)
THEOREM GoldenConflictFree == GoldenSpec => []NoSignalConflict
<1>1. GoldenInit => NoSignalConflict
  BY DEF GoldenInit, NoSignalConflict, Counter
<1>2. GoldenTypeOK /\ NoSignalConflict /\ [GoldenNext]_goldenVars => NoSignalConflict'
  <2> SUFFICES ASSUME GoldenTypeOK, NoSignalConflict, [GoldenNext]_goldenVars
               PROVE  NoSignalConflict'
    OBVIOUS
  <2>1. CASE process_message
    <3>1. PICK hits, again : /\ Increment(hits, again, Gap(Head(pending)))
                             /\ Counts(hits, again)
      BY <2>1, MessageCounts
    <3>2. Gap(Head(pending)) \in Nat
      BY <2>1, InHand DEF process_message
    <3>3. /\ "err_signal_conflict" \in Counter
          /\ "err_signal_conflict" \notin hits /\ "err_signal_conflict" \notin again
      BY <3>1 DEF Counter, Counts, Ledger
    <3>4. counters'["err_signal_conflict"]
            = Lesser(CounterMax, counters["err_signal_conflict"]
                                   + One("err_signal_conflict" \in hits)
                                   + One("err_signal_conflict" \in again) + 0)
      BY <3>1, <3>2, <3>3, IncrementType DEF GoldenTypeOK
    <3>5. counters["err_signal_conflict"] = 0
      BY DEF NoSignalConflict
    <3> QED
      BY <3>3, <3>4, <3>5, GoldenAssumption DEF One, Lesser, NoSignalConflict
  <2>2. CASE Idle
    BY <2>2 DEF Idle, NoSignalConflict
  <2> QED
    BY <2>1, <2>2, OtherSteps
<1> QED
  BY <1>1, <1>2, GoldenTypeCorrect, PTL DEF GoldenSpec

-----------------------------------------------------------------------------
(* The throttle. *)

(* Orders sent and tokens left are paid for up to the last credit; what is *)
(* due since then is credited by the next message.                         *)
Credited ==
  (counters["cnt_orders_tx"] + token_bucket - cfg.token_max) * cfg.token_refill_cycles
    <= last_refill_cycle

LEMMA CreditStep ==
  ASSUME NEW x \in Int, NEW y \in Int, NEW r \in Nat, NEW p \in Nat, NEW last \in Nat,
         x * p <= last, y <= x + r
  PROVE  y * p <= last + r * p
<1>1. (x + r) * p = x * p + r * p
  BY Distribute
<1>2. y * p <= (x + r) * p
  BY ProductMonotone
<1>3. x * p \in Int /\ r * p \in Int /\ y * p \in Int
  OBVIOUS
<1> QED
  BY <1>1, <1>2, <1>3

LEMMA CreditedKept ==
  ASSUME GoldenTypeOK, Credited, process_message
  PROVE  Credited'
<1> DEFINE now == MessageCycle
           orders == counters["cnt_orders_tx"]
           sent == counters'["cnt_orders_tx"]
<1>1. PICK hits, again :
        /\ Increment(hits, again, Gap(Head(pending)))
        /\ Counts(hits, again)
        /\ token_bucket' = TokensAt(now) - One("cnt_orders_tx" \in hits)
  BY MessageCounts
<1>2. /\ Gap(Head(pending)) \in Nat /\ now \in Nat /\ now >= current_cycle
      /\ TokensAt(now) \in 0 .. cfg.token_max
  BY InHand DEF process_message
<1>3. /\ Refills(now) \in Nat
      /\ LastRefillAt(now) = last_refill_cycle + Refills(now) * cfg.token_refill_cycles
  BY <1>2, RefillsType DEF GoldenTypeOK
<1>4. TokensAt(now) <= token_bucket + Refills(now)
  BY <1>3, TokensType DEF GoldenTypeOK
<1>5. /\ cfg' = cfg /\ last_refill_cycle' = LastRefillAt(now)
      /\ cfg.token_max \in Nat /\ cfg.token_refill_cycles \in Nat
  <2>1. last_refill_cycle' = LastRefillAt(now)
    BY DEF process_message, Discard, Observe, Refuse, Overflow, Trade, Apply, Arrive
  <2>2. cfg' = cfg
    BY DEF process_message
  <2>3. cfg.token_max \in Nat /\ cfg.token_refill_cycles \in Nat
    BY ConfigFacts DEF GoldenTypeOK
  <2> QED
    BY <2>1, <2>2, <2>3
<1>6. orders \in Nat /\ sent \in Int /\ sent <= orders + One("cnt_orders_tx" \in hits)
  <2>1. "cnt_orders_tx" \in Counter /\ "cnt_orders_tx" \notin again
    BY <1>1 DEF Counter, Counts, Ledger
  <2>2. sent = Lesser(CounterMax, orders + One("cnt_orders_tx" \in hits)
                                    + One("cnt_orders_tx" \in again) + 0)
    BY <1>1, <1>2, <2>1, IncrementType DEF GoldenTypeOK
  <2>3. orders \in Nat
    BY <2>1 DEF GoldenTypeOK
  <2> QED
    BY <2>1, <2>2, <2>3, GoldenAssumption DEF Lesser, One
<1>7. One("cnt_orders_tx" \in hits) \in {0, 1}
  BY DEF One
<1>8. token_bucket \in Nat /\ last_refill_cycle \in Nat
  BY <1>5 DEF GoldenTypeOK
<1> DEFINE x == orders + token_bucket - cfg.token_max
           y == sent + token_bucket' - cfg'.token_max
<1>9. x \in Int /\ y \in Int /\ y <= x + Refills(now)
  BY <1>1, <1>2, <1>3, <1>4, <1>5, <1>6, <1>7, <1>8
<1>10. x * cfg.token_refill_cycles <= last_refill_cycle
  BY DEF Credited
<1> HIDE DEF x, y
<1>11. y * cfg.token_refill_cycles
         <= last_refill_cycle + Refills(now) * cfg.token_refill_cycles
  BY <1>3, <1>5, <1>8, <1>9, <1>10, CreditStep
<1> QED
  BY <1>3, <1>5, <1>11 DEF Credited, y

(* FR-47, for every bucket, every period and every feed. *)
THEOREM ThrottleSafe == GoldenSpec => []ThrottleHolds
<1>1. GoldenInit => Credited
  <2> SUFFICES ASSUME GoldenInit PROVE Credited
    OBVIOUS
  <2>1. counters["cnt_orders_tx"] = 0 /\ last_refill_cycle = 0
        /\ token_bucket = cfg.token_max
    BY DEF GoldenInit, Counter
  <2>2. cfg.token_max \in Nat /\ cfg.token_refill_cycles \in Nat
    BY ConfigFacts DEF GoldenInit
  <2> QED
    BY <2>1, <2>2 DEF Credited
<1>2. GoldenTypeOK /\ Credited /\ [GoldenNext]_goldenVars => Credited'
  <2> SUFFICES ASSUME GoldenTypeOK, Credited, [GoldenNext]_goldenVars
               PROVE  Credited'
    OBVIOUS
  <2>1. CASE process_message
    BY <2>1, CreditedKept
  <2>2. CASE Idle
    BY <2>2 DEF Idle, Credited
  <2> QED
    BY <2>1, <2>2, OtherSteps
<1>3. GoldenTypeOK /\ Credited => ThrottleHolds
  <2> SUFFICES ASSUME GoldenTypeOK, Credited PROVE ThrottleHolds
    OBVIOUS
  <2> DEFINE due == (counters["cnt_orders_tx"] + token_bucket - cfg.token_max)
                       * cfg.token_refill_cycles
  <2>1. counters["cnt_orders_tx"] \in Nat
    BY DEF GoldenTypeOK, Counter
  <2>2. /\ token_bucket \in Nat /\ cfg.token_max \in Nat
        /\ cfg.token_refill_cycles \in Nat
    BY ConfigFacts DEF GoldenTypeOK
  <2>3. due \in Int
    BY <2>1, <2>2
  <2>4. due <= last_refill_cycle
    BY DEF Credited
  <2>5. last_refill_cycle <= current_cycle /\ last_refill_cycle \in Nat
        /\ current_cycle \in Nat
    BY DEF GoldenTypeOK
  <2> HIDE DEF due
  <2>6. due <= current_cycle
    BY <2>3, <2>4, <2>5
  <2> QED
    BY <2>6 DEF due, ThrottleHolds
<1> QED
  BY <1>1, <1>2, <1>3, GoldenTypeCorrect, PTL DEF GoldenSpec

-----------------------------------------------------------------------------
(* The position. *)

LEMMA FilledWithin ==
  ASSUME NEW p \in Int, NEW side, NEW q \in Nat, NEW full \in Nat, q <= full,
         NEW limit \in Nat, Abs(p) <= limit, Abs(p + Signed(side, full)) <= limit
  PROVE  Abs(p + Signed(side, q)) <= limit
<1>1. CASE side = SIDE_BID
  BY <1>1 DEF Abs, Signed
<1>2. CASE side # SIDE_BID
  BY <1>2 DEF Abs, Signed
<1> QED
  BY <1>1, <1>2

LEMMA PositionKept ==
  ASSUME GoldenTypeOK, PositionWithinLimit, process_message
  PROVE  PositionWithinLimit'
<1> DEFINE msg == Head(pending)
           now == MessageCycle
           b == BookAfter(msg, now)
           side == SignalSide(msg, b)
<1>1. cfg' = cfg /\ cfg.max_position \in Nat /\ cfg.order_qty \in Nat \ {0}
  BY ConfigFacts DEF process_message, GoldenTypeOK
<1>2. msg \in Message
  BY InHand DEF process_message
<1>3. CASE UNCHANGED position
  BY <1>1, <1>3 DEF PositionWithinLimit
<1>4. ASSUME NEW adverse \in BOOLEAN, Trade(msg, adverse)
      PROVE  PositionWithinLimit'
  <2> DEFINE s == msg.symbol_id
             q == ReducedQty(adverse)
             after == position[s] + Signed(side, q)
  <2>1. s \in Symbol /\ position[s] \in Int
    BY <1>2 DEF Message, GoldenTypeOK
  <2>2. Abs(position[s]) <= cfg.max_position
    BY <2>1 DEF PositionWithinLimit
  <2>3. Abs(position[s] + Signed(side, cfg.order_qty)) <= cfg.max_position
    <3>1. ~(Abs(Prospective(msg, side)) > cfg.max_position)
      BY <1>4, PassedGates DEF Trade
    <3>2. position[s] + Signed(side, cfg.order_qty) \in Int
      BY <1>1, <2>1 DEF Signed
    <3>3. Prospective(msg, side) = position[s] + Signed(side, cfg.order_qty)
      BY DEF Prospective
    <3> HIDE DEF s, side
    <3> QED
      BY <1>1, <3>1, <3>2, <3>3 DEF Abs
  <2>4. q \in 1 .. cfg.order_qty
    BY ReducedWithin DEF GoldenTypeOK
  <2> HIDE DEF s, side, q
  <2>5. Abs(after) <= cfg.max_position
    BY <1>1, <2>1, <2>2, <2>3, <2>4, FilledWithin
  <2>6. position' = [position EXCEPT ![s] = after]
    BY <1>4 DEF Trade, s, side, q
  <2> HIDE DEF after
  <2>7. position \in [Symbol -> Int]
    BY DEF GoldenTypeOK
  <2> QED
    BY <1>1, <2>5, <2>6, <2>7 DEF PositionWithinLimit
<1> QED
  BY <1>3, <1>4 DEF process_message, Discard, Observe, Refuse, Overflow, NoTrade

(* Gate POSITION keeps its promise however the two rules and gate ML       *)
(* alternate.                                                              *)
THEOREM PositionSafe == GoldenSpec => []PositionWithinLimit
<1>1. GoldenInit => PositionWithinLimit
  <2> SUFFICES ASSUME GoldenInit PROVE PositionWithinLimit
    OBVIOUS
  <2>1. \A s \in Symbol : position[s] = 0
    BY DEF GoldenInit
  <2>2. cfg.max_position \in Nat
    BY ConfigFacts DEF GoldenInit
  <2> QED
    BY <2>1, <2>2 DEF PositionWithinLimit, Abs
<1>2. GoldenTypeOK /\ PositionWithinLimit /\ [GoldenNext]_goldenVars
        => PositionWithinLimit'
  <2> SUFFICES ASSUME GoldenTypeOK, PositionWithinLimit, [GoldenNext]_goldenVars
               PROVE  PositionWithinLimit'
    OBVIOUS
  <2>1. CASE process_message
    BY <2>1, PositionKept
  <2>2. CASE Idle
    BY <2>2 DEF Idle, PositionWithinLimit
  <2> QED
    BY <2>1, <2>2, OtherSteps
<1> QED
  BY <1>1, <1>2, GoldenTypeCorrect, PTL DEF GoldenSpec

=============================================================================
