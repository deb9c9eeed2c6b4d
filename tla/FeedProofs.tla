------------------------------ MODULE FeedProofs ------------------------------
(***************************************************************************)
(* Theorems about the feed path, for every width, every set of messages    *)
(* and configurations, and every behaviour of the network.                 *)
(***************************************************************************)
EXTENDS FeedPath, TLAPS

-----------------------------------------------------------------------------
(* The signal rule is never met both ways. *)

LEMMA ModSmall ==
  ASSUME NEW m \in Nat \ {0}, NEW x \in 0 .. m - 1
  PROVE  x % m = x
OBVIOUS

(* 35 bits hold every shifted 32-bit quantity. *)
LEMMA ShiftExact ==
  ASSUME NEW q \in 0 .. QtyMod - 1, NEW c, c.imb \in {1, 2, 4, 8}
  PROVE  Shifted(q, c) \in Nat /\ Shifted(q, c) >= q
<1> DEFINE x == q * c.imb
<1>1. QtyMod \in Nat \ {0} /\ 8 * QtyMod \in Nat \ {0}
  BY WidthAssumption
<1>2. x \in 0 .. (8 * QtyMod) - 1 /\ x >= q
  <2>1. CASE c.imb = 1 BY <1>1, <2>1
  <2>2. CASE c.imb = 2 BY <1>1, <2>2
  <2>3. CASE c.imb = 4 BY <1>1, <2>3
  <2>4. CASE c.imb = 8 BY <1>1, <2>4
  <2> QED BY <2>1, <2>2, <2>3, <2>4
<1>3. Shifted(q, c) = x % (8 * QtyMod)
  BY DEF Shifted
<1> HIDE DEF x
<1>4. x % (8 * QtyMod) = x
  BY <1>1, <1>2, ModSmall
<1> QED
  BY <1>2, <1>3, <1>4

(* A buy needs more bid than ask, a sell more ask than bid. *)
LEMMA Exclusive ==
  ASSUME NEW in, in.bid.qty \in 0 .. QtyMod - 1, in.ask.qty \in 0 .. QtyMod - 1,
         in.cfg.imb \in {1, 2, 4, 8}
  PROVE  ~(BuyOk(in) /\ SellOk(in))
<1>1. /\ Shifted(in.ask.qty, in.cfg) \in Nat /\ Shifted(in.ask.qty, in.cfg) >= in.ask.qty
      /\ Shifted(in.bid.qty, in.cfg) \in Nat /\ Shifted(in.bid.qty, in.cfg) >= in.bid.qty
  BY ShiftExact
<1> QED
  BY <1>1 DEF BuyOk, SellOk

(* Every quantity in the book came from a message. *)
QtyInv ==
  /\ log \in Seq(Message)
  /\ cfg \in Config
  /\ bid \in [Slot -> Quote]
  /\ ask \in [Slot -> Quote]
  /\ NoConflict

LEMMA FrameMessage ==
  ASSUME QtyInv, NEW f \in FeedFrames \cup CsrFrames
  PROVE  f.msg.price \in 0 .. PriceMod - 1 /\ f.msg.qty \in 0 .. QtyMod - 1
<1>1. CASE f \in FeedFrames
  <2>1. PICK k \in DOMAIN log : f = [index |-> k, seq |-> SeqOf(k), msg |-> log[k]]
    BY <1>1 DEF FeedFrames
  <2>2. log[k] \in Message
    BY DEF QtyInv
  <2> QED
    BY <2>1, <2>2 DEF Message
<1>2. CASE f \in CsrFrames
  <2>1. f.msg = CsrMessage
    BY <1>2 DEF CsrFrames
  <2> QED
    BY <2>1, WidthAssumption DEF CsrMessage
<1> QED
  BY <1>1, <1>2

LEMMA UpdatedType ==
  ASSUME NEW in, NEW side, NEW old \in Quote,
         in.price \in 0 .. PriceMod - 1, in.qty \in 0 .. QtyMod - 1
  PROVE  Updated(old, side, in) \in Quote
BY DEF Updated, Quote

(* The lowest matching slot exists. *)
LEMMA SlotFound ==
  ASSUME NEW in, msg_applied(in)
  PROVE  filt_slot(in) \in Slot
<1> DEFINE M == {s \in Slot : Matches(s, in)}
<1>1. M # {}
  BY DEF msg_applied, filt_slot
<1>2. \E s \in M : \A r \in M : s <= r
  BY <1>1, SlotAssumption
<1>3. \E s \in Slot : Matches(s, in) /\ \A r \in Slot : Matches(r, in) => s <= r
  BY <1>2
<1> QED
  BY <1>3 DEF msg_applied, filt_slot

(* A completed frame leaves a well-typed book, and no conflict. *)
LEMMA CompleteKeepsQty ==
  ASSUME QtyInv, NEW f \in FeedFrames \cup CsrFrames, NEW clear,
         NEW newCfg \in Config, Complete(f, clear, newCfg)
  PROVE  QtyInv'
<1> DEFINE b == BookIn(f, err_seq_dup(SeqIn(f, clear)))
<1>1. b.price \in 0 .. PriceMod - 1 /\ b.qty \in 0 .. QtyMod - 1 /\ b.cfg = cfg
  BY FrameMessage DEF BookIn
<1>2. BookStep(b) /\ CountersStep(err_signal_conflict(SigIn(b)))
      /\ cfg' = newCfg /\ UNCHANGED log
  BY DEF Complete
<1> HIDE DEF b
<1>3. msg_applied(b) => /\ filt_slot(b) \in Slot
                        /\ next_bid(b) \in Quote /\ next_ask(b) \in Quote
  <2> SUFFICES ASSUME msg_applied(b)
               PROVE  filt_slot(b) \in Slot /\ next_bid(b) \in Quote /\ next_ask(b) \in Quote
    OBVIOUS
  <2>1. filt_slot(b) \in Slot
    BY SlotFound
  <2>2. bid[filt_slot(b)] \in Quote /\ ask[filt_slot(b)] \in Quote
    BY <2>1 DEF QtyInv
  <2> QED
    BY <1>1, <2>1, <2>2, UpdatedType DEF next_bid, next_ask
<1>4. bid' \in [Slot -> Quote] /\ ask' \in [Slot -> Quote]
  <2>1. CASE msg_applied(b)
    BY <1>2, <1>3, <2>1 DEF BookStep, QtyInv
  <2>2. CASE ~msg_applied(b)
    BY <1>2, <2>2 DEF BookStep, QtyInv, bookVars
  <2> QED
    BY <2>1, <2>2
<1>5. ~err_signal_conflict(SigIn(b))
  <2>1. CASE book_upd_valid(b)
    <3> DEFINE in == SigIn(b)
    <3>1. /\ in.bid = next_bid(b) /\ in.ask = next_ask(b) /\ in.cfg = cfg
      BY <1>1, <2>1 DEF SigIn
    <3>2. in.bid \in Quote /\ in.ask \in Quote
      BY <1>3, <2>1, <3>1 DEF book_upd_valid
    <3>3. in.bid.qty \in 0 .. QtyMod - 1 /\ in.ask.qty \in 0 .. QtyMod - 1
      BY <3>2 DEF Quote
    <3>4. in.cfg.imb \in {1, 2, 4, 8}
      BY <3>1, ImbAssumption DEF QtyInv
    <3> HIDE DEF in
    <3>5. ~(BuyOk(in) /\ SellOk(in))
      BY <3>3, <3>4, Exclusive
    <3> QED
      BY <3>5 DEF err_signal_conflict, in
  <2>2. CASE ~book_upd_valid(b)
    BY <2>2 DEF SigIn, err_signal_conflict
  <2> QED
    BY <2>1, <2>2
<1>6. NoConflict'
  BY <1>2, <1>5 DEF CountersStep, NoConflict, QtyInv
<1> QED
  BY <1>2, <1>4, <1>6 DEF QtyInv

LEMMA QtyInductive ==
  QtyInv /\ [Next]_vars => QtyInv'
<1> SUFFICES ASSUME QtyInv, [Next]_vars
             PROVE  QtyInv'
  OBVIOUS
<1>1. CASE Receive
  BY <1>1, CompleteKeepsQty DEF Receive, QtyInv
<1>2. CASE Control
  BY <1>2, CompleteKeepsQty DEF Control
<1>3. CASE Quiet
  BY <1>3 DEF Quiet, QtyInv, NoConflict, bookVars
<1>4. CASE Send
  <2>1. PICK m \in Content : log' = Append(log, m)
    BY <1>4 DEF Send
  <2>2. log' \in Seq(Message)
    BY <2>1, ContentAssumption DEF QtyInv
  <2> QED
    BY <1>4, <2>2 DEF Send, QtyInv, NoConflict, bookVars
<1>5. CASE UNCHANGED vars
  BY <1>5 DEF vars, QtyInv, NoConflict, bookVars
<1> QED
  BY <1>1, <1>2, <1>3, <1>4, <1>5 DEF Next

LEMMA QtyInit ==
  Init => QtyInv
<1> SUFFICES ASSUME Init PROVE QtyInv
  OBVIOUS
<1>1. NoQuote \in Quote
  BY WidthAssumption DEF NoQuote, Quote
<1> QED
  BY <1>1 DEF Init, BookReset, QtyInv, NoConflict

(***************************************************************************)
(* The buy rule and the sell rule of signal_engine.v never hold together   *)
(* (FR-37), whatever the widths, the feed and the configuration writes:    *)
(* 35 bits are enough for every shifted quantity (D15).                    *)
(***************************************************************************)
THEOREM ConflictFree == Spec => []NoConflict
<1>1. QtyInv => NoConflict
  BY DEF QtyInv
<1> QED
  BY QtyInit, QtyInductive, <1>1, PTL DEF Spec

-----------------------------------------------------------------------------
(* The book never goes back. *)

(* What has been accepted is behind the expected sequence number. *)
OrderInv ==
  /\ log \in Seq(Content) /\ Len(log) <= MaxSent
  /\ expected_seq \in Nat /\ seen_first \in BOOLEAN
  /\ last \in 0 .. Len(log)
  /\ last # 0 => seen_first /\ expected_seq >= FirstSeq + last

(* No sequence number of the sender wraps around. *)
LEMMA SeqOfExact ==
  ASSUME OrderInv, NEW k \in DOMAIN log
  PROVE  k \in 1 .. MaxSent /\ SeqOf(k) = FirstSeq + k - 1 /\ SeqOf(k) + 1 < SeqMod
<1>1. k \in 1 .. MaxSent
  BY NoWrapAssumption DEF OrderInv
<1>2. FirstSeq + k - 1 \in 0 .. SeqMod - 1 /\ FirstSeq + k < SeqMod
  BY <1>1, NoWrapAssumption, SeqModAssumption
<1>3. (FirstSeq + k - 1) % SeqMod = FirstSeq + k - 1
  BY <1>2, SeqModAssumption, ModSmall
<1> QED
  BY <1>1, <1>2, <1>3, NoWrapAssumption DEF SeqOf

(* A frame that is not a duplicate moves the expectation past itself. *)
LEMMA ExpectedMoves ==
  ASSUME OrderInv, NEW f \in FeedFrames \cup CsrFrames, NEW clear,
         NEW newCfg, Complete(f, clear, newCfg)
  PROVE  /\ f.seq \in Nat /\ seen_first'
         /\ expected_seq' = IF err_seq_dup(SeqIn(f, clear)) THEN expected_seq ELSE f.seq + 1
<1>1. f.seq \in Nat /\ f.seq + 1 \in 0 .. SeqMod - 1
  <2>1. CASE f \in FeedFrames
    <3>1. PICK k \in DOMAIN log : f = [index |-> k, seq |-> SeqOf(k), msg |-> log[k]]
      BY <2>1 DEF FeedFrames
    <3>2. f.seq = FirstSeq + k - 1 /\ k \in 1 .. MaxSent /\ f.seq + 1 < SeqMod
      BY <3>1, SeqOfExact
    <3> QED
      BY <3>2, NoWrapAssumption, SeqModAssumption
  <2>2. CASE f \in CsrFrames
    BY <2>2, NoWrapAssumption, SeqModAssumption DEF CsrFrames
  <2> QED
    BY <2>1, <2>2
<1>2. (f.seq + 1) % SeqMod = f.seq + 1
  BY <1>1, SeqModAssumption, ModSmall
<1>3. ExpectedStep(SeqIn(f, clear))
  BY DEF Complete, SeqStep
<1>4. SeqIn(f, clear).complete = TRUE /\ SeqIn(f, clear).seq = f.seq
  BY DEF SeqIn
<1> QED
  BY <1>1, <1>2, <1>3, <1>4 DEF ExpectedStep

(* An accepted message is newer than the last one. *)
LEMMA AcceptedIsNewer ==
  ASSUME OrderInv, NEW f \in FeedFrames, NEW clear, ~err_seq_dup(SeqIn(f, clear))
  PROVE  /\ f.index \in 1 .. Len(log) /\ f.index > last
         /\ f.seq = FirstSeq + f.index - 1
<1>1. PICK k \in DOMAIN log : f = [index |-> k, seq |-> SeqOf(k), msg |-> log[k]]
  BY DEF FeedFrames
<1>2. f.index = k /\ f.seq = FirstSeq + k - 1 /\ k \in 1 .. Len(log)
  BY <1>1, SeqOfExact DEF OrderInv
<1>3. ~seen_first \/ ~(f.seq < expected_seq)
  BY DEF err_seq_dup, SeqIn
<1>4. k > last
  BY <1>2, <1>3, NoWrapAssumption DEF OrderInv
<1> QED
  BY <1>2, <1>4

LEMMA CompleteKeepsOrder ==
  ASSUME OrderInv, NEW f \in FeedFrames \cup CsrFrames, NEW clear,
         NEW newCfg, Complete(f, clear, newCfg)
  PROVE  OrderInv' /\ Newer
<1> USE DEF Newer
<1> DEFINE dup == err_seq_dup(SeqIn(f, clear))
<1>1. /\ f.seq \in Nat /\ seen_first'
      /\ expected_seq' = IF dup THEN expected_seq ELSE f.seq + 1
  BY ExpectedMoves
<1>2. last' = IF f.index # 0 /\ ~dup THEN f.index ELSE last
  BY DEF Complete, HistoryStep
<1>3. UNCHANGED log /\ BookStep(BookIn(f, dup))
  BY DEF Complete
<1>4. seen_first' \in BOOLEAN
  BY DEF Complete, SeqStep, ExpectedStep, SeqIn, OrderInv
<1>5. ~dup /\ seen_first => f.seq >= expected_seq
  BY <1>1 DEF err_seq_dup, SeqIn, OrderInv
<1>6. BookIn(f, dup).dup = dup
  BY DEF BookIn
<1>7. dup => UNCHANGED bookVars
  BY <1>3, <1>6 DEF BookStep, msg_applied
<1>8. CASE dup
  BY <1>1, <1>2, <1>3, <1>4, <1>7, <1>8 DEF OrderInv
<1>9. CASE ~dup /\ f \in FeedFrames
  <2>1. f.index \in 1 .. Len(log) /\ f.index > last /\ f.seq = FirstSeq + f.index - 1
    BY <1>9, AcceptedIsNewer
  <2> HIDE DEF dup
  <2>2. last' = f.index /\ expected_seq' = f.seq + 1
    BY <1>1, <1>2, <1>9, <2>1
  <2>3. /\ log' = log /\ last \in Nat /\ Len(log) \in Nat /\ FirstSeq \in Nat
        /\ log \in Seq(Content) /\ Len(log) <= MaxSent
    BY <1>3, NoWrapAssumption DEF OrderInv
  <2>4. last' > last /\ last' # 0 /\ last' \in 0 .. Len(log')
        /\ expected_seq' = FirstSeq + last' /\ expected_seq' \in Nat
    BY <2>1, <2>2, <2>3
  <2>5. last' # 0 => seen_first' /\ expected_seq' >= FirstSeq + last'
    <3>1. expected_seq' >= FirstSeq + last'
      BY <2>4
    <3> QED
      BY <1>1, <3>1
  <2>6. OrderInv'
    BY <1>4, <2>3, <2>4, <2>5 DEF OrderInv
  <2> QED
    BY <2>4, <2>6
<1>10. CASE ~dup /\ f \in CsrFrames
  <2>1. f.index = 0 /\ f.msg = CsrMessage
    BY <1>10 DEF CsrFrames
  <2>2. ~BookIn(f, dup).valid
    <3>1. BookIn(f, dup).valid = (CsrMessage.type \notin {BAD, CSR})
      BY <2>1 DEF BookIn
    <3>2. CsrMessage.type = CSR
      BY DEF CsrMessage
    <3> QED
      BY <3>1, <3>2
  <2>3. UNCHANGED bookVars
    BY <1>3, <2>2 DEF BookStep, msg_applied, filt_slot
  <2> HIDE DEF dup
  <2>4. last' = last /\ expected_seq' = f.seq + 1
    BY <1>1, <1>2, <1>10, <2>1
  <2> QED
    BY <1>1, <1>3, <1>4, <1>5, <2>3, <2>4, NoWrapAssumption DEF OrderInv
<1> QED
  BY <1>8, <1>9, <1>10

LEMMA OrderStep ==
  OrderInv /\ [Next]_vars => OrderInv' /\ Newer
<1> SUFFICES ASSUME OrderInv, [Next]_vars
             PROVE  OrderInv' /\ Newer
  OBVIOUS
<1>1. CASE Receive
  BY <1>1, CompleteKeepsOrder DEF Receive
<1>2. CASE Control
  BY <1>2, CompleteKeepsOrder DEF Control
<1>3. CASE Quiet
  BY <1>3 DEF Quiet, OrderInv, seqVars, histVars, Newer
<1>4. CASE Send
  <2>1. PICK m \in Content : log' = Append(log, m)
    BY <1>4 DEF Send
  <2>2. log' \in Seq(Content) /\ Len(log') = Len(log) + 1 /\ Len(log') <= MaxSent
    BY <1>4, <2>1, NoWrapAssumption DEF Send, OrderInv
  <2> QED
    BY <1>4, <2>2 DEF Send, OrderInv, seqVars, histVars, Newer
<1>5. CASE UNCHANGED vars
  BY <1>5 DEF vars, OrderInv, seqVars, histVars, Newer
<1> QED
  BY <1>1, <1>2, <1>3, <1>4, <1>5 DEF Next

LEMMA OrderInit ==
  Init => OrderInv
<1> SUFFICES ASSUME Init PROVE OrderInv
  OBVIOUS
<1>1. log = <<>> /\ last = 0 /\ expected_seq = 0 /\ seen_first = FALSE
  BY DEF Init, SeqReset
<1>2. <<>> \in Seq(Content) /\ Len(<<>>) = 0
  OBVIOUS
<1>3. log \in Seq(Content) /\ Len(log) = 0
  BY <1>1, <1>2
<1>4. Len(log) <= MaxSent
  BY <1>3, NoWrapAssumption
<1>5. seen_first \in BOOLEAN
  BY <1>1
<1>6. expected_seq \in Nat /\ last = 0
  BY <1>1
<1>7. last \in 0 .. Len(log)
  BY <1>3, <1>6
<1> QED
  BY <1>3, <1>4, <1>5, <1>6, <1>7 DEF OrderInv

(***************************************************************************)
(* Whatever the network repeats or reorders and whatever CSR frames come   *)
(* in between, only a message newer than every one accepted before changes *)
(* the book (FR-11), as long as sequence numbers do not wrap.              *)
(***************************************************************************)
THEOREM Forward == Spec => BookMovesForward
<1>2. OrderInv /\ [Next]_vars => [Newer]_vars
  BY OrderStep
<1>3. OrderInv /\ [Next]_vars => OrderInv'
  BY OrderStep
<1> QED
  BY OrderInit, <1>2, <1>3, PTL DEF Spec, BookMovesForward

-----------------------------------------------------------------------------
(* Type correctness. *)

LEMMA ShiftedIs ==
  ASSUME NEW q \in 0 .. QtyMod - 1, NEW c, c.imb \in {1, 2, 4, 8}
  PROVE  Shifted(q, c) = q * c.imb
<1> DEFINE x == q * c.imb
<1>1. QtyMod \in Nat \ {0} /\ 8 * QtyMod \in Nat \ {0}
  BY WidthAssumption
<1>2. x \in 0 .. (8 * QtyMod) - 1
  <2>1. CASE c.imb = 1 BY <1>1, <2>1
  <2>2. CASE c.imb = 2 BY <1>1, <2>2
  <2>3. CASE c.imb = 4 BY <1>1, <2>3
  <2>4. CASE c.imb = 8 BY <1>1, <2>4
  <2> QED BY <2>1, <2>2, <2>3, <2>4
<1>3. Shifted(q, c) = x % (8 * QtyMod)
  BY DEF Shifted
<1> HIDE DEF x
<1>4. x % (8 * QtyMod) = x
  BY <1>1, <1>2, ModSmall
<1> QED
  BY <1>3, <1>4 DEF x

(* What the signal engine looks at when a frame completes. *)
LEMMA SigInFacts ==
  ASSUME QtyInv, NEW f \in FeedFrames \cup CsrFrames, NEW clear,
         NEW newCfg, Complete(f, clear, newCfg),
         NEW b, b = BookIn(f, err_seq_dup(SeqIn(f, clear))), book_upd_valid(b)
  PROVE  LET s == filt_slot(b)
         IN  /\ s \in Slot /\ f \in FeedFrames
             /\ SigIn(b) = [upd |-> TRUE, slot |-> s, bid |-> bid'[s], ask |-> ask'[s],
                            crossed |-> Crossing(bid'[s], ask'[s]), cfg |-> cfg]
             /\ bid'[s] \in Quote /\ ask'[s] \in Quote
<1>1. msg_applied(b) /\ BookStep(b)
  BY DEF book_upd_valid, Complete
<1>2. b.price \in 0 .. PriceMod - 1 /\ b.qty \in 0 .. QtyMod - 1 /\ b.cfg = cfg
  BY FrameMessage DEF BookIn
<1>3. f \in FeedFrames
  <2>1. ASSUME f \in CsrFrames PROVE FALSE
    <3>1. f.msg = CsrMessage
      BY <2>1 DEF CsrFrames
    <3>2. b.type = CSR
      BY <3>1 DEF BookIn, CsrMessage
    <3> QED
      BY <3>2 DEF book_upd_valid, CSR, QUOTE, CLEAR
  <2> QED
    BY <2>1
<1> DEFINE s == filt_slot(b)
<1>4. s \in Slot
  BY <1>1, SlotFound
<1>5. bid[s] \in Quote /\ ask[s] \in Quote
  BY <1>4 DEF QtyInv
<1>6. next_bid(b) \in Quote /\ next_ask(b) \in Quote
  BY <1>2, <1>5, UpdatedType DEF next_bid, next_ask
<1>7. bid'[s] = next_bid(b) /\ ask'[s] = next_ask(b)
  BY <1>1, <1>4 DEF BookStep, QtyInv
<1> QED
  BY <1>2, <1>3, <1>4, <1>6, <1>7 DEF SigIn, next_crossed

LEMMA NothingSignalled ==
  ASSUME NEW f, NEW clear, NEW newCfg, Complete(f, clear, newCfg),
         ~book_upd_valid(BookIn(f, err_seq_dup(SeqIn(f, clear))))
  PROVE  sig' = NoIntent
BY DEF Complete, SigIn, SignalStep

LEMMA OrderShape ==
  ASSUME NEW in, SignalStep(in), sig' # NoIntent
  PROVE  \/ BuyOk(in) /\ sig' = Order(in.slot, BID, in.ask.price, in.cfg.order_qty)
         \/ SellOk(in) /\ sig' = Order(in.slot, ASK, in.bid.price, in.cfg.order_qty)
BY DEF SignalStep, BID, ASK

Intent == [slot : Slot, side : {BID, ASK},
           price : 0 .. PriceMod - 1, qty : 0 .. QtyMod - 1]

LEMMA CompleteKeepsType ==
  ASSUME TypeOK, QtyInv, OrderInv, NEW f \in FeedFrames \cup CsrFrames,
         NEW clear \in BOOLEAN, NEW newCfg \in Config, Complete(f, clear, newCfg)
  PROVE  TypeOK'
<1> DEFINE dup == err_seq_dup(SeqIn(f, clear))
           b == BookIn(f, dup)
<1>1. QtyInv' /\ OrderInv' /\ UNCHANGED log
  BY CompleteKeepsQty, CompleteKeepsOrder DEF Complete
<1>2. expected_seq' \in 0 .. SeqMod - 1
  <2>1. ExpectedStep(SeqIn(f, clear)) /\ SeqIn(f, clear).seq = f.seq
    BY DEF Complete, SeqStep, SeqIn
  <2>2. f.seq \in Nat
    BY ExpectedMoves
  <2>3. (f.seq + 1) % SeqMod \in 0 .. SeqMod - 1
    BY <2>2, SeqModAssumption
  <2>4. expected_seq \in 0 .. SeqMod - 1
    BY DEF TypeOK
  <2> QED
    BY <2>1, <2>3, <2>4 DEF ExpectedStep
<1>3. /\ seq_gap' \in BOOLEAN /\ resumed' \in BOOLEAN
  BY DEF Complete, SeqStep, GapStep, SeqIn, HistoryStep
<1>4. base' \in 0 .. Len(log)
  <2>1. base' = base \/ (f \in FeedFrames /\ ~dup /\ base' = f.index)
    <3>1. f \in CsrFrames => f.index = 0
      BY DEF CsrFrames
    <3> QED
      BY <3>1 DEF Complete, HistoryStep
  <2>2. f \in FeedFrames /\ ~dup => f.index \in 1 .. Len(log)
    BY AcceptedIsNewer
  <2>3. base \in 0 .. Len(log)
    BY DEF TypeOK
  <2> HIDE DEF dup
  <2> QED
    BY <2>1, <2>2, <2>3
<1>5. sig' \in {NoIntent} \cup Intent
  <2>1. CASE book_upd_valid(b)
    <3> DEFINE in == SigIn(b)
    <3>1. /\ in.slot \in Slot /\ in.bid \in Quote /\ in.ask \in Quote /\ in.cfg = cfg
      BY <2>1, SigInFacts
    <3>2. SignalStep(in)
      BY DEF Complete
    <3> HIDE DEF in
    <3>3. /\ in.bid.price \in 0 .. PriceMod - 1 /\ in.ask.price \in 0 .. PriceMod - 1
      BY <3>1 DEF Quote
    <3>4. cfg.order_qty \in 0 .. QtyMod - 1
      BY OrderQtyAssumption DEF QtyInv
    <3> QED
      BY <3>1, <3>2, <3>3, <3>4, OrderShape DEF Order, Intent
  <2>2. CASE ~book_upd_valid(b)
    BY <2>2, NothingSignalled
  <2> QED
    BY <2>1, <2>2
<1> QED
  BY <1>1, <1>2, <1>3, <1>4, <1>5 DEF TypeOK, QtyInv, OrderInv, NoConflict, Intent

FeedInv == TypeOK /\ QtyInv /\ OrderInv

LEMMA FeedStep ==
  FeedInv /\ [Next]_vars => FeedInv'
<1> SUFFICES ASSUME FeedInv, [Next]_vars
             PROVE  TypeOK'
  BY QtyInductive, OrderStep DEF FeedInv
<1> USE DEF FeedInv
<1>1. CASE Receive
  BY <1>1, CompleteKeepsType DEF Receive, TypeOK
<1>2. CASE Control
  BY <1>2, CompleteKeepsType DEF Control
<1>3. CASE Quiet
  BY <1>3 DEF Quiet, TypeOK, seqVars, bookVars, histVars
<1>4. CASE Send
  <2>1. PICK m \in Content : log' = Append(log, m)
    BY <1>4 DEF Send
  <2>2. log' \in Seq(Content) /\ Len(log') = Len(log) + 1 /\ Len(log') <= MaxSent
    BY <1>4, <2>1, NoWrapAssumption DEF Send, OrderInv
  <2>3. base' \in 0 .. Len(log') /\ last' \in 0 .. Len(log')
    BY <1>4, <2>2 DEF Send, TypeOK, histVars
  <2> QED
    BY <1>4, <2>2, <2>3 DEF Send, TypeOK, seqVars, bookVars, histVars
<1>5. CASE UNCHANGED vars
  BY <1>5 DEF vars, TypeOK, seqVars, bookVars, histVars
<1> QED
  BY <1>1, <1>2, <1>3, <1>4, <1>5 DEF Next

LEMMA FeedInit ==
  Init => FeedInv
<1> SUFFICES ASSUME Init PROVE TypeOK
  BY QtyInit, OrderInit DEF FeedInv
<1>1. QtyInv /\ OrderInv
  BY QtyInit, OrderInit
<1>2. /\ expected_seq = 0 /\ seen_first = FALSE /\ seq_gap = FALSE
      /\ base = 0 /\ last = 0 /\ resumed = FALSE
      /\ cnt_err_signal_conflict = 0 /\ sig = NoIntent /\ log = <<>>
  BY DEF Init, SeqReset, SigReset
<1>3. expected_seq \in 0 .. SeqMod - 1
  BY <1>2, SeqModAssumption
<1>4. Len(log) = 0
  BY <1>2
<1>5. base \in 0 .. Len(log) /\ last \in 0 .. Len(log)
  BY <1>2, <1>4
<1>6. seen_first \in BOOLEAN /\ seq_gap \in BOOLEAN /\ resumed \in BOOLEAN
  BY <1>2, Zenon
<1>7. cnt_err_signal_conflict \in 0 .. 1
  BY <1>2
<1> QED
  BY <1>1, <1>2, <1>3, <1>5, <1>6, <1>7 DEF TypeOK, QtyInv, OrderInv

LEMMA FeedSafe == Spec => []FeedInv
BY FeedInit, FeedStep, PTL DEF Spec

(* Every variable of the feed path keeps its type, the registered intent   *)
(* and the sender's log included.                                          *)
THEOREM TypeSafe == Spec => []TypeOK
<1>1. FeedInv => TypeOK
  BY DEF FeedInv
<1> QED
  BY <1>1, FeedSafe, PTL

-----------------------------------------------------------------------------
(* Every intent is justified. *)

(* What an order intent says of the slot the engine looked at. *)
LEMMA RuleJustifies ==
  ASSUME NEW c \in Config, NEW s, NEW b \in Quote, NEW a \in Quote,
         SignalStep([upd |-> TRUE, slot |-> s, bid |-> b, ask |-> a,
                     crossed |-> Crossing(b, a), cfg |-> c]),
         sig' # NoIntent
  PROVE  /\ sig'.slot = s
         /\ b.valid /\ a.valid /\ b.price < a.price
         /\ a.price - b.price >= c.min_spread
         /\ sig'.side = BID => b.qty > a.qty * c.imb /\ sig'.price = a.price
         /\ sig'.side = ASK => a.qty > b.qty * c.imb /\ sig'.price = b.price
<1> DEFINE in == [upd |-> TRUE, slot |-> s, bid |-> b, ask |-> a,
                  crossed |-> Crossing(b, a), cfg |-> c]
<1>1. /\ in.slot = s /\ in.bid = b /\ in.ask = a /\ in.cfg = c
      /\ in.crossed = Crossing(b, a)
  OBVIOUS
<1>2. SignalStep(in)
  OBVIOUS
<1> HIDE DEF in
<1>3. \/ BuyOk(in) /\ sig' = Order(s, BID, a.price, c.order_qty)
      \/ SellOk(in) /\ sig' = Order(s, ASK, b.price, c.order_qty)
  BY <1>1, <1>2, OrderShape
<1>4. BaseOk(in)
  BY <1>3 DEF BuyOk, SellOk
<1>5. b.valid /\ a.valid /\ ~(b.price >= a.price)
  BY <1>1, <1>4 DEF BaseOk, Crossing
<1>6. b.price \in 0 .. PriceMod - 1 /\ a.price \in 0 .. PriceMod - 1
      /\ b.qty \in 0 .. QtyMod - 1 /\ a.qty \in 0 .. QtyMod - 1
  BY DEF Quote
<1>7. b.price < a.price
  BY <1>5, <1>6, WidthAssumption
<1>8. a.price - b.price >= c.min_spread
  <2>1. (a.price - b.price) % PriceMod >= c.min_spread
    BY <1>1, <1>4 DEF BaseOk, SpreadOk
  <2>2. a.price - b.price \in 0 .. PriceMod - 1
    BY <1>6, <1>7, WidthAssumption
  <2>3. (a.price - b.price) % PriceMod = a.price - b.price
    BY <2>2, ModSmall, WidthAssumption
  <2> QED
    BY <2>1, <2>3
<1>9. Shifted(a.qty, c) = a.qty * c.imb /\ Shifted(b.qty, c) = b.qty * c.imb
  BY <1>6, ShiftedIs, ImbAssumption
<1>10. CASE BuyOk(in) /\ sig' = Order(s, BID, a.price, c.order_qty)
  <2>1. b.qty > a.qty * c.imb
    BY <1>1, <1>9, <1>10 DEF BuyOk
  <2>2. sig'.slot = s /\ sig'.side = BID /\ sig'.price = a.price
    BY <1>10 DEF Order
  <2> QED
    BY <1>5, <1>7, <1>8, <2>1, <2>2 DEF BID, ASK
<1>11. CASE SellOk(in) /\ sig' = Order(s, ASK, b.price, c.order_qty)
  <2>1. a.qty > b.qty * c.imb
    BY <1>1, <1>9, <1>11 DEF SellOk
  <2>2. sig'.slot = s /\ sig'.side = ASK /\ sig'.price = b.price
    BY <1>11 DEF Order
  <2> QED
    BY <1>5, <1>7, <1>8, <2>1, <2>2 DEF BID, ASK
<1> QED
  BY <1>3, <1>10, <1>11

LEMMA JustifiedStep ==
  FeedInv /\ IntentJustified /\ [Next]_vars => IntentJustified'
<1> SUFFICES ASSUME FeedInv, IntentJustified, [Next]_vars
             PROVE  IntentJustified'
  OBVIOUS
<1>1. ASSUME NEW f \in FeedFrames \cup CsrFrames, NEW clear \in BOOLEAN,
             NEW newCfg \in Config, Complete(f, clear, newCfg),
             f \in FeedFrames => newCfg = cfg
      PROVE  IntentJustified'
  <2> DEFINE b == BookIn(f, err_seq_dup(SeqIn(f, clear)))
             s == filt_slot(b)
  <2>1. CASE book_upd_valid(b) /\ sig' # NoIntent
    <3>1. /\ s \in Slot /\ f \in FeedFrames
          /\ SigIn(b) = [upd |-> TRUE, slot |-> s, bid |-> bid'[s], ask |-> ask'[s],
                         crossed |-> Crossing(bid'[s], ask'[s]), cfg |-> cfg]
          /\ bid'[s] \in Quote /\ ask'[s] \in Quote
      BY <1>1, <2>1, SigInFacts DEF FeedInv
    <3>2. SignalStep(SigIn(b)) /\ cfg' = cfg
      BY <1>1, <3>1 DEF Complete
    <3>3. cfg \in Config
      BY DEF FeedInv, QtyInv
    <3> HIDE DEF s, b
    <3> DEFINE y == bid'[s]
               z == ask'[s]
    <3>4. SignalStep([upd |-> TRUE, slot |-> s, bid |-> y, ask |-> z,
                      crossed |-> Crossing(y, z), cfg |-> cfg])
      BY <3>1, <3>2
    <3>5. y \in Quote /\ z \in Quote
      BY <3>1
    <3> HIDE DEF y, z
    <3>6. /\ sig'.slot = s
          /\ y.valid /\ z.valid /\ y.price < z.price
          /\ z.price - y.price >= cfg.min_spread
          /\ sig'.side = BID => y.qty > z.qty * cfg.imb /\ sig'.price = z.price
          /\ sig'.side = ASK => z.qty > y.qty * cfg.imb /\ sig'.price = y.price
      BY <2>1, <3>3, <3>4, <3>5, RuleJustifies
    <3> QED
      BY <3>2, <3>6 DEF IntentJustified, y, z
  <2>2. CASE ~book_upd_valid(b)
    BY <1>1, <2>2, NothingSignalled DEF IntentJustified
  <2>3. CASE sig' = NoIntent
    BY <2>3 DEF IntentJustified
  <2> QED
    BY <2>1, <2>2, <2>3
<1>2. CASE Receive
  <2>1. PICK f \in FeedFrames : Complete(f, FALSE, cfg)
    BY <1>2 DEF Receive
  <2>2. cfg \in Config
    BY DEF FeedInv, QtyInv
  <2> QED
    BY <1>1, <2>1, <2>2
<1>3. CASE Control
  <2>1. PICK f \in CsrFrames, clear \in BOOLEAN, newCfg \in Config : Complete(f, clear, newCfg)
    BY <1>3 DEF Control
  <2>2. f \notin FeedFrames
    <3>1. f.index = 0
      BY DEF CsrFrames
    <3>2. ASSUME f \in FeedFrames PROVE FALSE
      <4>1. PICK k \in DOMAIN log : f = [index |-> k, seq |-> SeqOf(k), msg |-> log[k]]
        BY <3>2 DEF FeedFrames
      <4>2. k \in 1 .. MaxSent
        BY <4>1, SeqOfExact DEF FeedInv
      <4> QED
        BY <3>1, <4>1, <4>2
    <3> QED
      BY <3>2
  <2> QED
    BY <1>1, <2>1, <2>2
<1>4. CASE Quiet
  BY <1>4 DEF Quiet, IntentJustified
<1>5. CASE Send
  BY <1>5 DEF Send, bookVars, IntentJustified
<1>6. CASE UNCHANGED vars
  BY <1>6 DEF vars, bookVars, IntentJustified
<1> QED
  BY <1>2, <1>3, <1>4, <1>5, <1>6 DEF Next

(***************************************************************************)
(* An order intent is always justified by the book it was computed from:   *)
(* both sides valid, not crossed, the spread wide enough, the imbalance on *)
(* its side and the price the opposite side's, with the true difference    *)
(* and the true product: neither the spread nor the shift of               *)
(* signal_engine.v wraps (FR-35, FR-36, FR-38, D15, D23).                  *)
(***************************************************************************)
THEOREM IntentSafe == Spec => []IntentJustified
<1>1. Init => IntentJustified
  BY DEF Init, SigReset, IntentJustified
<1>2. FeedInv /\ IntentJustified /\ [Next]_vars => IntentJustified'
  BY JustifiedStep
<1> QED
  BY <1>1, <1>2, FeedSafe, PTL DEF Spec

-----------------------------------------------------------------------------
(* The book is current. *)

(* No CSR write moves a slot to another symbol or switches it on or off. *)
Unremapped == \A c, d \in Config : c.symbol = d.symbol /\ c.symbol_en = d.symbol_en

(* No two enabled slots watch the same symbol. *)
OneSlotEach ==
  \A c \in Config : \A r, s \in Slot :
    c.symbol_en[r] /\ c.symbol_en[s] /\ c.symbol[r] = c.symbol[s] => r = s

(* Bytes 12 to 15 of a CSR frame read as an old sequence number. *)
CsrBehind == \A n \in CsrSeq : n < FirstSeq

(* What the sender's message k says of a side it concerns. *)
Says(q, k) ==
  IF log[k].type = QUOTE /\ log[k].qty # 0
  THEN q.valid /\ q.price = log[k].price /\ q.qty = log[k].qty
  ELSE ~q.valid

(* The accepted messages are exactly base .. last as long as no gap is     *)
(* flagged, since the expectation is right behind the last of them.        *)
Tracking ==
  /\ base = 0 <=> last = 0
  /\ base <= last
  /\ base # 0 => seen_first /\ expected_seq = FirstSeq + last
  /\ base = 0 => \A s \in Slot : ~bid[s].valid /\ ~ask[s].valid

CurrentInv == Tracking /\ BookCurrent

(* A quote or a clear reaches its slot, and changes the sides it concerns. *)
LEMMA MessageApplies ==
  ASSUME FeedInv, OneSlotEach, NEW k \in DOMAIN log, NEW clear, NEW newCfg,
         NEW f, f = [index |-> k, seq |-> SeqOf(k), msg |-> log[k]],
         ~err_seq_dup(SeqIn(f, clear)), Complete(f, clear, newCfg),
         NEW s \in Slot, cfg.symbol_en[s]
  PROVE  /\ IF Concerns(k, s, BID) THEN Says(bid'[s], k) ELSE bid'[s] = bid[s]
         /\ IF Concerns(k, s, ASK) THEN Says(ask'[s], k) ELSE ask'[s] = ask[s]
<1> DEFINE b == BookIn(f, err_seq_dup(SeqIn(f, clear)))
<1>1. /\ b.valid = (log[k].type \notin {BAD, CSR}) /\ b.type = log[k].type
      /\ b.symbol = log[k].symbol /\ b.side = log[k].side /\ b.price = log[k].price
      /\ b.qty = log[k].qty /\ b.dup = FALSE /\ b.cfg = cfg
  BY DEF BookIn
<1>2. BookStep(b)
  BY DEF Complete
<1> HIDE DEF b
<1>3. cfg \in Config /\ bid \in [Slot -> Quote] /\ ask \in [Slot -> Quote]
  BY DEF FeedInv, QtyInv
<1>4. bid[s] \in Quote /\ ask[s] \in Quote
  BY <1>3
<1>5. CASE msg_applied(b) /\ filt_slot(b) = s
  <2>1. Matches(s, b)
    <3> DEFINE M == {r \in Slot : Matches(r, b)}
    <3>1. M # {} /\ filt_slot(b) = CHOOSE r \in Slot : Matches(r, b) /\ \A q \in Slot : Matches(q, b) => r <= q
      BY <1>5 DEF msg_applied, filt_slot
    <3>2. \E r \in M : \A q \in M : r <= q
      BY <3>1, SlotAssumption
    <3>3. \E r \in Slot : Matches(r, b) /\ \A q \in Slot : Matches(q, b) => r <= q
      BY <3>2
    <3> QED
      BY <1>5, <3>1, <3>3
  <2>2. log[k].symbol = cfg.symbol[s]
    BY <1>1, <2>1 DEF Matches
  <2>3. bid'[s] = next_bid(b) /\ ask'[s] = next_ask(b)
    BY <1>2, <1>3, <1>5 DEF BookStep
  <2>4. bid'[s] = Updated(bid[s], BID, b) /\ ask'[s] = Updated(ask[s], ASK, b)
    BY <1>5, <2>3 DEF next_bid, next_ask
  <2>5. ASSUME NEW o \in Quote, NEW n, NEW side, n = Updated(o, side, b)
        PROVE  IF Concerns(k, s, side) THEN Says(n, k) ELSE n = o
    <3>1. CASE b.type = QUOTE /\ b.side = side
      <4>1. n = [price |-> IF b.qty # 0 THEN b.price ELSE o.price,
                 qty |-> b.qty, valid |-> b.qty # 0]
        BY <2>5, <3>1 DEF Updated
      <4>2. Concerns(k, s, side)
        BY <1>1, <2>2, <3>1 DEF Concerns
      <4> QED
        BY <1>1, <3>1, <4>1, <4>2 DEF Says
    <3>2. CASE b.type = CLEAR
      <4>1. n = [o EXCEPT !.valid = FALSE]
        BY <2>5, <3>2 DEF Updated, QUOTE, CLEAR
      <4>2. ~n.valid
        BY <4>1 DEF Quote
      <4>3. Concerns(k, s, side)
        BY <1>1, <2>2, <3>2 DEF Concerns
      <4> QED
        BY <1>1, <3>2, <4>2, <4>3 DEF Says, QUOTE, CLEAR
    <3>3. CASE b.type # CLEAR /\ ~(b.type = QUOTE /\ b.side = side)
      BY <1>1, <2>5, <3>3 DEF Updated, Concerns
    <3> QED
      BY <3>1, <3>2, <3>3
  <2> QED
    BY <1>4, <2>4, <2>5
<1>6. CASE ~(msg_applied(b) /\ filt_slot(b) = s)
  <2>1. bid'[s] = bid[s] /\ ask'[s] = ask[s]
    <3>1. CASE ~msg_applied(b)
      BY <1>2, <3>1 DEF BookStep, bookVars
    <3>2. CASE msg_applied(b) /\ filt_slot(b) # s
      BY <1>2, <1>3, <3>2 DEF BookStep
    <3> QED
      BY <1>6, <3>1, <3>2
  <2>2. ASSUME NEW side, Concerns(k, s, side) PROVE FALSE
    <3>1. b.valid /\ Matches(s, b)
      BY <1>1, <2>2 DEF Concerns, Matches, CLEAR, QUOTE, BAD, CSR
    <3>2. filt_slot(b) = CHOOSE r \in Slot : Matches(r, b) /\ \A q \in Slot : Matches(q, b) => r <= q
      BY <3>1 DEF filt_slot
    <3> DEFINE M == {r \in Slot : Matches(r, b)}
    <3>3. \E r \in M : \A q \in M : r <= q
      BY <3>1, SlotAssumption
    <3>4. \E r \in Slot : Matches(r, b) /\ \A q \in Slot : Matches(q, b) => r <= q
      BY <3>3
    <3>5. filt_slot(b) \in Slot /\ Matches(filt_slot(b), b)
      BY <3>2, <3>4
    <3>6. filt_slot(b) = s
      BY <1>1, <1>3, <3>1, <3>5 DEF OneSlotEach, Matches
    <3>7. msg_applied(b)
      BY <1>1, <3>5, SlotAssumption DEF msg_applied
    <3> QED
      BY <1>6, <3>6, <3>7
  <2> QED
    BY <2>1, <2>2
<1> QED
  BY <1>5, <1>6

(* Which message has the last word, once message k is the last. *)
LEMMA LastWordMoves ==
  ASSUME NEW s, NEW side, NEW k \in Nat, k # 0, base \in Nat, last \in Nat,
         last' = k, base' = IF base = 0 THEN k ELSE base,
         base # 0 => base <= last /\ k = last + 1,
         UNCHANGED log, cfg'.symbol = cfg.symbol
  PROVE  LastWord(s, side)' = IF Concerns(k, s, side) THEN {k}
                              ELSE IF base = 0 THEN {} ELSE LastWord(s, side)
<1>1. \A j : Concerns(j, s, side)' <=> Concerns(j, s, side)
  BY DEF Concerns
<1> DEFINE C(j) == Concerns(j, s, side)
<1>2. LastWord(s, side)' = {i \in base' .. last' : base' # 0 /\ C(i) /\ \A j \in i + 1 .. last' : ~C(j)}
  BY <1>1 DEF LastWord
<1>3. LastWord(s, side) = {i \in base .. last : base # 0 /\ C(i) /\ \A j \in i + 1 .. last : ~C(j)}
  BY DEF LastWord
<1> HIDE DEF C
<1>4. CASE base = 0
  <2>1. base' = k /\ last' = k
    BY <1>4
  <2>2. LastWord(s, side)' = {i \in k .. k : C(i) /\ \A j \in i + 1 .. k : ~C(j)}
    BY <1>2, <2>1
  <2>3. \A i \in k .. k : i = k /\ \A j \in i + 1 .. k : FALSE
    OBVIOUS
  <2>4. LastWord(s, side)' = IF C(k) THEN {k} ELSE {}
    BY <2>2, <2>3
  <2> QED
    BY <1>4, <2>4 DEF C
<1>5. CASE base # 0
  <2>1. base' = base /\ last' = last + 1 /\ k = last + 1 /\ base <= last
    BY <1>5
  <2>2. LastWord(s, side)' = {i \in base .. last + 1 : C(i) /\ \A j \in i + 1 .. last + 1 : ~C(j)}
    BY <1>2, <1>5, <2>1
  <2>3. LastWord(s, side) = {i \in base .. last : C(i) /\ \A j \in i + 1 .. last : ~C(j)}
    BY <1>3, <1>5
  <2>4. CASE C(k)
    <3>1. \A i \in base .. last + 1 : (\A j \in i + 1 .. last + 1 : ~C(j)) => i = k
      BY <2>1, <2>4
    <3>2. k \in base .. last + 1 /\ \A j \in k + 1 .. last + 1 : ~C(j)
      BY <2>1
    <3>3. LastWord(s, side)' = {k}
      BY <2>2, <2>4, <3>1, <3>2
    <3> QED
      BY <2>4, <3>3 DEF C
  <2>5. CASE ~C(k)
    <3>1. \A i \in base .. last + 1 :
            (C(i) /\ \A j \in i + 1 .. last + 1 : ~C(j))
              <=> (i \in base .. last /\ C(i) /\ \A j \in i + 1 .. last : ~C(j))
      BY <2>1, <2>5
    <3>2. base .. last \subseteq base .. last + 1
      OBVIOUS
    <3>3. LastWord(s, side)' = LastWord(s, side)
      BY <2>2, <2>3, <3>1, <3>2
    <3> QED
      BY <1>5, <2>5, <3>3 DEF C
  <2> QED
    BY <2>4, <2>5
<1> QED
  BY <1>4, <1>5

(* The side of slot s shows the sender's book again after message k. *)
LEMMA ShowsMoves ==
  ASSUME NEW s, NEW side, NEW k \in Nat, k # 0, base \in Nat, last \in Nat,
         last' = k, base' = IF base = 0 THEN k ELSE base,
         base # 0 => base <= last /\ k = last + 1,
         UNCHANGED log, cfg'.symbol = cfg.symbol, NEW n, NEW o,
         IF Concerns(k, s, side) THEN Says(n, k) ELSE n = o,
         IF base = 0 THEN ~o.valid ELSE Shows(o, s, side)
  PROVE  /\ LastWord(s, side)' = {} => ~n.valid
         /\ \A j \in LastWord(s, side)' : Says(n, j)
<1>1. LastWord(s, side)' = IF Concerns(k, s, side) THEN {k}
                           ELSE IF base = 0 THEN {} ELSE LastWord(s, side)
  BY LastWordMoves
<1>2. CASE Concerns(k, s, side)
  BY <1>1, <1>2
<1>3. CASE ~Concerns(k, s, side) /\ base = 0
  BY <1>1, <1>3
<1>4. CASE ~Concerns(k, s, side) /\ base # 0
  BY <1>1, <1>4 DEF Shows, Says
<1> QED
  BY <1>2, <1>3, <1>4

LEMMA ShowsSame ==
  ASSUME NEW s, NEW side, UNCHANGED <<log, base, last>>, cfg'.symbol = cfg.symbol
  PROVE  LastWord(s, side)' = LastWord(s, side)
BY DEF LastWord, Concerns

(* A duplicate, and any CSR frame: no accepted message, the same book. *)
LEMMA NothingAccepted ==
  ASSUME FeedInv, CurrentInv, Unremapped, CsrBehind,
         NEW f \in FeedFrames \cup CsrFrames, NEW clear \in BOOLEAN,
         NEW newCfg \in Config, Complete(f, clear, newCfg),
         f \in CsrFrames \/ err_seq_dup(SeqIn(f, clear))
  PROVE  CurrentInv'
<1> DEFINE dup == err_seq_dup(SeqIn(f, clear))
<1>1. /\ SeqStep(SeqIn(f, clear)) /\ HistoryStep(f, clear) /\ UNCHANGED log
      /\ BookStep(BookIn(f, dup)) /\ cfg' = newCfg
  BY DEF Complete
<1>2. cfg'.symbol = cfg.symbol /\ cfg'.symbol_en = cfg.symbol_en
  BY <1>1 DEF Unremapped, FeedInv, QtyInv
<1>3. f \in CsrFrames => f.index = 0 /\ f.msg = CsrMessage /\ f.seq \in CsrSeq
  BY DEF CsrFrames
<1>4. UNCHANGED <<base, last>>
  BY <1>1, <1>3 DEF HistoryStep
<1>5. UNCHANGED <<bid, ask>>
  <2>1. CASE dup
    <3>1. BookIn(f, dup).dup = TRUE
      BY <2>1 DEF BookIn
    <3> QED
      BY <1>1, <3>1 DEF BookStep, msg_applied, bookVars
  <2>2. CASE f \in CsrFrames
    <3>1. BookIn(f, dup).valid = (CsrMessage.type \notin {BAD, CSR})
      BY <1>3, <2>2 DEF BookIn
    <3>2. ~BookIn(f, dup).valid
      BY <3>1 DEF CsrMessage
    <3> QED
      BY <1>1, <3>2 DEF BookStep, msg_applied, filt_slot, bookVars
  <2> QED
    BY <2>1, <2>2
<1>6. base # 0 => dup
  <2>1. ASSUME base # 0, f \in CsrFrames PROVE dup
    <3>1. seen_first /\ expected_seq = FirstSeq + last /\ f.seq < FirstSeq
      BY <1>3, <2>1 DEF CurrentInv, Tracking, CsrBehind
    <3>2. f.seq \in Nat /\ last \in Nat
      BY ExpectedMoves DEF FeedInv, OrderInv
    <3>3. f.seq < expected_seq
      BY <3>1, <3>2, NoWrapAssumption
    <3> QED
      BY <3>1, <3>3 DEF err_seq_dup, SeqIn
  <2> QED
    BY <2>1
<1>7. base # 0 => seen_first' /\ expected_seq' = FirstSeq + last'
  BY <1>1, <1>4, <1>6 DEF SeqStep, ExpectedStep, CurrentInv, Tracking
<1>8. Tracking'
  BY <1>4, <1>5, <1>7 DEF CurrentInv, Tracking
<1>9. BookCurrent'
  <2> SUFFICES ASSUME ~seq_gap', ~resumed', NEW s \in Slot, cfg.symbol_en[s]
               PROVE  Shows(bid[s], s, BID)' /\ Shows(ask[s], s, ASK)'
    BY <1>2 DEF BookCurrent
  <2>1. ~resumed /\ ~clear /\ ~f.msg.snapshot
    BY <1>1 DEF HistoryStep
  <2>2. ~seq_gap
    BY <1>1, <2>1 DEF SeqStep, GapStep, SeqIn
  <2>3. Shows(bid[s], s, BID) /\ Shows(ask[s], s, ASK)
    BY <2>1, <2>2 DEF CurrentInv, BookCurrent
  <2>4. LastWord(s, BID)' = LastWord(s, BID) /\ LastWord(s, ASK)' = LastWord(s, ASK)
    BY <1>1, <1>2, <1>4, ShowsSame
  <2> QED
    BY <1>1, <1>5, <2>3, <2>4 DEF Shows
<1> QED
  BY <1>8, <1>9 DEF CurrentInv

(* A message newer than every one before. *)
LEMMA MessageAccepted ==
  ASSUME FeedInv, CurrentInv, OneSlotEach, NEW f \in FeedFrames,
         Complete(f, FALSE, cfg), ~err_seq_dup(SeqIn(f, FALSE))
  PROVE  CurrentInv'
<1>1. PICK k \in DOMAIN log : f = [index |-> k, seq |-> SeqOf(k), msg |-> log[k]]
  BY DEF FeedFrames
<1>2. /\ k \in 1 .. Len(log) /\ k > last /\ f.seq = FirstSeq + k - 1 /\ f.index = k
  BY <1>1, AcceptedIsNewer DEF FeedInv
<1>3. /\ SeqStep(SeqIn(f, FALSE)) /\ HistoryStep(f, FALSE) /\ UNCHANGED log /\ cfg' = cfg
  BY DEF Complete
<1>4. base \in Nat /\ last \in Nat /\ k \in Nat /\ k # 0 /\ expected_seq \in Nat
  BY <1>2 DEF FeedInv, TypeOK, OrderInv
<1>5. last' = k /\ base' = IF base = 0 THEN k ELSE base
  BY <1>2, <1>3, <1>4 DEF HistoryStep
<1>6. seen_first' /\ expected_seq' = FirstSeq + k
  <2>1. seen_first' /\ expected_seq' = f.seq + 1
    BY ExpectedMoves DEF FeedInv
  <2> QED
    BY <1>2, <1>4, <2>1, NoWrapAssumption
<1>7. Tracking'
  BY <1>2, <1>4, <1>5, <1>6 DEF CurrentInv, Tracking
<1>8. BookCurrent'
  <2> SUFFICES ASSUME ~seq_gap', ~resumed', NEW s \in Slot, cfg.symbol_en[s]
               PROVE  Shows(bid[s], s, BID)' /\ Shows(ask[s], s, ASK)'
    BY <1>3 DEF BookCurrent
  <2>1. ~resumed /\ ~f.msg.snapshot
    BY <1>3 DEF HistoryStep
  <2>2. ~seq_gap /\ ~seq_gap_pulse(SeqIn(f, FALSE))
    BY <1>3, <2>1 DEF SeqStep, GapStep, SeqIn
  <2>3. base # 0 => base <= last /\ k = last + 1
    <3> SUFFICES ASSUME base # 0 PROVE base <= last /\ k = last + 1
      OBVIOUS
    <3>1. seen_first /\ expected_seq = FirstSeq + last /\ base <= last
      BY DEF CurrentInv, Tracking
    <3>2. ~(f.seq > expected_seq)
      BY <2>2, <3>1 DEF seq_gap_pulse, SeqIn
    <3> QED
      BY <1>2, <1>4, <3>1, <3>2, NoWrapAssumption
  <2>4. /\ IF Concerns(k, s, BID) THEN Says(bid'[s], k) ELSE bid'[s] = bid[s]
        /\ IF Concerns(k, s, ASK) THEN Says(ask'[s], k) ELSE ask'[s] = ask[s]
    BY <1>1, MessageApplies
  <2>5. /\ IF base = 0 THEN ~bid[s].valid ELSE Shows(bid[s], s, BID)
        /\ IF base = 0 THEN ~ask[s].valid ELSE Shows(ask[s], s, ASK)
    BY <2>1, <2>2 DEF CurrentInv, Tracking, BookCurrent
  <2>6. /\ LastWord(s, BID)' = {} => ~bid'[s].valid
        /\ \A j \in LastWord(s, BID)' : Says(bid'[s], j)
    BY <1>3, <1>4, <1>5, <2>3, <2>4, <2>5, ShowsMoves
  <2>7. /\ LastWord(s, ASK)' = {} => ~ask'[s].valid
        /\ \A j \in LastWord(s, ASK)' : Says(ask'[s], j)
    BY <1>3, <1>4, <1>5, <2>3, <2>4, <2>5, ShowsMoves
  <2> QED
    BY <1>3, <2>6, <2>7 DEF Shows, Says
<1> QED
  BY <1>7, <1>8 DEF CurrentInv

(* A message sent changes nothing that has been accepted. *)
LEMMA SentIsLater ==
  ASSUME FeedInv, CurrentInv, Send PROVE CurrentInv'
<1>1. PICK m \in Content : log' = Append(log, m)
  BY DEF Send
<1>2. UNCHANGED <<expected_seq, seen_first, seq_gap, bid, ask, cfg, base, last, resumed>>
  BY DEF Send, seqVars, bookVars, histVars
<1>3. log \in Seq(Content) /\ last \in 0 .. Len(log) /\ base \in 0 .. Len(log)
  BY DEF FeedInv, TypeOK
<1>4. \A k \in 1 .. Len(log) : log'[k] = log[k]
  BY <1>1, <1>3
<1>5. base # 0 => \A k \in base .. last : log'[k] = log[k]
  BY <1>3, <1>4
<1>6. ASSUME NEW s, NEW side PROVE LastWord(s, side)' = LastWord(s, side)
  <2>1. base # 0 => \A k \in base .. last : Concerns(k, s, side)' <=> Concerns(k, s, side)
    BY <1>2, <1>5 DEF Concerns
  <2>2. CASE base # 0
    <3>1. \A i \in base .. last : \A j \in i + 1 .. last : j \in base .. last
      BY <1>3
    <3> QED
      BY <1>2, <2>1, <2>2, <3>1 DEF LastWord
  <2>3. CASE base = 0
    BY <1>2, <2>3 DEF LastWord
  <2> QED
    BY <2>2, <2>3
<1>7. ASSUME NEW s, NEW side PROVE \A k \in LastWord(s, side) : log'[k] = log[k]
  BY <1>5 DEF LastWord
<1>8. Tracking'
  BY <1>2 DEF CurrentInv, Tracking
<1>9. BookCurrent'
  <2> SUFFICES ASSUME ~seq_gap, ~resumed, NEW s \in Slot, cfg.symbol_en[s]
               PROVE  Shows(bid[s], s, BID)' /\ Shows(ask[s], s, ASK)'
    BY <1>2 DEF BookCurrent
  <2>1. Shows(bid[s], s, BID) /\ Shows(ask[s], s, ASK)
    BY DEF CurrentInv, BookCurrent
  <2> QED
    BY <1>2, <1>6, <1>7, <2>1 DEF Shows
<1> QED
  BY <1>8, <1>9 DEF CurrentInv

LEMMA CurrentStep ==
  ASSUME Unremapped, OneSlotEach, CsrBehind, FeedInv, CurrentInv, [Next]_vars
  PROVE  CurrentInv'
<1>1. CASE Receive
  <2>1. PICK f \in FeedFrames : Complete(f, FALSE, cfg)
    BY <1>1 DEF Receive
  <2>2. cfg \in Config
    BY DEF FeedInv, QtyInv
  <2>3. CASE err_seq_dup(SeqIn(f, FALSE))
    BY <2>1, <2>2, <2>3, NothingAccepted
  <2>4. CASE ~err_seq_dup(SeqIn(f, FALSE))
    BY <2>1, <2>4, MessageAccepted
  <2> QED
    BY <2>3, <2>4
<1>2. CASE Control
  BY <1>2, NothingAccepted DEF Control
<1>3. CASE Quiet
  BY <1>3, ShowsSame DEF Quiet, CurrentInv, Tracking, BookCurrent, Shows, seqVars, bookVars, histVars
<1>4. CASE Send
  BY <1>4, SentIsLater
<1>5. CASE UNCHANGED vars
  BY <1>5, ShowsSame DEF vars, CurrentInv, Tracking, BookCurrent, Shows, seqVars, bookVars, histVars
<1> QED
  BY <1>1, <1>2, <1>3, <1>4, <1>5 DEF Next

(***************************************************************************)
(* As long as no gap is flagged the book of every watched symbol is the    *)
(* one the sender's messages describe, whatever the network loses, repeats *)
(* and reorders (FR-10 to FR-16).  It needs slots that keep their symbols, *)
(* one slot per symbol, and CSR frames that look old to the sequence       *)
(* monitor: one that looks new takes the place of a message.               *)
(***************************************************************************)
THEOREM CurrentSafe ==
  ASSUME Unremapped, OneSlotEach, CsrBehind
  PROVE  Spec => []BookCurrent
<1>1. Init => CurrentInv
  <2> SUFFICES ASSUME Init PROVE CurrentInv
    OBVIOUS
  <2>1. base = 0 /\ last = 0
    BY DEF Init
  <2>2. \A s \in Slot : bid[s] = NoQuote /\ ask[s] = NoQuote
    BY DEF Init, BookReset
  <2>3. \A s \in Slot : ~bid[s].valid /\ ~ask[s].valid
    BY <2>2 DEF NoQuote
  <2>4. \A s, side : LastWord(s, side) = {}
    BY <2>1 DEF LastWord
  <2> QED
    BY <2>1, <2>3, <2>4 DEF CurrentInv, Tracking, BookCurrent, Shows
<1>2. FeedInv /\ CurrentInv /\ [Next]_vars => CurrentInv'
  BY CurrentStep
<1>3. CurrentInv => BookCurrent
  BY DEF CurrentInv
<1> QED
  BY <1>1, <1>2, <1>3, FeedSafe, PTL DEF Spec

=============================================================================
