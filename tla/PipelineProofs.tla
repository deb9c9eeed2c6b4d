---------------------------- MODULE PipelineProofs ----------------------------
(***************************************************************************)
(* Every intent is judged by its own message, and what gate ML rejects was *)
(* adverse, for every width, set of slots, messages and configurations.    *)
(* The two delays must agree, and a message must take longer to arrive     *)
(* than the one before it takes to be judged.                              *)
(***************************************************************************)
EXTENDS Pipeline, TLAPS

(* Both hold in tob_top.v: ALIGN_DEPTH is 3, a message has 16 bytes. *)
Matched == ALIGN_DEPTH = MlStages /\ SPACING >= ALIGN_DEPTH + 2

-----------------------------------------------------------------------------
(* The inductive invariant. *)

(* Where an intent or an event is tells when its message completed; the two *)
(* travel side by side until the verdict is out.                           *)
PathInv ==
  /\ sig # NoIntent => since = 1 /\ ml_path[1] # NoEvent
  /\ \A i \in 1 .. ALIGN_DEPTH : aligned[i] # NoIntent => since = i + 1
  /\ \A i \in 1 .. MlStages : ml_path[i] # NoEvent => since = i
  /\ \A i \in 1 .. MlStages - 1 : aligned[i] # NoIntent => ml_path[i + 1] # NoEvent
  /\ aligned[ALIGN_DEPTH] # NoIntent /\ adverse_risk => ml_adverse_pulse
  /\ Decided => since = ALIGN_DEPTH + 2

(* What the policy will make of the event e. *)
Verdict(e) == Adverse([PolicyIn EXCEPT !.event = e])

(* The verdict on the last event is on its way, or it has arrived. *)
VerdictInv ==
  /\ \A e \in Event : (\E i \in 1 .. MlStages : ml_path[i] = e) => verdict = Verdict(e)
  /\ (\A i \in 1 .. MlStages : ml_path[i] = NoEvent) => verdict = adverse_risk

(* What the gates say of the intent x, from the registers of this cycle. *)
GatesNow(x) ==
  {g \in 1 .. 9 :
     \/ g = Risk!SIZE   /\ x.qty > cfg.max_order_qty
     \/ g = Risk!BAND   /\ Risk!Abs(x.price - (bid[x.slot].price + ask[x.slot].price) \div 2)
                             > cfg.price_band
     \/ g = Risk!STALE  /\ Risk!Elapsed(pend_prev, pend_msg) > cfg.max_age
     \/ g = Risk!SEQGAP /\ seq_gap
     \/ g = Risk!ML     /\ verdict /\ ~cfg.ml_action}

QtyNow(x) ==
  IF verdict /\ cfg.ml_action
  THEN IF x.qty \div cfg.ml_reduce = 0 THEN 1 ELSE x.qty \div cfg.ml_reduce
  ELSE x.qty

(* An intent on its way will be judged as its message demanded. *)
Faithful(x) ==
  /\ due \in Due
  /\ ~crossed[x.slot]
  /\ due.qty = QtyNow(x)
  /\ due.known => due.gates = GatesNow(x)

JudgeInv ==
  /\ \A x \in Intent : sig = x \/ (\E i \in 1 .. ALIGN_DEPTH : aligned[i] = x) => Faithful(x)
  /\ JudgedByItsOwnMessage

(* The 32-bit difference tells the silence, below a turn of the counter. *)
SilenceInv ==
  \A s \in Slot :
    silent[s] < CycleMod => Risk!Elapsed(last_update[s], cur_cycle) = silent[s]

(* A rejection is counted a cycle after its event. *)
MarginInv ==
  /\ margin \in Nat
  /\ Risk!ML \in order.fired => margin >= 1

IInv == TypeOK /\ PathInv /\ VerdictInv /\ JudgeInv /\ SilenceInv /\ MarginInv

-----------------------------------------------------------------------------
(* The wires of an edge. *)

WireFacts(w) ==
  /\ w.complete \in BOOLEAN /\ w.seq \in 0 .. MaxSeq /\ w.msg.snapshot \in BOOLEAN
  /\ w.seq_gap_clear \in BOOLEAN /\ w.counter_clear \in BOOLEAN
  /\ w.cfg \in Config
  /\ ~w.complete => w.cfg = cfg /\ ~w.seq_gap_clear /\ ~w.counter_clear
  /\ w.complete => since >= SPACING
  /\ w.complete /\ w.msg.type \notin {BAD, CSR}
       => w.msg \in Content /\ w.z \in Score /\ w.cfg = cfg

Edge(w) == WireFacts(w) /\ Clock(w)

LEMMA ModSmall ==
  ASSUME NEW m \in Nat \ {0}, NEW x \in 0 .. m - 1
  PROVE  x % m = x
OBVIOUS

LEMMA SomeEdge ==
  ASSUME cfg \in Config, Next
  PROVE  \E w : Edge(w)
<1>1. NoContent.type = BAD /\ CsrContent.type = CSR
      /\ NoContent.snapshot = FALSE /\ CsrContent.snapshot = FALSE
  BY DEF NoContent, CsrContent
<1>2. CASE Idle
  <2>1. /\ Quiet.complete = FALSE /\ Quiet.seq = 0 /\ Quiet.msg = NoContent
        /\ Quiet.cfg = cfg /\ Quiet.seq_gap_clear = FALSE /\ Quiet.counter_clear = FALSE
    BY DEF Quiet, Input
  <2>2. 0 \in 0 .. MaxSeq
    BY PipelineAssumption
  <2>3. WireFacts(Quiet)
    BY <1>1, <2>1, <2>2 DEF WireFacts
  <2> QED
    BY <1>2, <2>3 DEF Edge, Idle
<1>3. CASE Receive
  <2>1. PICK m \in Content, q \in SeqNums, z \in Score : Clock(Message(m, q, z))
    BY <1>3 DEF Receive
  <2> DEFINE w == Message(m, q, z)
  <2>2. /\ w.complete = TRUE /\ w.seq = q /\ w.msg = m /\ w.cfg = cfg /\ w.z = z
        /\ w.seq_gap_clear = FALSE /\ w.counter_clear = FALSE
    BY DEF Message, Input
  <2>3. q \in 0 .. MaxSeq /\ since >= SPACING
    BY <1>3 DEF SeqNums, Receive
  <2> HIDE DEF w
  <2>4. WireFacts(w)
    BY <2>2, <2>3, ContentAssumption DEF WireFacts
  <2> QED
    BY <2>1, <2>4 DEF Edge, w
<1>4. CASE Control
  <2>1. PICK q \in SeqNums : \/ \E g \in BOOLEAN, c \in BOOLEAN : Clock(Pulse(q, g, c))
                            \/ \E new \in Config : Clock(Write(q, new))
    BY <1>4 DEF Control
  <2>2. q \in 0 .. MaxSeq /\ since >= SPACING
    BY <1>4 DEF SeqNums, Control
  <2>3. ASSUME NEW g \in BOOLEAN, NEW c \in BOOLEAN, Clock(Pulse(q, g, c))
        PROVE  \E w : Edge(w)
    <3> DEFINE w == Pulse(q, g, c)
    <3>1. /\ w.complete = TRUE /\ w.seq = q /\ w.msg = CsrContent /\ w.cfg = cfg
          /\ w.seq_gap_clear = g /\ w.counter_clear = c
      BY DEF Pulse, Input
    <3> HIDE DEF w
    <3>2. WireFacts(w)
      BY <1>1, <2>2, <3>1 DEF WireFacts
    <3> QED
      BY <2>3, <3>2 DEF Edge, w
  <2>4. ASSUME NEW new \in Config, Clock(Write(q, new))
        PROVE  \E w : Edge(w)
    <3> DEFINE w == Write(q, new)
    <3>1. /\ w.complete = TRUE /\ w.seq = q /\ w.msg = CsrContent /\ w.cfg = new
          /\ w.seq_gap_clear = FALSE /\ w.counter_clear = FALSE
      BY DEF Write, Input
    <3> HIDE DEF w
    <3>2. WireFacts(w)
      BY <1>1, <2>2, <3>1 DEF WireFacts
    <3> QED
      BY <2>4, <3>2 DEF Edge, w
  <2> QED
    BY <2>1, <2>3, <2>4
<1> QED
  BY <1>2, <1>3, <1>4 DEF Next

LEMMA UpdatedType ==
  ASSUME NEW in, NEW side, NEW old \in Quote,
         in.price \in 0 .. PriceMod - 1, in.qty \in 0 .. QtyMod - 1
  PROVE  Updated(old, side, in) \in Quote
BY DEF Updated, Quote

(* The lowest matching slot exists. *)
LEMMA SlotFound ==
  ASSUME NEW in, msg_applied(in)
  PROVE  filt_slot(in) \in Slot /\ in.valid
<1> DEFINE M == {s \in Slot : Matches(s, in)}
<1>1. M # {} /\ in.valid
  BY DEF msg_applied, filt_slot
<1>2. \E s \in M : \A r \in M : s <= r
  BY <1>1, SlotAssumption
<1>3. \E s \in Slot : Matches(s, in) /\ \A r \in Slot : Matches(r, in) => s <= r
  BY <1>2
<1> QED
  BY <1>1, <1>3 DEF msg_applied, filt_slot

(* A message that is applied is a feed message that completes. *)
LEMMA Applied ==
  ASSUME TypeOK, NEW w, Edge(w), NEW b, b = BookIn(w), msg_applied(b),
         NEW s, s = filt_slot(b)
  PROVE  /\ s \in Slot /\ w.complete /\ since >= SPACING
         /\ b.cfg = cfg /\ w.cfg = cfg /\ w.z \in Score
         /\ next_bid(b) \in Quote /\ next_ask(b) \in Quote
         /\ bid' = [bid EXCEPT ![s] = next_bid(b)]
         /\ ask' = [ask EXCEPT ![s] = next_ask(b)]
         /\ bid'[s] = next_bid(b) /\ ask'[s] = next_ask(b)
<1>1. s \in Slot /\ b.valid
  BY SlotFound
<1>2. /\ w.complete /\ w.msg.type \notin {BAD, CSR} /\ b.cfg = cfg
      /\ b.price = w.msg.price /\ b.qty = w.msg.qty
  BY <1>1 DEF BookIn
<1>3. w.msg \in Content /\ w.z \in Score /\ w.cfg = cfg /\ since >= SPACING
  BY <1>2 DEF Edge, WireFacts
<1>4. b.price \in 0 .. PriceMod - 1 /\ b.qty \in 0 .. QtyMod - 1
  BY <1>2, <1>3, ContentAssumption
<1>5. bid \in [Slot -> Quote] /\ ask \in [Slot -> Quote]
  BY DEF TypeOK
<1>6. next_bid(b) \in Quote /\ next_ask(b) \in Quote
  BY <1>1, <1>4, <1>5, UpdatedType DEF next_bid, next_ask
<1>7. BookStep(b)
  BY DEF Edge, Clock
<1>8. /\ bid' = [bid EXCEPT ![s] = next_bid(b)]
      /\ ask' = [ask EXCEPT ![s] = next_ask(b)]
  BY <1>7 DEF BookStep
<1> QED
  BY <1>1, <1>2, <1>3, <1>5, <1>6, <1>8

LEMMA NotApplied ==
  ASSUME NEW w, Edge(w), ~msg_applied(BookIn(w))
  PROVE  bid' = bid /\ ask' = ask
BY DEF Edge, Clock, BookStep, bookVars

(* An intent comes with a book event, on a book that is not crossed. *)
LEMMA Signalled ==
  ASSUME TypeOK, NEW w, Edge(w), NEW b, b = BookIn(w), sig' # NoIntent
  PROVE  /\ book_upd_valid(b) /\ msg_applied(b) /\ ~next_crossed(b)
         /\ sig' \in Intent /\ sig'.slot = filt_slot(b)
<1>1. SignalStep(SigIn(b))
  BY DEF Edge, Clock
<1>2. book_upd_valid(b) /\ msg_applied(b)
  <2>1. SigIn(b).upd
    BY <1>1 DEF SignalStep
  <2> QED
    BY <2>1 DEF SigIn, book_upd_valid
<1> DEFINE s == filt_slot(b)
<1>3. s \in Slot /\ next_bid(b) \in Quote /\ next_ask(b) \in Quote /\ b.cfg = cfg
  BY <1>2, Applied
<1>4. /\ SigIn(b).slot = s /\ SigIn(b).bid = next_bid(b) /\ SigIn(b).ask = next_ask(b)
      /\ SigIn(b).crossed = next_crossed(b) /\ SigIn(b).cfg = cfg
  BY <1>2 DEF SigIn
<1> DEFINE in == SigIn(b)
<1> HIDE DEF in
<1>5. \/ BuyOk(in) /\ sig' = Order(s, BID, next_ask(b).price, cfg.order_qty)
      \/ SellOk(in) /\ sig' = Order(s, ASK, next_bid(b).price, cfg.order_qty)
  BY <1>1, <1>4 DEF in, SignalStep, BID, ASK
<1>6. ~next_crossed(b)
  BY <1>4, <1>5 DEF in, BuyOk, SellOk, BaseOk
<1>7. /\ next_ask(b).price \in 0 .. PriceMod - 1 /\ next_bid(b).price \in 0 .. PriceMod - 1
  BY <1>3 DEF Quote
<1>8. cfg.order_qty \in 0 .. QtyMod - 1
  BY ConfigAssumption DEF TypeOK
<1> HIDE DEF s
<1>9. sig' \in Intent /\ sig'.slot = s
  BY <1>3, <1>5, <1>7, <1>8 DEF Order, Intent
<1> QED
  BY <1>2, <1>6, <1>9 DEF s

-----------------------------------------------------------------------------
(* Type correctness. *)

LEMMA AlignedType == TypeOK => Aligned \in Intent \cup {NoIntent}
BY PipelineAssumption DEF TypeOK, Aligned

(* A stored position wraps around in its own width. *)
LEMMA LedgerType ==
  ASSUME NEW p \in -Half .. Half - 1, NEW q \in 0 .. 2 * Half - 1, NEW side
  PROVE  Risk!Wrap(p + Risk!Signed(side, q), Half) \in -Half .. Half - 1
<1>1. Half \in Nat \ {0}
  BY PipelineAssumption
<1>2. Risk!Signed(side, q) = q \/ Risk!Signed(side, q) = -q
  BY DEF Risk!Signed
<1> QED
  BY <1>1, <1>2 DEF Risk!Wrap

LEMMA Halved ==
  ASSUME NEW q \in Nat, NEW d \in Nat \ {0}
  PROVE  q \div d \in Nat /\ q \div d <= q
OBVIOUS

LEMMA QtyFits == QtyMod \in Nat /\ QtyMod <= 2 * Half /\ 1 <= 2 * Half - 1 /\ Half \in Nat
<1>1. QtyMod \in Nat /\ QtyMod <= 2 * Half /\ Half \in Nat \ {0}
  BY PipelineAssumption
<1> QED
  BY <1>1

LEMMA ReducedType ==
  ASSUME NEW in, in.sig \in Intent, in.cfg \in Config
  PROVE  Risk!ReducedQty(in) \in 0 .. 2 * Half - 1
<1>1. in.sig.qty \in 0 .. QtyMod - 1
  BY DEF Intent
<1>2. in.cfg.ml_reduce \in Nat \ {0}
  BY ConfigAssumption
<1> DEFINE q == in.sig.qty
           r == in.sig.qty \div in.cfg.ml_reduce
<1>3. r \in Nat /\ r <= q /\ q \in Nat /\ q <= QtyMod - 1
  BY <1>1, <1>2, QtyFits, Halved
<1>4. \/ Risk!ReducedQty(in) = 1 \/ Risk!ReducedQty(in) = q \/ Risk!ReducedQty(in) = r
  BY DEF Risk!ReducedQty
<1> HIDE DEF q, r
<1> QED
  BY <1>3, <1>4, QtyFits

LEMMA RiskType ==
  ASSUME TypeOK, NEW w, Edge(w)
  PROVE  /\ last_update' \in [Slot -> 0 .. CycleMod - 1]
         /\ pend_prev' \in 0 .. CycleMod - 1 /\ pend_msg' \in 0 .. CycleMod - 1
         /\ position' \in [Slot -> -Half .. Half - 1]
         /\ order'.fired \subseteq Risk!Gate
<1> DEFINE b == BookIn(w)
           in == RiskIn(b)
<1>1. Risk!RiskStep(in)
  BY DEF Edge, Clock
<1>2. in.sig = Aligned /\ in.cfg = cfg /\ in.cur_cycle = cur_cycle
      /\ in.applied = IF msg_applied(b) THEN filt_slot(b) ELSE NoSlot
  BY DEF RiskIn
<1>3. in.applied = NoSlot \/ in.applied \in Slot
  BY <1>2, Applied
<1> HIDE DEF in
<1>4. /\ last_update' \in [Slot -> 0 .. CycleMod - 1]
      /\ pend_prev' \in 0 .. CycleMod - 1 /\ pend_msg' \in 0 .. CycleMod - 1
  <2>1. Risk!StalenessStep(in)
    BY <1>1 DEF Risk!RiskStep
  <2>2. CASE in.applied = NoSlot
    BY <2>1, <2>2 DEF Risk!StalenessStep, TypeOK
  <2>3. CASE in.applied # NoSlot
    <3> DEFINE s == in.applied
    <3>1. s \in Slot
      BY <1>3, <2>3
    <3>2. /\ last_update \in [Slot -> 0 .. CycleMod - 1] /\ cur_cycle \in 0 .. CycleMod - 1
      BY DEF TypeOK
    <3>3. /\ pend_prev' = last_update[s] /\ pend_msg' = cur_cycle
          /\ last_update' = [last_update EXCEPT ![s] = cur_cycle]
      BY <1>2, <2>1, <2>3 DEF Risk!StalenessStep
    <3> HIDE DEF s
    <3> QED
      BY <3>1, <3>2, <3>3
  <2> QED
    BY <2>2, <2>3
<1>5. position' \in [Slot -> -Half .. Half - 1]
  <2>1. Risk!LedgerStep(in, Risk!Accepted(in))
    BY <1>1 DEF Risk!RiskStep
  <2>2. position \in [Slot -> -Half .. Half - 1]
    BY DEF TypeOK
  <2>3. CASE ~Risk!Accepted(in)
    BY <2>1, <2>2, <2>3 DEF Risk!LedgerStep
  <2>4. CASE Risk!Accepted(in)
    <3>1. in.sig \in Intent
      BY <1>2, <2>4, AlignedType DEF Risk!Accepted
    <3>2. in.sig.slot \in Slot
      BY <3>1 DEF Intent
    <3> DEFINE new == Risk!Wrap(position[in.sig.slot]
                                  + Risk!Signed(in.sig.side, Risk!ReducedQty(in)), Half)
    <3>3. Risk!ReducedQty(in) \in 0 .. 2 * Half - 1
      BY <1>2, <3>1, ReducedType DEF TypeOK
    <3>4. new \in -Half .. Half - 1
      BY <2>2, <3>2, <3>3, LedgerType
    <3>5. position' = [position EXCEPT ![in.sig.slot] = new]
      BY <2>1, <2>4 DEF Risk!LedgerStep
    <3> HIDE DEF new
    <3> QED
      BY <2>2, <3>4, <3>5
  <2> QED
    BY <2>3, <2>4
<1>6. order'.fired \subseteq Risk!Gate
  BY <1>1 DEF Risk!RiskStep, Risk!DecisionStep, Risk!Fired
<1> QED
  BY <1>4, <1>5, <1>6

LEMMA FeedType ==
  ASSUME TypeOK, NEW w, Edge(w)
  PROVE  /\ expected_seq' \in 0 .. MaxSeq + 1
         /\ seen_first' \in BOOLEAN /\ seq_gap' \in BOOLEAN
         /\ bid' \in [Slot -> Quote] /\ ask' \in [Slot -> Quote]
         /\ sig' \in Intent \cup {NoIntent}
<1>1. expected_seq' \in 0 .. MaxSeq + 1
  <2>1. ExpectedStep(SeqIn(w)) /\ SeqIn(w).seq = w.seq
    BY DEF Edge, Clock, SeqStep, SeqIn
  <2>2. w.seq \in 0 .. MaxSeq /\ expected_seq \in 0 .. MaxSeq + 1
    BY DEF Edge, WireFacts, TypeOK
  <2>3. w.seq + 1 \in 0 .. SeqMod - 1 /\ w.seq + 1 \in 0 .. MaxSeq + 1
    BY <2>2, PipelineAssumption, SeqModAssumption
  <2>4. (w.seq + 1) % SeqMod = w.seq + 1
    BY <2>3, SeqModAssumption, ModSmall
  <2> QED
    BY <2>1, <2>2, <2>3, <2>4 DEF ExpectedStep
<1>2. seen_first' \in BOOLEAN
  BY DEF Edge, Clock, WireFacts, SeqStep, ExpectedStep, SeqIn, TypeOK
<1>3. seq_gap' \in BOOLEAN
  BY DEF Edge, Clock, SeqStep, GapStep
<1>4. bid' \in [Slot -> Quote] /\ ask' \in [Slot -> Quote]
  <2>1. CASE msg_applied(BookIn(w))
    <3> DEFINE b == BookIn(w)
               s == filt_slot(b)
    <3>1. /\ s \in Slot /\ next_bid(b) \in Quote /\ next_ask(b) \in Quote
          /\ bid' = [bid EXCEPT ![s] = next_bid(b)]
          /\ ask' = [ask EXCEPT ![s] = next_ask(b)]
      BY <2>1, Applied
    <3>2. bid \in [Slot -> Quote] /\ ask \in [Slot -> Quote]
      BY DEF TypeOK
    <3> HIDE DEF b, s
    <3> QED
      BY <3>1, <3>2
  <2>2. CASE ~msg_applied(BookIn(w))
    BY <2>2, NotApplied DEF TypeOK
  <2> QED
    BY <2>1, <2>2
<1>5. sig' \in Intent \cup {NoIntent}
  BY Signalled
<1> QED
  BY <1>1, <1>2, <1>3, <1>4, <1>5

LEMMA MlType ==
  ASSUME TypeOK, NEW w, Edge(w)
  PROVE  /\ aligned' \in [1 .. ALIGN_DEPTH -> Intent \cup {NoIntent}]
         /\ ml_path' \in [1 .. MlStages -> Event \cup {NoEvent}]
         /\ adverse_risk' \in BOOLEAN /\ ml_adverse_pulse' \in BOOLEAN
<1>1. aligned' \in [1 .. ALIGN_DEPTH -> Intent \cup {NoIntent}]
  <2>1. aligned' = [i \in 1 .. ALIGN_DEPTH |-> IF i = 1 THEN sig ELSE aligned[i - 1]]
    BY DEF Edge, Clock, AlignStep
  <2>2. \A i \in 1 .. ALIGN_DEPTH : i = 1 \/ i - 1 \in 1 .. ALIGN_DEPTH
    BY PipelineAssumption
  <2> QED
    BY <2>1, <2>2 DEF TypeOK
<1>2. ml_path' \in [1 .. MlStages -> Event \cup {NoEvent}]
  <2> DEFINE e == BookEvent(BookIn(w), w.z)
  <2>1. e \in Event \cup {NoEvent}
    <3>1. CASE book_upd_valid(BookIn(w))
      BY <3>1, Applied DEF BookEvent, book_upd_valid, Event
    <3>2. CASE ~book_upd_valid(BookIn(w))
      BY <3>2 DEF BookEvent
    <3> QED
      BY <3>1, <3>2
  <2>2. ml_path' = [i \in 1 .. MlStages |-> IF i = 1 THEN e ELSE ml_path[i - 1]]
    BY DEF Edge, Clock, MlPathStep
  <2>3. \A i \in 1 .. MlStages : i = 1 \/ i - 1 \in 1 .. MlStages
    BY DEF MlStages
  <2> HIDE DEF e
  <2> QED
    BY <2>1, <2>2, <2>3 DEF TypeOK
<1>3. adverse_risk' \in BOOLEAN /\ ml_adverse_pulse' \in BOOLEAN
  <2>1. PolicyStep(PolicyIn)
    BY DEF Edge, Clock
  <2>2. Adverse(PolicyIn) \in BOOLEAN
    BY DEF Adverse
  <2> QED
    BY <2>1, <2>2 DEF PolicyStep, TypeOK
<1> QED
  BY <1>1, <1>2, <1>3

LEMMA HistoryType ==
  ASSUME TypeOK, NEW w, Edge(w)
  PROVE  /\ silent' \in [Slot -> 0 .. CycleMod]
         /\ verdict' \in BOOLEAN
         /\ due' \in Due \cup {NoIntent}
         /\ sig' # NoIntent => due' \in Due
<1> DEFINE b == BookIn(w)
<1>1. HistoryStep(b, w.z)
  BY DEF Edge, Clock
<1>2. silent' \in [Slot -> 0 .. CycleMod]
  <2>1. \A r \in Slot : /\ Least(silent[r] + 1, CycleMod) \in 0 .. CycleMod
                        /\ 1 \in 0 .. CycleMod
    BY PipelineAssumption DEF Least, TypeOK
  <2>2. silent' = [r \in Slot |-> IF msg_applied(b) /\ r = filt_slot(b) THEN 1
                                  ELSE Least(silent[r] + 1, CycleMod)]
    BY <1>1 DEF HistoryStep
  <2> HIDE DEF b
  <2> QED
    BY <2>1, <2>2
<1>3. verdict' \in BOOLEAN
  BY <1>1 DEF HistoryStep, TypeOK
<1>4. /\ due' \in Due \cup {NoIntent}
      /\ sig' # NoIntent => due' \in Due
  <2>1. CASE sig' = NoIntent
    BY <1>1, <2>1 DEF HistoryStep, TypeOK
  <2>2. CASE sig' # NoIntent
    <3> DEFINE g == DueGates(sig', next_bid(b), next_ask(b))
               q == DueQty(sig')
               k == silent[filt_slot(b)] < CycleMod
    <3>1. due' = [gates |-> g, qty |-> q, known |-> k]
      BY <1>1, <2>2 DEF HistoryStep
    <3>2. g \in SUBSET Judged
      BY DEF DueGates, Judged
    <3>3. q \in Nat
      <4>1. sig' \in Intent /\ cfg \in Config
        BY <2>2, Signalled DEF TypeOK
      <4>2. sig'.qty \in Nat
        BY <4>1, QtyFits DEF Intent
      <4>3. sig'.qty \div cfg.ml_reduce \in Nat
        BY <4>1, <4>2, ConfigAssumption, Halved
      <4> QED
        BY <4>2, <4>3 DEF DueQty
    <3>4. k \in BOOLEAN
      OBVIOUS
    <3> HIDE DEF g, q, k
    <3> QED
      BY <3>1, <3>2, <3>3, <3>4 DEF Due
  <2> QED
    BY <2>1, <2>2
<1> QED
  BY <1>2, <1>3, <1>4

LEMMA TypeStep ==
  ASSUME TypeOK, NEW w, Edge(w)
  PROVE  TypeOK'
<1>1. cfg' \in Config /\ cur_cycle' \in 0 .. CycleMod - 1 /\ since' \in 1 .. SPACING
  <2>1. ClockStep(w) /\ w.cfg \in Config
    BY DEF Edge, Clock, WireFacts
  <2>2. (cur_cycle + 1) % CycleMod \in 0 .. CycleMod - 1
    BY PipelineAssumption DEF TypeOK
  <2>3. Least(since + 1, SPACING) \in 1 .. SPACING /\ 1 \in 1 .. SPACING
    BY PipelineAssumption DEF Least, TypeOK
  <2> QED
    BY <2>1, <2>2, <2>3 DEF ClockStep
<1>2. margin' \in Int
  <2>1. MarginStep(w) /\ margin \in Int
    BY DEF Edge, Clock, TypeOK
  <2>2. \A c, d \in BOOLEAN : Least(margin + Count(c) - Count(d), MaxMargin) \in Int
    BY <2>1, PipelineAssumption DEF Least, Count
  <2>3. ml_adverse_pulse \in BOOLEAN /\ (Risk!ML \in order.fired) \in BOOLEAN
    BY DEF TypeOK
  <2>4. Least(margin + Count(ml_adverse_pulse) - Count(Risk!ML \in order.fired), MaxMargin)
          \in Int
    BY <2>2, <2>3
  <2> QED
    BY <2>1, <2>4 DEF MarginStep
<1> QED
  BY <1>1, <1>2, RiskType, FeedType, MlType, HistoryType DEF TypeOK

LEMMA InitType == Init => TypeOK
<1> SUFFICES ASSUME Init PROVE TypeOK
  OBVIOUS
<1>1. NoQuote \in Quote
  BY PipelineAssumption DEF NoQuote, Quote
<1>2. bid \in [Slot -> Quote] /\ ask \in [Slot -> Quote]
  BY <1>1 DEF Init, BookReset
<1>3. /\ last_update \in [Slot -> 0 .. CycleMod - 1] /\ pend_prev \in 0 .. CycleMod - 1
      /\ pend_msg \in 0 .. CycleMod - 1 /\ position \in [Slot -> -Half .. Half - 1]
      /\ order.fired \subseteq Risk!Gate
  BY PipelineAssumption DEF Init, Risk!RiskReset, Risk!NoDecision
<1>4. /\ expected_seq = 0 /\ seen_first = FALSE /\ seq_gap = FALSE
      /\ sig = NoIntent /\ adverse_risk = FALSE /\ ml_adverse_pulse = FALSE
      /\ cfg \in Config /\ cur_cycle = 0 /\ since = SPACING /\ margin = 0
      /\ silent = [s \in Slot |-> 0] /\ verdict = FALSE /\ due = NoIntent
  BY DEF Init, SeqReset, SigReset, MlReset
<1>5. /\ aligned \in [1 .. ALIGN_DEPTH -> Intent \cup {NoIntent}]
      /\ ml_path \in [1 .. MlStages -> Event \cup {NoEvent}]
  BY DEF Init
<1>6. /\ 0 \in 0 .. MaxSeq + 1 /\ 0 \in 0 .. CycleMod - 1 /\ SPACING \in 1 .. SPACING
      /\ 0 \in Int /\ [s \in Slot |-> 0] \in [Slot -> 0 .. CycleMod]
  BY PipelineAssumption
<1> QED
  BY <1>2, <1>3, <1>4, <1>5, <1>6 DEF TypeOK

LEMMA Stuttering == TypeOK /\ UNCHANGED vars => TypeOK'
BY DEF TypeOK, vars, seqVars, bookVars, mlVars, riskVars

(* Every register of the pipeline keeps its type, for every width, set of  *)
(* slots, delay and spacing.                                               *)
THEOREM TypeSafe == Spec => []TypeOK
<1>1. TypeOK /\ [Next]_vars => TypeOK'
  <2>1. TypeOK /\ Next => TypeOK'
    BY SomeEdge, TypeStep DEF TypeOK
  <2> QED
    BY <2>1, Stuttering
<1> QED
  BY InitType, <1>1, PTL DEF Spec

-----------------------------------------------------------------------------
(* Where things are on their way. *)

LEMMA Depth == Matched => /\ ALIGN_DEPTH = 3 /\ MlStages = 3 /\ SPACING >= 5
                          /\ SPACING \in Nat
BY PipelineAssumption DEF Matched, MlStages

(* The two delays side by side. *)
LEMMA Moved ==
  ASSUME Matched, NEW w, Edge(w)
  PROVE  /\ aligned'[1] = sig /\ aligned'[2] = aligned[1] /\ aligned'[3] = aligned[2]
         /\ ml_path'[1] = BookEvent(BookIn(w), w.z)
         /\ ml_path'[2] = ml_path[1] /\ ml_path'[3] = ml_path[2]
         /\ Aligned = aligned[3]
<1>1. aligned' = [i \in 1 .. 3 |-> IF i = 1 THEN sig ELSE aligned[i - 1]]
  BY Depth DEF Edge, Clock, AlignStep
<1>2. ml_path' = [i \in 1 .. 3 |-> IF i = 1 THEN BookEvent(BookIn(w), w.z)
                                           ELSE ml_path[i - 1]]
  BY Depth DEF Edge, Clock, MlPathStep
<1>3. 1 \in 1 .. 3 /\ 2 \in 1 .. 3 /\ 3 \in 1 .. 3 /\ 2 - 1 = 1 /\ 3 - 1 = 2
  OBVIOUS
<1> QED
  BY <1>1, <1>2, <1>3, Depth DEF Aligned

(* Nothing a judgement depends on changes until the next message. *)
LEMMA Frozen ==
  ASSUME TypeOK, NEW w, Edge(w), ~w.complete
  PROVE  /\ bid' = bid /\ ask' = ask /\ seq_gap' = seq_gap /\ cfg' = cfg
         /\ pend_prev' = pend_prev /\ pend_msg' = pend_msg /\ verdict' = verdict
         /\ sig' = NoIntent /\ (~Decided => due' = due)
         /\ BookEvent(BookIn(w), w.z) = NoEvent
<1> DEFINE b == BookIn(w)
<1>1. ~msg_applied(b) /\ ~book_upd_valid(b)
  BY Applied DEF book_upd_valid
<1>2. bid' = bid /\ ask' = ask
  BY <1>1, NotApplied
<1>3. cfg' = cfg /\ seq_gap' = seq_gap
  <2>1. GapStep(SeqIn(w)) /\ ~SeqIn(w).seq_gap_clear /\ ~SeqIn(w).complete
    BY DEF Edge, WireFacts, Clock, SeqStep, SeqIn
  <2>2. seq_gap \in BOOLEAN
    BY DEF TypeOK
  <2>3. seq_gap' = seq_gap
    BY <2>1, <2>2 DEF GapStep, seq_gap_pulse
  <2> QED
    BY <2>3 DEF Edge, WireFacts, Clock, ClockStep
<1>4. pend_prev' = pend_prev /\ pend_msg' = pend_msg
  <2>1. Risk!StalenessStep(RiskIn(b)) /\ RiskIn(b).applied = NoSlot
    BY <1>1 DEF Edge, Clock, Risk!RiskStep, RiskIn
  <2> QED
    BY <2>1 DEF Risk!StalenessStep
<1>5. sig' = NoIntent
  BY <1>1, Signalled
<1>6. verdict' = verdict /\ (~Decided => due' = due)
  <2>1. HistoryStep(b, w.z)
    BY DEF Edge, Clock
  <2> QED
    BY <1>1, <1>5, <2>1 DEF HistoryStep
<1> QED
  BY <1>1, <1>2, <1>3, <1>4, <1>5, <1>6 DEF BookEvent

(* The cycles since the last message, below SPACING. *)
LEMMA Later ==
  ASSUME Matched, TypeOK, NEW w, Edge(w)
  PROVE  /\ since < 5 => ~w.complete /\ since' = since + 1
         /\ w.complete => since' = 1 /\ since >= 5
<1>1. ClockStep(w) /\ (w.complete => since >= SPACING) /\ since \in 1 .. SPACING
  BY DEF Edge, WireFacts, Clock, TypeOK
<1>2. since < 5 => Least(since + 1, SPACING) = since + 1
  <2>1. since \in Nat /\ SPACING \in Nat /\ SPACING >= 5
    BY <1>1, Depth
  <2> QED
    BY <2>1 DEF Least
<1>3. since < 5 => ~w.complete
  <2>1. since \in Nat /\ SPACING \in Nat /\ SPACING >= 5
    BY <1>1, Depth
  <2> QED
    BY <1>1, <2>1
<1>4. w.complete => since >= 5
  <2>1. since \in Nat /\ SPACING \in Nat /\ SPACING >= 5
    BY <1>1, Depth
  <2> QED
    BY <1>1, <2>1
<1> QED
  BY <1>1, <1>2, <1>3, <1>4 DEF ClockStep

LEMMA EventKept ==
  ASSUME TypeOK, NEW w, Edge(w), book_upd_valid(BookIn(w))
  PROVE  /\ BookEvent(BookIn(w), w.z) = [slot |-> filt_slot(BookIn(w)), z |-> w.z]
         /\ BookEvent(BookIn(w), w.z) # NoEvent
<1>1. BookEvent(BookIn(w), w.z) = [slot |-> filt_slot(BookIn(w)), z |-> w.z]
  BY DEF BookEvent
<1>2. BookEvent(BookIn(w), w.z) \in Event
  BY <1>1, Applied DEF Event, book_upd_valid
<1> QED
  BY <1>1, <1>2, AbsentAssumption

(* The risk engine decides only on an intent. *)
LEMMA DecidedOnIntent ==
  ASSUME NEW w, Edge(w), Decided'
  PROVE  Aligned # NoIntent
<1>1. Risk!DecisionStep(RiskIn(BookIn(w)), Risk!Accepted(RiskIn(BookIn(w))))
  BY DEF Edge, Clock, Risk!RiskStep
<1>2. RiskIn(BookIn(w)).sig = Aligned
  BY DEF RiskIn
<1> QED
  BY <1>1, <1>2 DEF Risk!DecisionStep, Decided

LEMMA PathStep ==
  ASSUME Matched, TypeOK, PathInv, NEW w, Edge(w)
  PROVE  PathInv'
<1> DEFINE b == BookIn(w)
           e == BookEvent(b, w.z)
<1>0. /\ sig # NoIntent => since = 1 /\ ml_path[1] # NoEvent
      /\ aligned[1] # NoIntent => since = 2 /\ ml_path[2] # NoEvent
      /\ aligned[2] # NoIntent => since = 3 /\ ml_path[3] # NoEvent
      /\ aligned[3] # NoIntent => since = 4
      /\ ml_path[1] # NoEvent => since = 1
      /\ ml_path[2] # NoEvent => since = 2
      /\ ml_path[3] # NoEvent => since = 3
  BY Depth DEF PathInv
<1>1. sig' # NoIntent => since' = 1 /\ ml_path'[1] # NoEvent
  BY Signalled, Applied, Later, EventKept, Moved
<1>2. /\ aligned'[1] # NoIntent => since' = 2
      /\ aligned'[2] # NoIntent => since' = 3
      /\ aligned'[3] # NoIntent => since' = 4
  BY <1>0, Moved, Later
<1>3. \A i \in 1 .. ALIGN_DEPTH : aligned'[i] # NoIntent => since' = i + 1
  BY <1>2, Depth
<1>4. /\ ml_path'[1] # NoEvent => since' = 1
      /\ ml_path'[2] # NoEvent => since' = 2
      /\ ml_path'[3] # NoEvent => since' = 3
  BY <1>0, Moved, Later, Frozen
<1>5. \A i \in 1 .. MlStages : ml_path'[i] # NoEvent => since' = i
  BY <1>4, Depth
<1>6. \A i \in 1 .. MlStages - 1 : aligned'[i] # NoIntent => ml_path'[i + 1] # NoEvent
  <2>1. /\ aligned'[1] # NoIntent => ml_path'[2] # NoEvent
        /\ aligned'[2] # NoIntent => ml_path'[3] # NoEvent
    BY <1>0, Moved
  <2> QED
    BY <2>1, Depth
<1>7. aligned'[ALIGN_DEPTH] # NoIntent /\ adverse_risk' => ml_adverse_pulse'
  <2> SUFFICES ASSUME aligned'[3] # NoIntent, adverse_risk' PROVE ml_adverse_pulse'
    BY Depth
  <2>1. PolicyIn.event # NoEvent /\ PolicyStep(PolicyIn)
    BY <1>0, Moved, Depth DEF PolicyIn, Edge, Clock
  <2> QED
    BY <2>1 DEF PolicyStep
<1>8. Decided' => since' = ALIGN_DEPTH + 2
  <2> SUFFICES ASSUME Decided' PROVE since' = 5
    BY Depth
  <2>1. since = 4
    BY <1>0, DecidedOnIntent, Moved
  <2> QED
    BY <2>1, Later
<1> QED
  BY <1>1, <1>3, <1>5, <1>6, <1>7, <1>8 DEF PathInv

-----------------------------------------------------------------------------
(* The verdict on an event is what the message's book demanded. *)

LEMMA VerdictSame ==
  ASSUME NEW e, bid' = bid, ask' = ask, seq_gap' = seq_gap, cfg' = cfg,
         adverse_risk' = adverse_risk
  PROVE  Verdict(e)' = Verdict(e)
BY DEF Verdict, Adverse, safe_state, PolicyIn, crossed

LEMMA VerdictStep ==
  ASSUME Matched, TypeOK, PathInv, VerdictInv, NEW w, Edge(w)
  PROVE  VerdictInv'
<1> DEFINE b == BookIn(w)
           e == BookEvent(b, w.z)
<1>0. /\ ml_path[1] # NoEvent => since = 1
      /\ ml_path[2] # NoEvent => since = 2
      /\ ml_path[3] # NoEvent => since = 3
  BY Depth DEF PathInv
<1>1. /\ \A x \in Event : ml_path[1] = x \/ ml_path[2] = x \/ ml_path[3] = x
                         => verdict = Verdict(x)
      /\ ml_path[1] = NoEvent /\ ml_path[2] = NoEvent /\ ml_path[3] = NoEvent
           => verdict = adverse_risk
  <2>1. \A i \in 1 .. 3 : i = 1 \/ i = 2 \/ i = 3
    OBVIOUS
  <2> QED
    BY <2>1, Depth DEF VerdictInv
<1>2. PolicyStep(PolicyIn) /\ PolicyIn.event = ml_path[3]
  BY Depth DEF Edge, Clock, PolicyIn
<1>3. ml_path[3] = NoEvent => adverse_risk' = adverse_risk
  BY <1>2 DEF PolicyStep
<1> DEFINE Goal == /\ \A x \in Event : (\E i \in 1 .. 3 : ml_path'[i] = x)
                                          => verdict' = Verdict(x)'
                   /\ (\A i \in 1 .. 3 : ml_path'[i] = NoEvent) => verdict' = adverse_risk'
<1>6. NoEvent \notin Event
  BY AbsentAssumption
<1>4. ASSUME book_upd_valid(b) PROVE Goal
  <2> DEFINE s == filt_slot(b)
  <2>1. /\ s \in Slot /\ w.complete /\ since >= 5 /\ w.cfg = cfg
        /\ bid'[s] = next_bid(b) /\ ask'[s] = next_ask(b)
    BY <1>4, Applied, Later DEF book_upd_valid
  <2>2. ml_path[1] = NoEvent /\ ml_path[2] = NoEvent /\ ml_path[3] = NoEvent
    BY <1>0, <2>1
  <2>3. verdict = adverse_risk /\ adverse_risk' = adverse_risk
    BY <1>1, <1>3, <2>2
  <2>4. /\ ml_path'[1] = e /\ ml_path'[2] = NoEvent /\ ml_path'[3] = NoEvent
        /\ e = [slot |-> s, z |-> w.z] /\ e # NoEvent
    BY <1>4, <2>2, Moved, EventKept
  <2>5. cfg' = cfg
    BY <2>1 DEF Edge, Clock, ClockStep
  <2>6. HistoryStep(b, w.z)
    BY DEF Edge, Clock
  <2>7. verdict' = (\/ ~next_bid(b).valid \/ ~next_ask(b).valid
                    \/ next_crossed(b) \/ seq_gap'
                    \/ w.z >= cfg.ml_th_high
                    \/ w.z > cfg.ml_th_low /\ verdict)
    BY <1>4, <2>6 DEF HistoryStep
  <2>8. crossed'[s] = next_crossed(b)
    BY <2>1 DEF crossed, next_crossed
  <2>9. e.slot = s /\ e.z = w.z
    BY <2>4
  <2> HIDE DEF e, s, b
  <2>10. ASSUME NEW x \in Event, x = e PROVE verdict' = Verdict(x)'
    <3>1. x.slot = s /\ x.z = w.z
      BY <2>9, <2>10
    <3>2. Verdict(x)' = (\/ ~bid'[s].valid \/ ~ask'[s].valid \/ crossed'[s] \/ seq_gap'
                         \/ w.z >= cfg'.ml_th_high
                         \/ w.z > cfg'.ml_th_low /\ adverse_risk')
      BY <3>1 DEF Verdict, Adverse, safe_state, PolicyIn
    <3> QED
      BY <2>1, <2>3, <2>5, <2>7, <2>8, <3>2
  <2>12. \A i \in 1 .. 3 : i = 1 \/ i = 2 \/ i = 3
    OBVIOUS
  <2>13. ASSUME NEW x \in Event, NEW i \in 1 .. 3, ml_path'[i] = x
         PROVE  verdict' = Verdict(x)'
    BY <1>6, <2>4, <2>10, <2>12, <2>13
  <2>14. ~ \A i \in 1 .. 3 : ml_path'[i] = NoEvent
    BY <2>4
  <2> QED
    BY <2>13, <2>14
<1>5. ASSUME ~book_upd_valid(b) PROVE Goal
  <2>1. verdict' = verdict /\ ml_path'[1] = NoEvent
    BY <1>5, Moved DEF Edge, Clock, HistoryStep, BookEvent
  <2>2. ml_path'[2] = ml_path[1] /\ ml_path'[3] = ml_path[2]
    BY Moved
  <2>3. since < 5 => bid' = bid /\ ask' = ask /\ seq_gap' = seq_gap /\ cfg' = cfg
    BY Later, Frozen
  <2>4. \A i \in 1 .. 3 : i = 1 \/ i = 2 \/ i = 3
    OBVIOUS
  <2>5. CASE ml_path[3] # NoEvent
    <3>1. adverse_risk' = Adverse(PolicyIn)
      BY <1>2, <2>5 DEF PolicyStep
    <3>2. ml_path[3] \in Event
      BY <2>5, Depth DEF TypeOK
    <3>3. ASSUME NEW x \in Event, ml_path[3] = x PROVE adverse_risk' = verdict'
      <4>1. [PolicyIn EXCEPT !.event = x] = PolicyIn
        BY <3>3, Depth DEF PolicyIn
      <4>2. verdict = Verdict(x)
        BY <1>1, <3>3
      <4> QED
        BY <2>1, <3>1, <4>1, <4>2 DEF Verdict
    <3>4. adverse_risk' = verdict'
      BY <3>2, <3>3
    <3>5. ml_path'[2] = NoEvent /\ ml_path'[3] = NoEvent
      BY <1>0, <2>2, <2>5
    <3> QED
      BY <1>6, <2>1, <2>4, <3>4, <3>5
  <2>6. CASE ml_path[3] = NoEvent
    <3>1. adverse_risk' = adverse_risk
      BY <1>3, <2>6
    <3>2. ASSUME NEW x \in Event, NEW i \in 1 .. 3, ml_path'[i] = x
          PROVE  verdict' = Verdict(x)'
      <4>1. ml_path[1] = x \/ ml_path[2] = x
        BY <1>6, <2>1, <2>2, <2>4, <3>2
      <4>2. since < 5 /\ verdict = Verdict(x)
        BY <1>0, <1>1, <1>6, <4>1
      <4>3. Verdict(x)' = Verdict(x)
        BY <2>3, <3>1, <4>2, VerdictSame
      <4> QED
        BY <2>1, <4>2, <4>3
    <3>3. (\A i \in 1 .. 3 : ml_path'[i] = NoEvent) => verdict' = adverse_risk'
      BY <1>1, <2>1, <2>2, <2>6, <3>1
    <3> QED
      BY <3>2, <3>3
  <2> QED
    BY <2>5, <2>6
<1> QED
  BY <1>4, <1>5, Depth DEF VerdictInv

-----------------------------------------------------------------------------
(* The silence of a slot. *)

LEMMA ModCong ==
  ASSUME NEW m \in Nat \ {0}, NEW x \in Int, NEW y \in Int, NEW k \in Int, x = y + k * m
  PROVE  x % m = y % m
<1> DEFINE q == x \div m
           r == x % m
           p == y \div m
           t == y % m
<1>1. /\ q \in Int /\ p \in Int
      /\ r \in Int /\ 0 <= r /\ r < m
      /\ t \in Int /\ 0 <= t /\ t < m
      /\ x = q * m + r /\ y = p * m + t
  OBVIOUS
<1> HIDE DEF q, r, p, t
<1> DEFINE d == q - p - k
<1>2. d * m = t - r /\ d \in Int
  BY <1>1
<1> HIDE DEF d
<1>3. -m < d * m /\ d * m < m
  BY <1>1, <1>2
<1>4. d = 0
  <2>1. d >= 1 => d * m >= m
    BY <1>2
  <2>2. d <= -1 => d * m <= -m
    BY <1>2
  <2> QED
    BY <1>2, <1>3, <2>1, <2>2
<1>5. r = t
  BY <1>1, <1>2, <1>4
<1> QED
  BY <1>5 DEF r, t

(* One cycle later everything is one cycle older. *)
LEMMA ElapsedStep ==
  ASSUME NEW m \in Nat \ {0}, NEW c \in Int, NEW i \in Int, NEW a \in Nat,
         (c - i) % m = a, a + 1 < m
  PROVE  (((c + 1) % m) - i) % m = a + 1
<1> DEFINE k == (c + 1) \div m
           n == (c + 1) % m
           q == (c - i) \div m
<1>1. /\ k \in Int /\ n \in Int /\ n = (c + 1) - k * m
      /\ q \in Int /\ a = (c - i) - q * m
  OBVIOUS
<1> HIDE DEF k, n, q
<1>2. n - i = (a + 1) + (q - k) * m
  BY <1>1
<1>3. n - i \in Int /\ a + 1 \in Int /\ q - k \in Int
  BY <1>1
<1>4. (n - i) % m = (a + 1) % m
  BY <1>2, <1>3, ModCong
<1>5. (a + 1) % m = a + 1
  BY ModSmall
<1> QED
  BY <1>4, <1>5 DEF n

(* The age of what happens now is one, on the next cycle. *)
LEMMA ElapsedOne ==
  ASSUME NEW m \in Nat \ {0}, NEW c \in Int, 1 < m
  PROVE  (((c + 1) % m) - c) % m = 1
<1> DEFINE a == 0
<1>1. (c - c) % m = a /\ a \in Nat /\ a + 1 < m
  OBVIOUS
<1> HIDE DEF a
<1>2. (((c + 1) % m) - c) % m = a + 1
  BY <1>1, ElapsedStep
<1> QED
  BY <1>2 DEF a

LEMMA SilenceStep ==
  ASSUME TypeOK, SilenceInv, NEW w, Edge(w)
  PROVE  SilenceInv'
<1> SUFFICES ASSUME NEW r \in Slot, silent'[r] < CycleMod
             PROVE  Risk!Elapsed(last_update'[r], cur_cycle') = silent'[r]
  BY DEF SilenceInv, Risk!Elapsed
<1> DEFINE b == BookIn(w)
           s == filt_slot(b)
           c == cur_cycle
<1>1. /\ c \in Int /\ last_update[r] \in Int /\ silent[r] \in Nat /\ silent[r] <= CycleMod
      /\ CycleMod \in Nat \ {0} /\ cur_cycle' = (c + 1) % CycleMod
  BY PipelineAssumption DEF TypeOK, Edge, Clock, ClockStep
<1>2. silent' = [q \in Slot |-> IF msg_applied(b) /\ q = s THEN 1
                                ELSE Least(silent[q] + 1, CycleMod)]
  BY DEF Edge, Clock, HistoryStep
<1>3. Risk!StalenessStep(RiskIn(b))
      /\ RiskIn(b).applied = (IF msg_applied(b) THEN s ELSE NoSlot)
      /\ RiskIn(b).cur_cycle = c
  BY DEF Edge, Clock, Risk!RiskStep, RiskIn
<1>4. CASE msg_applied(b) /\ r = s
  <2>1. last_update'[r] = c
    <3>1. s # NoSlot
      BY <1>4 DEF msg_applied
    <3>2. last_update' = [last_update EXCEPT ![s] = c]
      BY <1>3, <1>4, <3>1 DEF Risk!StalenessStep
    <3> QED
      BY <1>4, <3>2 DEF TypeOK
  <2>2. silent'[r] = 1
    BY <1>2, <1>4
  <2> QED
    BY <1>1, <2>1, <2>2, ElapsedOne DEF Risk!Elapsed
<1>5. CASE ~(msg_applied(b) /\ r = s)
  <2>1. last_update'[r] = last_update[r]
    <3>1. CASE msg_applied(b)
      <4>1. s # NoSlot /\ s # r
        BY <1>5, <3>1 DEF msg_applied
      <4>2. last_update' = [last_update EXCEPT ![s] = c]
        BY <1>3, <3>1, <4>1 DEF Risk!StalenessStep
      <4> QED
        BY <4>1, <4>2 DEF TypeOK
    <3>2. CASE ~msg_applied(b)
      BY <1>3, <3>2 DEF Risk!StalenessStep
    <3> QED
      BY <3>1, <3>2
  <2>2. silent'[r] = Least(silent[r] + 1, CycleMod)
    BY <1>2, <1>5
  <2>3. silent'[r] = silent[r] + 1 /\ silent[r] + 1 < CycleMod /\ silent[r] < CycleMod
    BY <1>1, <2>2 DEF Least
  <2>4. (c - last_update[r]) % CycleMod = silent[r]
    BY <2>3 DEF SilenceInv, Risk!Elapsed
  <2> DEFINE i == last_update[r]
             a == silent[r]
  <2>5. /\ i \in Int /\ a \in Nat /\ (c - i) % CycleMod = a /\ a + 1 < CycleMod
        /\ CycleMod \in Nat \ {0} /\ c \in Int
    BY <1>1, <2>3, <2>4
  <2> HIDE DEF i, a, c
  <2>6. (((c + 1) % CycleMod) - i) % CycleMod = a + 1
    BY <2>5, ElapsedStep
  <2> QED
    BY <1>1, <2>1, <2>3, <2>6 DEF Risk!Elapsed, i, a
<1> QED
  BY <1>4, <1>5

-----------------------------------------------------------------------------
(* The judgement. *)

LEMMA FaithfulSame ==
  ASSUME NEW x, bid' = bid, ask' = ask, seq_gap' = seq_gap, cfg' = cfg,
         pend_prev' = pend_prev, pend_msg' = pend_msg, verdict' = verdict, due' = due,
         Faithful(x)
  PROVE  Faithful(x)'
<1>1. GatesNow(x)' = GatesNow(x)
  BY DEF GatesNow
<1>2. QtyNow(x)' = QtyNow(x)
  BY DEF QtyNow
<1>3. crossed' = crossed
  BY DEF crossed
<1> QED
  BY <1>1, <1>2, <1>3 DEF Faithful

(* On the cycle its message completes, an intent is what was demanded. *)
LEMMA FaithfulNew ==
  ASSUME Matched, TypeOK, SilenceInv, NEW w, Edge(w), NEW x \in Intent, sig' = x
  PROVE  Faithful(x)'
<1> DEFINE b == BookIn(w)
           s == filt_slot(b)
<1>1. sig' # NoIntent
  BY AbsentAssumption
<1>2. /\ book_upd_valid(b) /\ msg_applied(b) /\ ~next_crossed(b) /\ x.slot = s
  BY <1>1, Signalled
<1>3. /\ s \in Slot /\ w.cfg = cfg
      /\ bid'[s] = next_bid(b) /\ ask'[s] = next_ask(b)
  BY <1>2, Applied
<1>4. cfg' = cfg
  BY <1>3 DEF Edge, Clock, ClockStep
<1>5. ~crossed'[s]
  BY <1>2, <1>3 DEF crossed, next_crossed
<1>6. due' = [gates |-> DueGates(sig', next_bid(b), next_ask(b)),
              qty   |-> DueQty(sig'),
              known |-> silent[s] < CycleMod]
  BY <1>1 DEF Edge, Clock, HistoryStep
<1>7. due' \in Due
  BY <1>1, HistoryType
<1>8. pend_prev' = last_update[s] /\ pend_msg' = cur_cycle
  <2>1. s # NoSlot
    BY <1>2 DEF msg_applied
  <2>2. Risk!StalenessStep(RiskIn(b)) /\ RiskIn(b).applied = s
        /\ RiskIn(b).cur_cycle = cur_cycle
    BY <1>2 DEF Edge, Clock, Risk!RiskStep, RiskIn
  <2> QED
    BY <2>1, <2>2 DEF Risk!StalenessStep
<1>9. due'.qty = QtyNow(x)'
  BY <1>4, <1>6 DEF DueQty, QtyNow
<1>10. due'.known => due'.gates = GatesNow(x)'
  <2> SUFFICES ASSUME due'.known PROVE due'.gates = GatesNow(x)'
    OBVIOUS
  <2>1. silent[s] < CycleMod
    BY <1>6
  <2>2. Risk!Elapsed(pend_prev', pend_msg') = silent[s]
    BY <1>3, <1>8, <2>1 DEF SilenceInv
  <2>3. due'.gates = DueGates(x, bid'[s], ask'[s])
    BY <1>3, <1>6
  <2> HIDE DEF s, b
  <2> QED
    BY <1>2, <1>4, <2>2, <2>3 DEF DueGates, GatesNow
<1> QED
  BY <1>2, <1>5, <1>7, <1>9, <1>10 DEF Faithful

(* The gates of a faithful intent, as the risk engine evaluates them. *)
LEMMA FiredNow ==
  ASSUME TypeOK, NEW b, NEW x \in Intent, Aligned = x, Faithful(x), adverse_risk = verdict
  PROVE  /\ Risk!Fired(RiskIn(b)) \cap Judged = GatesNow(x)
         /\ Risk!ReducedQty(RiskIn(b)) = QtyNow(x)
<1> DEFINE in == RiskIn(b)
<1>1. /\ in.sig = x /\ in.cfg = cfg
      /\ in.feed.seq_gap = seq_gap /\ in.feed.adverse = verdict
      /\ in.feed.crossed = crossed
  BY DEF RiskIn
<1>2. x.slot \in Slot /\ ~crossed[x.slot]
  BY DEF Intent, Faithful
<1>3. in.feed.bid[x.slot] = bid[x.slot].price /\ in.feed.ask[x.slot] = ask[x.slot].price
  BY <1>2 DEF RiskIn
<1> HIDE DEF in
<1>4. Risk!ReducedQty(in) = QtyNow(x)
  BY <1>1 DEF Risk!ReducedQty, QtyNow
<1>5. Risk!Mid(in) = (bid[x.slot].price + ask[x.slot].price) \div 2
  BY <1>1, <1>3 DEF Risk!Mid
<1>6. ASSUME NEW g \in Judged
      PROVE  Risk!GateFires(g, in) <=> g \in GatesNow(x)
  <2>1. g \in 1 .. 9 /\ g # Risk!KILL /\ g # Risk!POSITION /\ g # Risk!THROTTLE
    BY DEF Judged, Risk!KILL, Risk!SIZE, Risk!POSITION, Risk!BAND, Risk!STALE, Risk!SEQGAP,
           Risk!CROSSED, Risk!THROTTLE, Risk!ML
  <2>2. g \in GatesNow(x) <=>
          \/ g = Risk!SIZE   /\ x.qty > cfg.max_order_qty
          \/ g = Risk!BAND   /\ Risk!Abs(x.price - Risk!Mid(in)) > cfg.price_band
          \/ g = Risk!STALE  /\ Risk!Elapsed(pend_prev, pend_msg) > cfg.max_age
          \/ g = Risk!SEQGAP /\ seq_gap
          \/ g = Risk!ML     /\ verdict /\ ~cfg.ml_action
    BY <1>5, <2>1 DEF GatesNow
  <2> QED
    BY <1>1, <1>2, <2>1, <2>2 DEF Risk!GateFires
<1>7. GatesNow(x) \subseteq Judged
  BY DEF GatesNow, Judged
<1>8. Judged \subseteq Risk!Gate
  BY DEF Judged, Risk!Gate, Risk!SIZE, Risk!BAND, Risk!STALE, Risk!SEQGAP, Risk!CROSSED, Risk!ML
<1>9. Risk!Fired(in) \cap Judged = GatesNow(x)
  BY <1>6, <1>7, <1>8 DEF Risk!Fired
<1> QED
  BY <1>4, <1>9 DEF in

LEMMA JudgeStep ==
  ASSUME Matched, TypeOK, PathInv, VerdictInv, JudgeInv, SilenceInv, NEW w, Edge(w)
  PROVE  JudgeInv'
<1>1. /\ sig # NoIntent => since = 1
      /\ aligned[1] # NoIntent => since = 2
      /\ aligned[2] # NoIntent => since = 3
      /\ aligned[3] # NoIntent => since = 4
      /\ ml_path[1] # NoEvent => since = 1
      /\ ml_path[2] # NoEvent => since = 2
      /\ ml_path[3] # NoEvent => since = 3
      /\ Decided => since = 5
  BY Depth DEF PathInv
<1>2. \A i \in 1 .. 3 : i = 1 \/ i = 2 \/ i = 3
  OBVIOUS
<1>3. \A x \in Intent : sig = x \/ aligned[1] = x \/ aligned[2] = x \/ aligned[3] = x
                          => Faithful(x)
  BY Depth DEF JudgeInv
<1>4. \A x \in Intent : x # NoIntent
  BY AbsentAssumption
<1>5. ASSUME NEW x \in Intent, NEW i \in 1 .. 3, aligned'[i] = x
      PROVE  Faithful(x)'
  <2>1. sig = x \/ aligned[1] = x \/ aligned[2] = x
    BY <1>2, <1>5, Moved
  <2>2. Faithful(x) /\ since < 5 /\ ~Decided
    BY <1>1, <1>3, <1>4, <2>1
  <2>3. ~w.complete
    BY <2>2, Later
  <2> QED
    BY <2>2, <2>3, Frozen, FaithfulSame
<1>6. JudgedByItsOwnMessage'
  <2> SUFFICES ASSUME Decided', due'.known
               PROVE  /\ order'.fired \cap Judged = due'.gates
                      /\ order'.valid => order'.qty = due'.qty
    BY DEF JudgedByItsOwnMessage
  <2>1. aligned[3] # NoIntent /\ Aligned = aligned[3] /\ aligned[3] \in Intent
    BY DecidedOnIntent, Moved, Depth DEF TypeOK
  <2>2. PICK x \in Intent : Aligned = x /\ aligned[3] = x
    BY <2>1
  <2>3. Faithful(x) /\ since = 4 /\ ~Decided
    BY <1>1, <1>3, <2>1, <2>2
  <2>4. adverse_risk = verdict
    <3>1. ml_path[1] = NoEvent /\ ml_path[2] = NoEvent /\ ml_path[3] = NoEvent
      BY <1>1, <2>3
    <3> QED
      BY <1>2, <3>1, Depth DEF VerdictInv
  <2>5. due' = due
    BY <2>3, Later, Frozen
  <2> DEFINE in == RiskIn(BookIn(w))
  <2>6. /\ Risk!Fired(in) \cap Judged = GatesNow(x)
        /\ Risk!ReducedQty(in) = QtyNow(x)
    BY <2>2, <2>3, <2>4, FiredNow
  <2>7. Risk!DecisionStep(in, Risk!Accepted(in)) /\ in.sig = x
    BY <2>2 DEF Edge, Clock, Risk!RiskStep, RiskIn
  <2> HIDE DEF in
  <2>8. /\ order'.fired = Risk!Fired(in) /\ order'.valid = Risk!Accepted(in)
        /\ order'.valid => order'.qty = Risk!ReducedQty(in)
    BY <1>4, <2>7 DEF Risk!DecisionStep
  <2> QED
    BY <2>3, <2>5, <2>6, <2>8 DEF Faithful
<1> QED
  BY <1>5, <1>6, FaithfulNew, Depth DEF JudgeInv

-----------------------------------------------------------------------------
(* The two counters. *)

LEMMA MarginMoves ==
  ASSUME TypeOK, MarginInv, NEW w, Edge(w)
  PROVE  /\ margin' \in Nat
         /\ ml_adverse_pulse /\ Risk!ML \notin order.fired /\ ~w.counter_clear => margin' >= 1
<1> DEFINE fired == Risk!ML \in order.fired
           m == margin
           c == Count(ml_adverse_pulse)
           d == Count(fired)
<1>1. m \in Nat /\ (fired => m >= 1) /\ MaxMargin \in Nat /\ MaxMargin >= 1
  BY PipelineAssumption DEF MarginInv
<1>2. /\ c \in {0, 1} /\ d \in {0, 1} /\ (~fired => d = 0) /\ (fired => d = 1)
      /\ (ml_adverse_pulse => c = 1)
  BY DEF Count, TypeOK
<1>3. margin' = IF w.counter_clear THEN 0 ELSE Least(m + c - d, MaxMargin)
  BY DEF Edge, Clock, MarginStep
<1> HIDE DEF fired, m, c, d
<1>4. m + c - d \in Nat /\ (c = 1 /\ d = 0 => m + c - d >= 1)
  BY <1>1, <1>2
<1>5. Least(m + c - d, MaxMargin) \in Nat
      /\ (c = 1 /\ d = 0 => Least(m + c - d, MaxMargin) >= 1)
  BY <1>1, <1>4 DEF Least
<1> QED
  BY <1>2, <1>3, <1>5 DEF fired

LEMMA MarginStepInv ==
  ASSUME Matched, TypeOK, PathInv, MarginInv, NEW w, Edge(w)
  PROVE  MarginInv'
<1>1. margin' \in Nat
  BY MarginMoves
<1>2. Risk!ML \in order'.fired => margin' >= 1
  <2> SUFFICES ASSUME Risk!ML \in order'.fired PROVE margin' >= 1
    OBVIOUS
  <2>1. Decided'
    BY DEF Decided
  <2>2. aligned[3] # NoIntent /\ Aligned = aligned[3]
    BY <2>1, DecidedOnIntent, Moved
  <2>3. since = 4 /\ (adverse_risk => ml_adverse_pulse) /\ (Decided => since = 5)
    BY <2>2, Depth DEF PathInv
  <2>4. Risk!ML \notin order.fired
    BY <2>3 DEF Decided
  <2>5. ~w.counter_clear
    BY <2>3, Later DEF Edge, WireFacts
  <2>6. adverse_risk
    <3> DEFINE in == RiskIn(BookIn(w))
    <3>1. Risk!DecisionStep(in, Risk!Accepted(in)) /\ in.feed.adverse = adverse_risk
          /\ in.sig = Aligned
      BY DEF Edge, Clock, Risk!RiskStep, RiskIn
    <3> HIDE DEF in
    <3>2. Risk!ML \in Risk!Fired(in)
      BY <2>2, <3>1 DEF Risk!DecisionStep
    <3>3. Risk!GateFires(Risk!ML, in)
      BY <3>2 DEF Risk!Fired
    <3>4. in.feed.adverse
      BY <3>3 DEF Risk!GateFires, Risk!KILL, Risk!SIZE, Risk!POSITION, Risk!BAND,
                  Risk!STALE, Risk!SEQGAP, Risk!CROSSED, Risk!THROTTLE, Risk!ML
    <3> QED
      BY <3>1, <3>4
  <2> QED
    BY <2>3, <2>4, <2>5, <2>6, MarginMoves
<1> QED
  BY <1>1, <1>2 DEF MarginInv

-----------------------------------------------------------------------------

LEMMA InvInit == Matched /\ Init => IInv
<1> SUFFICES ASSUME Matched, Init PROVE IInv
  OBVIOUS
<1>1. TypeOK
  BY InitType
<1>2. /\ sig = NoIntent /\ order.valid = FALSE /\ order.fired = {} /\ margin = 0
      /\ verdict = FALSE /\ adverse_risk = FALSE
      /\ cur_cycle = 0 /\ silent = [s \in Slot |-> 0] /\ last_update = [s \in Slot |-> 0]
  BY DEF Init, SigReset, MlReset, Risk!RiskReset, Risk!NoDecision
<1>3. /\ \A i \in 1 .. ALIGN_DEPTH : aligned[i] = NoIntent
      /\ \A i \in 1 .. MlStages : ml_path[i] = NoEvent
      /\ ALIGN_DEPTH \in 1 .. ALIGN_DEPTH
      /\ 1 .. MlStages - 1 \subseteq 1 .. ALIGN_DEPTH
  BY Depth DEF Init
<1>4. ~Decided
  BY <1>2 DEF Decided
<1>5. PathInv
  BY <1>2, <1>3, <1>4 DEF PathInv
<1>6. VerdictInv
  BY <1>2, <1>3, AbsentAssumption DEF VerdictInv
<1>7. JudgeInv
  BY <1>2, <1>3, <1>4, AbsentAssumption DEF JudgeInv, JudgedByItsOwnMessage
<1>8. SilenceInv
  <2>1. (0 - 0) % CycleMod = 0
    BY PipelineAssumption
  <2> QED
    BY <1>2, <2>1 DEF SilenceInv, Risk!Elapsed
<1>9. MarginInv
  BY <1>2 DEF MarginInv
<1> QED
  BY <1>1, <1>5, <1>6, <1>7, <1>8, <1>9 DEF IInv

LEMMA InvStutter ==
  ASSUME IInv, UNCHANGED vars PROVE IInv'
<1>1. /\ bid' = bid /\ ask' = ask /\ seq_gap' = seq_gap /\ cfg' = cfg
      /\ pend_prev' = pend_prev /\ pend_msg' = pend_msg /\ verdict' = verdict /\ due' = due
      /\ sig' = sig /\ aligned' = aligned /\ ml_path' = ml_path /\ since' = since
      /\ adverse_risk' = adverse_risk /\ ml_adverse_pulse' = ml_adverse_pulse
      /\ order' = order /\ margin' = margin /\ silent' = silent
      /\ last_update' = last_update /\ cur_cycle' = cur_cycle
  BY DEF vars, seqVars, bookVars, mlVars, riskVars
<1>2. TypeOK'
  BY Stuttering DEF IInv
<1>3. PathInv'
  BY <1>1 DEF IInv, PathInv, Decided
<1>4. VerdictInv'
  BY <1>1, VerdictSame DEF IInv, VerdictInv
<1>5. JudgeInv'
  BY <1>1, FaithfulSame DEF IInv, JudgeInv, JudgedByItsOwnMessage, Decided
<1>6. SilenceInv' /\ MarginInv'
  BY <1>1 DEF IInv, SilenceInv, MarginInv
<1> QED
  BY <1>2, <1>3, <1>4, <1>5, <1>6 DEF IInv

LEMMA InvSafe == ASSUME Matched PROVE Spec => []IInv
<1>1. Init => IInv
  BY InvInit
<1>2. IInv /\ [Next]_vars => IInv'
  <2>1. ASSUME IInv, Next PROVE IInv'
    <3>1. PICK w : Edge(w)
      BY <2>1, SomeEdge DEF IInv, TypeOK
    <3> QED
      BY <2>1, <3>1, TypeStep, PathStep, VerdictStep, JudgeStep, SilenceStep,
         MarginStepInv DEF IInv
  <2> QED
    BY <2>1, InvStutter
<1> QED
  BY <1>1, <1>2, PTL DEF Spec

(* Every intent is judged by the book, the gap flag, the silence and the   *)
(* verdict of the message it came from, for every spacing above the age of *)
(* a decision: what tob_top.v relies on in wiring registered levels of     *)
(* other blocks to the gates.                                              *)
THEOREM JudgedSafe ==
  ASSUME Matched
  PROVE  Spec => []JudgedByItsOwnMessage
<1>1. IInv => JudgedByItsOwnMessage
  BY DEF IInv, JudgeInv
<1> QED
  BY <1>1, InvSafe, PTL

(* What gate ML rejected was counted adverse first (section 10), whatever  *)
(* is cleared in between.                                                  *)
THEOREM RejectionsSafe ==
  ASSUME Matched
  PROVE  Spec => []RejectionsWereAdverse
<1>1. IInv => RejectionsWereAdverse
  BY DEF IInv, MarginInv, RejectionsWereAdverse
<1> QED
  BY <1>1, InvSafe, PTL

=============================================================================
