------------------------------- MODULE Pipeline -------------------------------
(***************************************************************************)
(* From a completed message to the risk engine's decision, on one clock:   *)
(* sequence monitor, book and signal engine, the alignment delay, the ML   *)
(* branch and the risk engine, wired as in tob_top.v.                      *)
(*                                                                         *)
(* A message is judged over five cycles, by gates that read registers of   *)
(* other blocks on the last of them.  The history variables say what the   *)
(* message itself demanded on the cycle it completed.                      *)
(***************************************************************************)
EXTENDS SeqMonitor, TobEngine, SignalEngine, MlPolicy

CONSTANTS
  ALIGN_DEPTH,   \* stages of the signal's alignment delay
  SPACING,       \* bytes of a message: least distance of two completions
  Half,          \* half the range of a 32-bit word: 2^31
  CycleMod,      \* where the free-running cycle counter wraps: 2^32
  Content,       \* what a feed message can say
  Config,        \* configurations a CSR write can leave in force
  Score,         \* scores of the classifier
  MaxSeq,        \* bound of the sequence numbers sent
  MaxMargin      \* bound of the counter difference, below

ASSUME PipelineAssumption ==
  /\ ALIGN_DEPTH \in Nat \ {0} /\ SPACING \in Nat \ {0}
  /\ CycleMod \in Nat \ {0} /\ MaxSeq \in Nat /\ MaxSeq + 1 < SeqMod
  /\ PriceMod \in Nat \ {0} /\ QtyMod \in Nat \ {0} /\ QtyMod <= 2 * Half
  /\ Half \in Nat \ {0} /\ MaxMargin \in Nat \ {0}

(* A feed message has the fields of 16 bytes, and a type the parser takes. *)
ASSUME ContentAssumption ==
  \A m \in Content :
    /\ m.type \in {QUOTE, TRADE, CLEAR, HEARTBEAT}
    /\ m.price \in 0 .. PriceMod - 1 /\ m.qty \in 0 .. QtyMod - 1
    /\ m.snapshot \in BOOLEAN

(* What the width of the registers says; ml_reduce is a power of two. *)
ASSUME ConfigAssumption ==
  \A c \in Config : c.order_qty \in 0 .. QtyMod - 1 /\ c.ml_reduce \in Nat \ {0}

VARIABLES
  kill_latched, last_update, pend_prev, pend_msg, refill_ctr, token_bucket,
  position, order,   \* risk_engine.v
  aligned,           \* u_align: intents on their way to the risk engine
  ml_path,           \* events in the features, the normalizer, the classifier
  cfg,               \* the CSR registers
  cur_cycle,
  since,             \* cycles since the last message completed, to SPACING
  margin,            \* cnt_ml_adverse less cnt_rej_ml, in csr_block.v
  silent,            \* history: cycles since a slot's last message, to CycleMod
  verdict,           \* history: the verdict on the last book event
  due                \* history: what the last intent's message demanded

riskVars == <<kill_latched, last_update, pend_prev, pend_msg, refill_ctr,
              token_bucket, position, order>>
vars == <<seqVars, bookVars, sig, mlVars, riskVars, aligned, ml_path, cfg,
          cur_cycle, since, margin, silent, verdict, due>>

Risk == INSTANCE RiskEngine

CSR == "csr"
BAD == "bad"

(* feature_extractor.v, feature_normalizer.v, ml_classifier_wrap.v. *)
MlStages == 3

Init ==
  /\ SeqReset /\ BookReset /\ SigReset /\ MlReset
  /\ cfg \in Config
  /\ Risk!RiskReset(cfg)
  /\ aligned = [i \in 1 .. ALIGN_DEPTH |-> NoIntent]
  /\ ml_path = [i \in 1 .. MlStages |-> NoEvent]
  /\ cur_cycle = 0
  /\ since = SPACING
  /\ margin = 0
  /\ silent = [s \in Slot |-> 0]
  /\ verdict = FALSE
  /\ due = NoIntent

-----------------------------------------------------------------------------
(* What the parser and the CSR decoder hold on a cycle. *)

NoContent == [type |-> BAD, symbol |-> 0, side |-> BID, price |-> 0, qty |-> 0,
              snapshot |-> FALSE]
CsrContent == [NoContent EXCEPT !.type = CSR]

(* A repeated, an expected or an early sequence number. *)
SeqNums == {expected_seq - 1, expected_seq, expected_seq + 1} \cap (0 .. MaxSeq)

Input(complete, m, seq, z) ==
  [complete |-> complete, msg |-> m, seq |-> seq, z |-> z,
   seq_gap_clear |-> FALSE, counter_clear |-> FALSE, cfg |-> cfg]

Quiet == Input(FALSE, NoContent, 0, 0)

Message(m, seq, z) == Input(TRUE, m, seq, z)

(* CTRL pulses, or a write of a configuration register. *)
Pulse(seq, g, c) ==
  [Input(TRUE, CsrContent, seq, 0) EXCEPT !.seq_gap_clear = g, !.counter_clear = c]

Write(seq, new) == [Input(TRUE, CsrContent, seq, 0) EXCEPT !.cfg = new]

-----------------------------------------------------------------------------
(* The wires between the blocks. *)

SeqIn(w) ==
  [complete |-> w.complete, seq |-> w.seq, snapshot |-> w.msg.snapshot,
   seq_gap_clear |-> w.seq_gap_clear]

BookIn(w) ==
  [valid |-> w.complete /\ w.msg.type \notin {BAD, CSR}, type |-> w.msg.type,
   symbol |-> w.msg.symbol, side |-> w.msg.side, price |-> w.msg.price,
   qty |-> w.msg.qty, dup |-> err_seq_dup(SeqIn(w)), cfg |-> cfg]

SigIn(b) ==
  IF book_upd_valid(b)
  THEN [upd |-> TRUE, slot |-> filt_slot(b), bid |-> next_bid(b),
        ask |-> next_ask(b), crossed |-> next_crossed(b), cfg |-> cfg]
  ELSE [upd |-> FALSE]

PolicyIn ==
  [event |-> ml_path[MlStages], bid |-> bid, ask |-> ask, crossed |-> crossed,
   seq_gap |-> seq_gap, cfg |-> cfg]

(* Mutant: the intent arrives a stage ahead of its verdict. *)
Aligned_Early == aligned[ALIGN_DEPTH - 1]

(* The intent that reaches the risk engine on this cycle. *)
Aligned == aligned[ALIGN_DEPTH]

RiskIn(b) ==
  [sig |-> Aligned,
   applied |-> IF msg_applied(b) THEN filt_slot(b) ELSE NoSlot,
   feed |-> [bid |-> [s \in Slot |-> bid[s].price],
             ask |-> [s \in Slot |-> ask[s].price],
             crossed |-> crossed, seq_gap |-> seq_gap, adverse |-> adverse_risk],
   kill_sw_n |-> TRUE, kill_clear |-> FALSE, cfg |-> cfg, cur_cycle |-> cur_cycle]

-----------------------------------------------------------------------------
(* One clock edge. *)

Least(a, b) == IF a <= b THEN a ELSE b
Count(b) == IF b THEN 1 ELSE 0

AlignStep ==
  aligned' = [i \in 1 .. ALIGN_DEPTH |-> IF i = 1 THEN sig ELSE aligned[i - 1]]

(* What the features make of a book event is left open: any score. *)
BookEvent(b, z) ==
  IF book_upd_valid(b) THEN [slot |-> filt_slot(b), z |-> z] ELSE NoEvent

(* An event moves on every cycle, behind the events before it. *)
MlPathStep(event) ==
  ml_path' = [i \in 1 .. MlStages |-> IF i = 1 THEN event ELSE ml_path[i - 1]]

(* The difference of two counters that CTRL bit 2 clears together. *)
MarginStep(w) ==
  margin' = IF w.counter_clear THEN 0
            ELSE Least(margin + Count(ml_adverse_pulse)
                              - Count(Risk!ML \in order.fired), MaxMargin)

ClockStep(w) ==
  /\ cur_cycle' = (cur_cycle + 1) % CycleMod
  /\ since' = IF w.complete THEN 1 ELSE Least(since + 1, SPACING)
  /\ cfg' = w.cfg

(* What the gates have to say of an intent, on the cycle its message      *)
(* completes: of the book the message leaves, of the gap flag and verdict  *)
(* with the message, of the silence before it.                             *)
DueGates(intent, b, a) ==
  {g \in 1 .. 9 :
     \/ g = Risk!SIZE   /\ intent.qty > cfg.max_order_qty
     \/ g = Risk!BAND   /\ Risk!Abs(intent.price - (b.price + a.price) \div 2) > cfg.price_band
     \/ g = Risk!STALE  /\ silent[intent.slot] > cfg.max_age
     \/ g = Risk!SEQGAP /\ seq_gap'
     \/ g = Risk!ML     /\ verdict' /\ ~cfg.ml_action}

DueQty(intent) ==
  IF verdict' /\ cfg.ml_action
  THEN IF intent.qty \div cfg.ml_reduce = 0 THEN 1 ELSE intent.qty \div cfg.ml_reduce
  ELSE intent.qty

(* The risk engine's decision on an intent is on its outputs. *)
Decided == order.valid \/ order.fired # {}

HistoryStep(b, z) ==
  LET s == filt_slot(b)
      unusable == \/ ~next_bid(b).valid \/ ~next_ask(b).valid
                  \/ next_crossed(b) \/ seq_gap'
  IN /\ silent' = [r \in Slot |-> IF msg_applied(b) /\ r = s THEN 1
                                  ELSE Least(silent[r] + 1, CycleMod)]
     /\ verdict' = IF ~book_upd_valid(b) THEN verdict
                   ELSE \/ unusable \/ z >= cfg.ml_th_high
                        \/ z > cfg.ml_th_low /\ verdict
     /\ due' = IF sig' = NoIntent THEN IF Decided THEN NoIntent ELSE due
               ELSE [gates |-> DueGates(sig', next_bid(b), next_ask(b)),
                     qty   |-> DueQty(sig'),
                     known |-> silent[s] < CycleMod]

Clock(w) ==
  LET b == BookIn(w)
  IN /\ SeqStep(SeqIn(w))
     /\ BookStep(b)
     /\ SignalStep(SigIn(b))
     /\ AlignStep
     /\ MlPathStep(BookEvent(b, w.z))
     /\ PolicyStep(PolicyIn)
     /\ Risk!RiskStep(RiskIn(b))
     /\ MarginStep(w)
     /\ ClockStep(w)
     /\ HistoryStep(b, w.z)

Idle == Clock(Quiet)

Receive ==
  /\ since >= SPACING
  /\ \E m \in Content, seq \in SeqNums, z \in Score : Clock(Message(m, seq, z))

Control ==
  /\ since >= SPACING
  /\ \E seq \in SeqNums :
       \/ \E g \in BOOLEAN, c \in BOOLEAN : Clock(Pulse(seq, g, c))
       \/ \E new \in Config : Clock(Write(seq, new))

Next == Idle \/ Receive \/ Control

Spec == Init /\ [][Next]_vars

-----------------------------------------------------------------------------

Quote == [price : 0 .. PriceMod - 1, qty : 0 .. QtyMod - 1, valid : BOOLEAN]
Intent == [slot : Slot, side : {BID, ASK}, price : 0 .. PriceMod - 1,
           qty : 0 .. QtyMod - 1]
Event == [slot : Slot, z : Score]

(* Gates that look at the message's book, feed and verdict. *)
Judged == {Risk!SIZE, Risk!BAND, Risk!STALE, Risk!SEQGAP, Risk!CROSSED, Risk!ML}

Due == [gates : SUBSET Judged, qty : Nat, known : BOOLEAN]

(* The values that stand for a wire being low are none of the wire's. *)
ASSUME AbsentAssumption ==
  NoIntent \notin Intent \cup Due /\ NoEvent \notin Event

TypeOK ==
  /\ expected_seq \in 0 .. MaxSeq + 1
  /\ seen_first \in BOOLEAN /\ seq_gap \in BOOLEAN
  /\ bid \in [Slot -> Quote] /\ ask \in [Slot -> Quote]
  /\ sig \in Intent \cup {NoIntent}
  /\ aligned \in [1 .. ALIGN_DEPTH -> Intent \cup {NoIntent}]
  /\ ml_path \in [1 .. MlStages -> Event \cup {NoEvent}]
  /\ adverse_risk \in BOOLEAN /\ ml_adverse_pulse \in BOOLEAN
  /\ last_update \in [Slot -> 0 .. CycleMod - 1]
  /\ pend_prev \in 0 .. CycleMod - 1 /\ pend_msg \in 0 .. CycleMod - 1
  /\ position \in [Slot -> -Half .. Half - 1]
  /\ order.fired \subseteq Risk!Gate
  /\ cfg \in Config
  /\ cur_cycle \in 0 .. CycleMod - 1
  /\ since \in 1 .. SPACING
  /\ margin \in Int
  /\ silent \in [Slot -> 0 .. CycleMod]
  /\ verdict \in BOOLEAN
  /\ due \in Due \cup {NoIntent}

(***************************************************************************)
(* Every intent is judged by its own message: the gates that block it five *)
(* cycles later are those its message demanded on the cycle it completed,  *)
(* and an order's size is the one its own verdict calls for.  The verdict, *)
(* the book, the gap flag and the pair of times gate STALE compares have   *)
(* come by different ways (D17, D23, D25; FR-41, FR-48).  A slot silent    *)
(* for a whole turn of the cycle counter is left out.                      *)
(***************************************************************************)
JudgedByItsOwnMessage ==
  Decided /\ due.known =>
    /\ order.fired \cap Judged = due.gates
    /\ order.valid => order.qty = due.qty

(***************************************************************************)
(* Spec section 10: "cnt_rej_ml <= cnt_ml_adverse", although the two count *)
(* at different stages, an event in the hysteresis band counts by the      *)
(* verdict it holds, and a clear can come at any message.                  *)
(***************************************************************************)
RejectionsWereAdverse == margin >= 0

=============================================================================
