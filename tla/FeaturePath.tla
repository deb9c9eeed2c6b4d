------------------------------ MODULE FeaturePath ------------------------------
(***************************************************************************)
(* The ML branch of tob_top.v beside its Python references: the message's  *)
(* path from the book through features, normalizer, classifier and policy, *)
(* four cycles, and the calls of the references that a test bench makes    *)
(* when the message is applied.                                            *)
(*                                                                         *)
(* Symbol s is watched by slot s.  The normalizer has no reference in      *)
(* Python: Lane is the formula its own comment states.                     *)
(***************************************************************************)
EXTENDS TobEngine, FeatureExtractor, MlClassifier, MlPolicy, FeatureGolden, MlGolden

CONSTANTS
  SeqMod,
  SPACING,       \* bytes of a message: least distance of two completions
  Content,       \* what a feed message can say, and its distance in sequence
  Config,
  MaxMessages    \* bound of the messages sent

(* Both sides number slots alike and have eight features; a word has room  *)
(* for a count of the window.                                              *)
ASSUME PathAssumption ==
  /\ HistorySlot = Slot /\ Tracked = Slot
  /\ DOMAIN w_mem = 1 .. 8 /\ DOMAIN Weights = 1 .. 8
  /\ SeqMod \in Nat \ {0} /\ SPACING \in Nat \ {0} /\ MaxMessages \in Nat
  /\ WORD \in {2 * n : n \in 1 .. WORD} /\ WINDOW \in 1 .. WORD - 1

(* A feed message has the fields of 16 bytes, and a type the parser takes. *)
ASSUME ContentAssumption ==
  \A m \in Content :
    /\ m.type \in {QUOTE, TRADE, CLEAR, HEARTBEAT}
    /\ m.price \in 0 .. WORD - 1 /\ m.qty \in 0 .. WORD - 1
    /\ m.skew \in Int

(* No event is taken for the absence of one. *)
ASSUME EventAssumption == NoEvent \notin [slot : Slot \cup {0}, z : Int]

(* Offsets are words, scales powers of two. *)
ASSUME ConfigAssumption ==
  \A c \in Config :
    /\ \A i \in 1 .. 8 : c.offset[i] \in 0 .. NormWord - 1 /\ c.scale[i] \in Nat \ {0}
    /\ c.ml_th_high \in Int /\ c.ml_th_low \in Int

VARIABLES
  expected_seq, seen_message, seq_gap,   \* seq_monitor.v
  cfg,
  since,     \* cycles since the last message completed, to SPACING
  sent,      \* messages sent
  history    \* each slot's applied messages since its last clear, that one too

Seqs == INSTANCE SeqMonitor WITH seen_first <- seen_message

sequenceVars == <<expected_seq, seen_message, seq_gap>>
vars == <<sequenceVars, bookVars, extractorVars, classifierVars, mlVars,
          featureVars, mlGoldenVars, cfg, since, sent, history>>

Init ==
  /\ Seqs!SeqReset /\ BookReset /\ ExtractorReset /\ ClassifierReset /\ MlReset
  /\ FeatureInit /\ MlGoldenInit
  /\ cfg \in Config
  /\ since = SPACING
  /\ sent = 0
  /\ history = [s \in Slot |-> <<>>]

-----------------------------------------------------------------------------
(* The wires between the blocks. *)

NoMessage == [type |-> "none", symbol |-> 0, side |-> BID, price |-> 0, qty |-> 0,
              skew |-> 0]

SeqIn(m) ==
  [complete |-> m # NoMessage, seq |-> expected_seq + m.skew, snapshot |-> FALSE,
   seq_gap_clear |-> FALSE]

BookIn(m) ==
  [valid |-> m # NoMessage, type |-> m.type, symbol |-> m.symbol, side |-> m.side,
   price |-> m.price, qty |-> m.qty, dup |-> Seqs!err_seq_dup(SeqIn(m)),
   cfg |-> [symbol |-> [s \in Slot |-> s], symbol_en |-> [s \in Slot |-> TRUE]]]

(* Mutant: the features see the registered book (D23). *)
FeatureIn_Committed(b) ==
  IF ~msg_applied(b) THEN [applied |-> FALSE, book |-> FALSE]
  ELSE [applied |-> TRUE, book |-> book_upd_valid(b), clear |-> b.type = CLEAR,
        trade |-> b.type = TRADE, is_bid |-> b.side = BID, slot |-> filt_slot(b),
        bid |-> bid[filt_slot(b)], ask |-> ask[filt_slot(b)]]

FeatureIn(b) ==
  IF ~msg_applied(b) THEN [applied |-> FALSE, book |-> FALSE]
  ELSE [applied |-> TRUE, book |-> book_upd_valid(b), clear |-> b.type = CLEAR,
        trade |-> b.type = TRADE, is_bid |-> b.side = BID, slot |-> filt_slot(b),
        bid |-> next_bid(b), ask |-> next_ask(b)]

PolicyIn ==
  [event |-> IF ml.valid THEN [slot |-> ml.slot, z |-> ml.z] ELSE NoEvent,
   bid |-> bid, ask |-> ask, crossed |-> crossed, seq_gap |-> seq_gap, cfg |-> cfg]

-----------------------------------------------------------------------------
(* The references. *)

(* sat_[-128,127]((raw - offset) >>> shift) of a word's signed reading.    *)
Lane(raw, offset, scale) ==
  LET x == (AsSigned(raw % NormWord) - AsSigned(offset)) \div scale
  IN IF x < -ByteHalf THEN -ByteHalf ELSE IF x > ByteHalf - 1 THEN ByteHalf - 1 ELSE x

Lanes(v) == [i \in DOMAIN v |-> Lane(v[i], cfg.offset[i], cfg.scale[i])]

References(b) ==
  LET s == filt_slot(b)
  IN IF ~msg_applied(b) THEN UNCHANGED <<featureVars, mlGoldenVars>>
     ELSE IF book_upd_valid(b)
     THEN /\ on_book_event(s, b.type = CLEAR, next_bid(b), next_ask(b))
          /\ classify(Lanes(vector'), next_bid(b).valid, next_ask(b).valid,
                      next_crossed(b), seq_gap',
                      [high |-> cfg.ml_th_high, low |-> cfg.ml_th_low])
     ELSE /\ IF b.type = TRADE THEN on_trade(s, b.side = BID) ELSE on_heartbeat(s)
          /\ UNCHANGED mlGoldenVars

-----------------------------------------------------------------------------
(* One clock edge. *)

Chronicle(b) ==
  LET s == filt_slot(b)
      event == [type |-> b.type, is_bid |-> b.side = BID, bid |-> bid'[s], ask |-> ask'[s]]
  IN history' = IF ~msg_applied(b) THEN history
                ELSE [history EXCEPT ![s] = IF b.type = CLEAR THEN <<event>>
                                            ELSE Append(@, event)]

Clock(m) ==
  LET b == BookIn(m)
  IN /\ Seqs!SeqStep(SeqIn(m))
     /\ BookStep(b)
     /\ ExtractorStep(FeatureIn(b))
     /\ NormalizerStep(feat, cfg.offset, cfg.scale)
     /\ ClassifierStep
     /\ PolicyStep(PolicyIn)
     /\ References(b)
     /\ Chronicle(b)
     /\ UNCHANGED cfg

Idle == Clock(NoMessage) /\ since' = Least(since + 1, SPACING) /\ UNCHANGED sent

Receive ==
  /\ since >= SPACING
  /\ sent < MaxMessages
  /\ \E m \in Content : expected_seq + m.skew >= 0 /\ Clock(m)
  /\ since' = 1
  /\ sent' = sent + 1

Next == Idle \/ Receive

Spec == Init /\ [][Next]_vars

-----------------------------------------------------------------------------

Unsigned == 0 .. WORD - 1
HistoryEntry == [upd : BOOLEAN, abs : 0 .. HALF]

TypeOK ==
  /\ expected_seq \in 0 .. SeqMod - 1 /\ seen_message \in BOOLEAN /\ seq_gap \in BOOLEAN
  /\ prev \in [Slot -> [bp : Unsigned, bq : Unsigned, ap : Unsigned, aq : Unsigned]]
  /\ last_trade_dir \in [Slot -> {0, 1, WORD - 1}]
  /\ seen_first \in [Slot -> BOOLEAN]
  /\ win \in [Slot -> [1 .. WINDOW -> HistoryEntry]]
  /\ \A i \in 1 .. 8 : feat.f[i] \in Unsigned
  /\ \A i \in 1 .. 8 : norm.x[i] \in -ByteHalf .. ByteHalf - 1
  /\ adverse_risk \in BOOLEAN /\ held_risk \in BOOLEAN
  /\ ml_result.risk_level \in 0 .. MaxRisk
  /\ \A s \in Tracked : Len(states[s].window) <= MAX_WINDOW

(***************************************************************************)
(* "must match this bit-for-bit for every accepted event"                  *)
(* (feature_golden.py): shift registers and post-update wires on one side, *)
(* a list that keeps more than the window on the other.                    *)
(***************************************************************************)
FeaturesAgree ==
  feat.valid => feat.f = [i \in 1 .. 8 |-> vector[i] % WORD]

(***************************************************************************)
(* The features are a function of the slot's messages since its last clear *)
(* (D13, FR-21, FR-25), computed here from scratch: updates and mid moves  *)
(* among the last WINDOW messages of any kind, and the last trade's side.  *)
(* A clear forgets all of it but the prices its book keeps, and no other   *)
(* slot's message shows.                                                   *)
(***************************************************************************)
BookEvents(h) == {i \in DOMAIN h : h[i].type \in {QUOTE, CLEAR}}
MidOf(event) == (event.bid.price + event.ask.price) \div 2

MidMove(h, i) ==
  LET before == {j \in BookEvents(h) : j < i}
  IN IF i \notin BookEvents(h) \/ before = {} THEN 0
     ELSE sat_signed32(MidOf(h[i])
                         - MidOf(h[CHOOSE j \in before : \A k \in before : k <= j]))

LastTrade(h) ==
  LET trades == {i \in DOMAIN h : h[i].type = TRADE}
  IN IF trades = {} THEN 0
     ELSE IF h[CHOOSE i \in trades : \A j \in trades : j <= i].is_bid THEN 1 ELSE -1

FeaturesFromHistory ==
  feat.valid =>
    LET h == history[feat.slot]
        recent == {i \in DOMAIN h : i > Len(h) - WINDOW}
    IN /\ feat.f[2] = MidMove(h, Len(h)) % WORD
       /\ feat.f[6] = Cardinality(recent \cap BookEvents(h))
       /\ feat.f[7] = LastTrade(h) % WORD
       /\ feat.f[8] = Least(WORD - 1,
                            SumFunction([i \in recent |-> Absolute(MidMove(h, i))]))

(***************************************************************************)
(* The verdict in force once a message has gone through the branch is the  *)
(* reference's, though the policy reads the book and the gap flag three    *)
(* cycles after the message (FR-26, FR-31).                                *)
(***************************************************************************)
VerdictsAgree ==
  ~feat.valid /\ ~norm.valid /\ ~ml.valid => adverse_risk = ml_result.adverse_risk

=============================================================================
