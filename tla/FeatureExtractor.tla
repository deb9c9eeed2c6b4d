--------------------------- MODULE FeatureExtractor ---------------------------
(***************************************************************************)
(* rtl/feature_extractor.v: eight features of every book event, one cycle  *)
(* after it, from histories of its slot.  Signed values are two's          *)
(* complement words.                                                       *)
(*                                                                         *)
(* The wires are the record "in": applied, book (QUOTE or CLEAR), clear,   *)
(* trade, side, slot and the slot's book after the message.                *)
(***************************************************************************)
EXTENDS Integers, Sequences, FiniteSets, Functions

CONSTANTS
  HistorySlot,   \* 0 .. NUM_SYMBOLS-1
  WORD,          \* 2^32
  WINDOW

VARIABLES
  prev,             \* prev_bp, prev_bq, prev_ap, prev_aq of each slot
  last_trade_dir,
  seen_first,
  win,              \* win_upd and win_abs of each slot, entry 1 the newest
  feat              \* feat_valid, feat_slot and feat_f0 .. feat_f7

extractorVars == <<prev, last_trade_dir, seen_first, win, feat>>

HALF == WORD \div 2
NoEntry == [upd |-> FALSE, abs |-> 0]

ExtractorReset ==
  /\ prev = [s \in HistorySlot |-> [bp |-> 0, bq |-> 0, ap |-> 0, aq |-> 0]]
  /\ last_trade_dir = [s \in HistorySlot |-> 0]
  /\ seen_first = [s \in HistorySlot |-> FALSE]
  /\ win = [s \in HistorySlot |-> [j \in 1 .. WINDOW |-> NoEntry]]
  /\ feat = [valid |-> FALSE, slot |-> 0, f |-> [i \in 1 .. 8 |-> 0]]

sat_sub(a, b) ==
  IF a - b > HALF - 1 THEN HALF - 1
  ELSE IF a - b < -HALF THEN HALF
  ELSE (a - b) % WORD

first_ev(in) == in.clear \/ ~seen_first[in.slot]
MidWord(bp, ap) == (bp + ap) \div 2

c_f1(in) ==
  LET p == prev[in.slot]
  IN IF first_ev(in) THEN 0
     ELSE sat_sub(MidWord(in.bid.price, in.ask.price), MidWord(p.bp, p.ap))

c_absf1(in) == IF c_f1(in) >= HALF THEN WORD - c_f1(in) ELSE c_f1(in)

(* Mutant: a clear leaves the entries before it. *)
WindowShifted_Uncleared(in) ==
  [j \in 1 .. WINDOW |->
     IF j = 1 THEN [upd |-> in.book, abs |-> IF in.book THEN c_absf1(in) ELSE 0]
     ELSE win[in.slot][j - 1]]

(* The window with this event's entry; a clear leaves no other. *)
WindowShifted(in) ==
  [j \in 1 .. WINDOW |->
     IF j = 1 THEN [upd |-> in.book, abs |-> IF in.book THEN c_absf1(in) ELSE 0]
     ELSE IF in.clear THEN NoEntry
     ELSE win[in.slot][j - 1]]

(* F7 saturates at its output only. *)
c_f7(in) ==
  LET acc == SumFunction([j \in 1 .. WINDOW |-> WindowShifted(in)[j].abs])
  IN IF acc >= WORD THEN WORD - 1 ELSE acc

Features(in) ==
  LET p == prev[in.slot]
      change(now, before) == IF first_ev(in) THEN 0 ELSE sat_sub(now, before)
  IN <<IF in.ask.price >= in.bid.price THEN in.ask.price - in.bid.price ELSE 0,
       c_f1(in),
       sat_sub(in.bid.qty, in.ask.qty),
       change(in.bid.qty, p.bq),
       change(in.ask.qty, p.aq),
       Cardinality({j \in 1 .. WINDOW : WindowShifted(in)[j].upd}),
       IF in.clear THEN 0 ELSE last_trade_dir[in.slot],
       c_f7(in)>>

TradeDir(in) ==
  IF in.clear THEN 0
  ELSE IF in.trade THEN IF in.is_bid THEN 1 ELSE WORD - 1
  ELSE last_trade_dir[in.slot]

ExtractorStep(in) ==
  /\ feat' = IF in.book THEN [valid |-> TRUE, slot |-> in.slot, f |-> Features(in)]
             ELSE [feat EXCEPT !.valid = FALSE]
  /\ IF in.applied
     THEN /\ win' = [win EXCEPT ![in.slot] = WindowShifted(in)]
          /\ last_trade_dir' = [last_trade_dir EXCEPT ![in.slot] = TradeDir(in)]
     ELSE UNCHANGED <<win, last_trade_dir>>
  /\ IF in.book
     THEN /\ prev' = [prev EXCEPT ![in.slot] =
                        [bp |-> in.bid.price, bq |-> in.bid.qty,
                         ap |-> in.ask.price, aq |-> in.ask.qty]]
          /\ seen_first' = [seen_first EXCEPT ![in.slot] = TRUE]
     ELSE UNCHANGED <<prev, seen_first>>

=============================================================================
