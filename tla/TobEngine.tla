------------------------------ MODULE TobEngine ------------------------------
(***************************************************************************)
(* rtl/symbol_filter.v and rtl/tob_engine.v: which slot a message is for,  *)
(* and the best bid and ask of every slot.                                 *)
(*                                                                         *)
(* The wires are the record "in": valid (md_parser.v's msg_valid), type,   *)
(* symbol, side, price, qty, dup (seq_monitor.v's err_seq_dup) and the     *)
(* configured symbol and enable bit of each slot.                          *)
(***************************************************************************)
EXTENDS Naturals

CONSTANTS
  Slot,     \* 0 .. NUM_SYMBOLS-1
  NoSlot    \* no slot matches

(* Slots are numbered: the loop of symbol_filter.v finds the lowest. *)
ASSUME SlotAssumption ==
  /\ NoSlot \notin Slot
  /\ \A S \in SUBSET Slot : S # {} => \E s \in S : \A r \in S : s <= r

VARIABLES
  bid,    \* [Slot -> the best bid: price, qty, valid]
  ask     \* [Slot -> the best ask]

bookVars == <<bid, ask>>

BID == "bid"
ASK == "ask"

QUOTE == "quote"
TRADE == "trade"
CLEAR == "clear"
HEARTBEAT == "heartbeat"

NoQuote == [price |-> 0, qty |-> 0, valid |-> FALSE]

BookReset == bid = [s \in Slot |-> NoQuote] /\ ask = [s \in Slot |-> NoQuote]

-----------------------------------------------------------------------------
(* symbol_filter.v: the lowest enabled slot that watches the symbol. *)

Matches(s, in) == in.cfg.symbol_en[s] /\ in.cfg.symbol[s] = in.symbol

filt_slot(in) ==
  IF in.valid /\ \E s \in Slot : Matches(s, in)
  THEN CHOOSE s \in Slot : Matches(s, in) /\ \A r \in Slot : Matches(r, in) => s <= r
  ELSE NoSlot

-----------------------------------------------------------------------------
(* tob_engine.v. *)

(* Mutant: duplicates are applied. *)
msg_applied_Duplicates(in) == filt_slot(in) # NoSlot

msg_applied(in) == filt_slot(in) # NoSlot /\ ~in.dup

book_upd_valid(in) == msg_applied(in) /\ in.type \in {QUOTE, CLEAR}

(* A quote replaces its side, but a quantity of zero keeps the old price.  *)
Updated(old, side, in) ==
  IF in.type = QUOTE /\ in.side = side
  THEN [price |-> IF in.qty # 0 THEN in.price ELSE old.price,
        qty   |-> in.qty,
        valid |-> in.qty # 0]
  ELSE IF in.type = CLEAR THEN [old EXCEPT !.valid = FALSE]
  ELSE old

(* The applied slot as it will be after this message (D23). *)
next_bid(in) == Updated(bid[filt_slot(in)], BID, in)
next_ask(in) == Updated(ask[filt_slot(in)], ASK, in)

Crossing(b, a) == b.valid /\ a.valid /\ b.price >= a.price

crossed == [s \in Slot |-> Crossing(bid[s], ask[s])]

next_crossed(in) == Crossing(next_bid(in), next_ask(in))

BookStep(in) ==
  IF msg_applied(in)
  THEN /\ bid' = [bid EXCEPT ![filt_slot(in)] = next_bid(in)]
       /\ ask' = [ask EXCEPT ![filt_slot(in)] = next_ask(in)]
  ELSE UNCHANGED bookVars

=============================================================================
