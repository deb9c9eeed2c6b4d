----------------------------- MODULE SignalEngine -----------------------------
(***************************************************************************)
(* rtl/signal_engine.v: the spread and imbalance rule, evaluated on the    *)
(* applied slot's state after every book-modifying message.                *)
(*                                                                         *)
(* The wires are the record "in": upd (book_upd_valid), slot, bid, ask,    *)
(* crossed (the state after the message), and the configuration.           *)
(***************************************************************************)
EXTENDS Integers

CONSTANTS
  PriceMod,   \* where prices and spreads wrap: 2^32
  QtyMod,     \* where quantities wrap: 2^32
  NoIntent    \* sig_valid is low

VARIABLE
  sig   \* the registered order intent, or NoIntent

SigReset == sig = NoIntent

(* Mutant: the product is truncated to the width of a quantity. *)
Shifted_Narrow(qty, cfg) == (qty * cfg.imb) % QtyMod

(* cfg.imb is 2^IMB_SHIFT.  The product is taken at 35 bits (D15), three   *)
(* more than a quantity has.                                               *)
Shifted(qty, cfg) == (qty * cfg.imb) % (8 * QtyMod)

SpreadOk(in) == (in.ask.price - in.bid.price) % PriceMod >= in.cfg.min_spread

BaseOk(in) == in.bid.valid /\ in.ask.valid /\ ~in.crossed /\ SpreadOk(in)

BuyOk(in) == BaseOk(in) /\ in.bid.qty > Shifted(in.ask.qty, in.cfg)
SellOk(in) == BaseOk(in) /\ in.ask.qty > Shifted(in.bid.qty, in.cfg)

err_signal_conflict(in) == in.upd /\ BuyOk(in) /\ SellOk(in)

Order(slot, side, price, qty) ==
  [slot |-> slot, side |-> side, price |-> price, qty |-> qty]

(* A buy at the ask, a sell at the bid, nothing on a conflict. *)
SignalStep(in) ==
  sig' = IF ~in.upd \/ err_signal_conflict(in) THEN NoIntent
         ELSE IF BuyOk(in)
              THEN Order(in.slot, "bid", in.ask.price, in.cfg.order_qty)
         ELSE IF SellOk(in)
              THEN Order(in.slot, "ask", in.bid.price, in.cfg.order_qty)
         ELSE NoIntent

=============================================================================
