------------------------------ MODULE MCPipeline ------------------------------
(* A small instance of the pipeline for TLC. *)
EXTENDS Pipeline

CONSTANTS
  Bids, Asks,   \* <<price, qty>> of the quotes sent
  MaxAge        \* cfg_max_age, in cycles

Msg(type, side, price, qty) ==
  [type |-> type, symbol |-> 1, side |-> side, price |-> price, qty |-> qty,
   snapshot |-> FALSE]

MCContent ==
  {Msg(QUOTE, BID, q[1], q[2]) : q \in Bids}
    \cup {Msg(QUOTE, ASK, q[1], q[2]) : q \in Asks}
    \cup {Msg(CLEAR, BID, 0, 0)}

MCBids == {<<1, 3>>}
MCAsks == {<<1, 1>>, <<3, 1>>, <<5, 1>>}

MCConfig ==
  {[symbol |-> [s \in Slot |-> 1], symbol_en |-> [s \in Slot |-> TRUE],
    min_spread |-> 1, imb |-> 2, order_qty |-> 2,
    max_order_qty |-> 2, max_position |-> 2, price_band |-> 1,
    max_age |-> MaxAge, token_max |-> 1, token_refill_cycles |-> 1,
    ml_action |-> a, ml_reduce |-> 2, ml_th_high |-> 2, ml_th_low |-> 0] :
     a \in BOOLEAN}

=============================================================================
