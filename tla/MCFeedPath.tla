------------------------------ MODULE MCFeedPath ------------------------------
(* Small instances of the feed path for TLC. *)
EXTENDS FeedPath

CONSTANTS
  Quotes,       \* <<side, price, qty>> of the quotes sent
  Imbalances    \* values of 2^IMB_SHIFT

Msg(type, symbol, side, price, qty, snapshot) ==
  [type |-> type, symbol |-> symbol, side |-> side, price |-> price,
   qty |-> qty, snapshot |-> snapshot]

QuoteContent == {Msg(QUOTE, 1, q[1], q[2], q[3], FALSE) : q \in Quotes}

FullContent ==
  QuoteContent \cup
  { Msg(QUOTE, 2, BID, 1, 1, FALSE), Msg(CLEAR, 1, BID, 0, 0, FALSE),
    Msg(TRADE, 1, ASK, 1, 1, FALSE), Msg(HEARTBEAT, 3, BID, 0, 0, TRUE) }

MCConfig ==
  {[symbol |-> [s \in Slot |-> 1 + s], symbol_en |-> [s \in Slot |-> TRUE],
    min_spread |-> 1, imb |-> i, order_qty |-> 1] :
     i \in Imbalances}

(* On both sides of the rule for every shift, large enough for a shifted   *)
(* quantity to leave its width, and a book that crosses.                   *)
MCQuotes == {<<"bid", 1, 9>>, <<"bid", 2, 1>>, <<"ask", 3, 9>>,
             <<"ask", 2, 4>>, <<"ask", 1, 0>>}

=============================================================================
