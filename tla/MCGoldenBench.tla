---------------------------- MODULE MCGoldenBench ----------------------------
(* Small instances of the reference model's bench for TLC. *)
EXTENDS GoldenBench

Base ==
  [num_symbols |-> 1, symbols |-> <<1, 3>>, symbol_en |-> <<TRUE, TRUE>>,
   min_spread |-> 2, imb |-> 2, order_qty |-> 2, max_order_qty |-> 2,
   max_position |-> 3, price_band |-> 9, max_age |-> 4, token_max |-> 2,
   token_refill_cycles |-> 3, ml_action |-> 0, ml_reduce |-> 2,
   cfg_reject_report |-> FALSE]

(* Refusing and reducing; a position that fills, and a bucket that empties.*)
Refusing == [Base EXCEPT !.cfg_reject_report = TRUE]
Reducing == [Base EXCEPT !.ml_action = 1, !.max_position = 9, !.token_max = 3,
                            !.token_refill_cycles = 6]
MCConfigs == {Refusing, Reducing}

Say(type, symbol, side, price, qty, snapshot, reserved) ==
  [msg_type |-> type, symbol_id |-> symbol, side |-> side, price |-> price,
   quantity |-> qty, snapshot |-> snapshot, reserved |-> reserved]

ThinBid == Say(MSG_QUOTE, 1, SIDE_BID, 4, 1, FALSE, FALSE)
ThickBid == Say(MSG_QUOTE, 1, SIDE_BID, 4, 9, FALSE, FALSE)
NoAsk == Say(MSG_QUOTE, 1, SIDE_ASK, 3, 0, FALSE, FALSE)
ThinAsk == Say(MSG_QUOTE, 1, SIDE_ASK, 6, 1, FALSE, FALSE)
ThickAsk == Say(MSG_QUOTE, 1, SIDE_ASK, 6, 8, FALSE, FALSE)
Cancel == Say(MSG_CLEAR, 1, SIDE_BID, 0, 0, FALSE, FALSE)
Told == Say(MSG_TRADE, 1, SIDE_ASK, 0, 0, TRUE, FALSE)
Heartbeat == Say(MSG_HEARTBEAT, 2, SIDE_BID, 0, 0, FALSE, FALSE)

(* Numbers: lost, late and repeated messages of every fate. *)
NUMBERS == "numbers"
(* Orders: books on both sides of the rule, at every pace. *)
ORDERS == "orders"

(* The kill switch comes and goes. *)
KILLS == "kills"

MCTraffic == {NUMBERS, ORDERS, KILLS}
MCScenarios == MCTraffic \cup {NORMAL, CROSSED, GAPS, MALFORMED, BURST, TRIGGER}
MCSetup == [s \in MCScenarios |->
  IF s = ORDERS THEN MCConfigs ELSE {Refusing}]

MCContent == [t \in MCTraffic |->
  CASE t = NUMBERS -> {ThickBid, ThinAsk, Told, Heartbeat}
    [] t = KILLS -> {ThickBid, ThinAsk, NoAsk}
    [] OTHER -> {ThinBid, ThickBid, ThinAsk, ThickAsk, Cancel}]
MCSteps == [t \in MCTraffic |-> IF t = NUMBERS THEN {-1, 1, 3} ELSE {1}]
MCControls == [t \in MCTraffic |->
  CASE t = NUMBERS -> {GAP, DAMAGE} [] t = KILLS -> {KILL} [] OTHER -> {}]
MCMaxCalls == [t \in MCTraffic |-> IF t = ORDERS THEN 5 ELSE 4]

MCArrivals == [s \in MCScenarios |->
  CASE s = ORDERS -> {None, 5} [] s = TRIGGER -> {None, -2} [] OTHER -> {None}]
MCCount == [s \in MCScenarios |->
  CASE s = GAPS -> 9 [] s = NORMAL -> 2 [] s = BURST -> 3 [] s \in MCTraffic -> 0
    [] OTHER -> 4]
MCDrift == [s \in MCScenarios |->
  IF s = GAPS THEN {0} ELSE IF s = TRIGGER THEN {-3} ELSE {-3, 2}]
MCQty == [s \in MCScenarios |->
  IF s = GAPS THEN {1} ELSE IF s = TRIGGER THEN {200} ELSE {1, 200}]
MCListening == [s \in MCScenarios |-> IF s = TRIGGER THEN {UDP, FILE} ELSE {"none"}]
MCOrderNames ==
  [t \in {ORDER_MSG_NEW, ORDER_MSG_REJECT} |->
     IF t = ORDER_MSG_NEW THEN "new_order" ELSE "risk_reject"]
MCReasons == {"accepted"} \cup {GATE_NAME[g] : g \in Gate}

=============================================================================
