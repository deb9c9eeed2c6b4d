----------------------------- MODULE MCRiskEngine -----------------------------
(* Small instances of the risk engine for TLC. *)
EXTENDS RiskSpec

CONSTANTS
  IntentQty,   \* quantities of the generated intents
  Settings,    \* <<max_position, token_max>> of the configurations written
  Refill,      \* cycles per token
  Reduce       \* BOOLEAN: ml_action, reduce rather than block

MCFeed ==
  {[bid |-> [s \in Slot |-> 1], ask |-> [s \in Slot |-> 3],
    crossed |-> [s \in Slot |-> FALSE], seq_gap |-> FALSE, adverse |-> a] :
     a \in BOOLEAN}

MCIntent ==
  {[slot |-> s, side |-> d, price |-> 3, qty |-> q] :
     s \in Slot, d \in {BID, ASK}, q \in IntentQty}

MCConfig ==
  {[max_order_qty |-> 3, max_position |-> s[1], price_band |-> 1, max_age |-> 1,
    token_max |-> s[2], token_refill_cycles |-> Refill, ml_action |-> Reduce,
    ml_reduce |-> 2] : s \in Settings}

Rewritten == {<<2, 2>>, <<4, 1>>, <<4, 2>>}
Fixed == {<<4, 2>>}
Low == {<<2, 2>>}

=============================================================================
