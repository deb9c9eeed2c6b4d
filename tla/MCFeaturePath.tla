----------------------------- MODULE MCFeaturePath -----------------------------
(* A small instance of the ML branch for TLC: words of four bits. *)
EXTENDS FeaturePath

Message(type, s, side, price, qty, skew) ==
  [type |-> type, symbol |-> s, side |-> side, price |-> price, qty |-> qty,
   skew |-> skew]

(* Mids that move by more than a signed word holds, a late message, and,   *)
(* on the other slot, one that comes early.                                *)
MCContent ==
  {Message(QUOTE, 0, BID, 1, 9, 0), Message(QUOTE, 0, BID, 15, 3, 0),
   Message(QUOTE, 0, ASK, 15, 1, 0), Message(QUOTE, 0, ASK, 2, 15, 0),
   Message(QUOTE, 0, ASK, 9, 9, -1), Message(CLEAR, 0, BID, 0, 0, 0),
   Message(TRADE, 0, ASK, 0, 0, 0), Message(HEARTBEAT, 0, BID, 0, 0, 0),
   Message(QUOTE, 1, BID, 7, 2, 0), Message(TRADE, 1, BID, 0, 0, 1)}

MCWeights == <<1, -1, 2, 1, -1, 1, 1, 1>>

MCConfig ==
  {[offset |-> <<0, 0, 0, 0, 0, 2, 0, 0>>, scale |-> <<1, 2, 1, 2, 4, 1, 1, 4>>,
    ml_th_high |-> 3, ml_th_low |-> 0]}

=============================================================================
