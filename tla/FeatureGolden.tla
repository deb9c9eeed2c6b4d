----------------------------- MODULE FeatureGolden -----------------------------
(***************************************************************************)
(* sim/feature_golden.py: the Python reference of the eight features, one  *)
(* history for each symbol.  A book event returns a vector, in the order   *)
(* of as_tuple; a trade or a heartbeat only moves the window on.           *)
(***************************************************************************)
EXTENDS Integers, Sequences, FiniteSets, Functions

CONSTANTS
  Tracked,      \* symbols of the tracker
  Word,         \* 2^32
  MAX_WINDOW,   \* entries a history keeps: 32
  window        \* entries F5 and F7 look at

ASSUME WindowAssumption ==
  /\ Word \in {2 * n : n \in 1 .. Word}
  /\ MAX_WINDOW \in Nat \ {0} /\ window \in 1 .. MAX_WINDOW

VARIABLES
  states,    \* [Tracked -> SymbolFeatureState]
  vector     \* the vector the last book event returned

featureVars == <<states, vector>>

RAW_UNSIGNED_MAX == Word - 1
RAW_SIGNED_MIN == -(Word \div 2)
RAW_SIGNED_MAX == Word \div 2 - 1

Least(a, b) == IF a <= b THEN a ELSE b
Most(a, b) == IF a >= b THEN a ELSE b
Absolute(x) == IF x < 0 THEN -x ELSE x

sat_unsigned32(v) == Most(0, Least(v, RAW_UNSIGNED_MAX))

sat_signed32(v) == Most(RAW_SIGNED_MIN, Least(v, RAW_SIGNED_MAX))

Unseen ==
  [prev_bid |-> 0, prev_ask |-> 0, prev_bid_qty |-> 0, prev_ask_qty |-> 0,
   last_trade_dir |-> 0, window |-> <<>>, seen_first_event |-> FALSE]

FeatureInit ==
  /\ states = [s \in Tracked |-> Unseen]
  /\ vector = <<>>

-----------------------------------------------------------------------------
(* The window: what each event was, the newest last. *)

Passive == [is_update |-> FALSE, delta |-> 0]

Newest(n, w) == SubSeq(w, Most(1, Len(w) - n + 1), Len(w))

(* A deque with maxlen. *)
Pushed(w, entry) == Newest(MAX_WINDOW, Append(w, entry))

active_window(w) == Newest(window, w)

Updates(w) == Cardinality({i \in DOMAIN w : w[i].is_update})
Volatility(w) == SumFunction([i \in DOMAIN w |-> w[i].delta])

-----------------------------------------------------------------------------
(* The calls of the tracker. *)

on_trade(symbol, is_bid) ==
  /\ states' = [states EXCEPT ![symbol].last_trade_dir = IF is_bid THEN 1 ELSE -1,
                              ![symbol].window = Pushed(@, Passive)]
  /\ UNCHANGED vector

on_heartbeat(symbol) ==
  /\ states' = [states EXCEPT ![symbol].window = Pushed(@, Passive)]
  /\ UNCHANGED vector

(* bid and ask are the book after the event; whether they are valid is not *)
(* looked at.  A clear makes its own event a first one (D13).              *)
on_book_event(symbol, is_clear, bid_after, ask_after) ==
  LET st == IF is_clear THEN Unseen ELSE states[symbol]
      change(now, before) ==
        IF st.seen_first_event THEN sat_signed32(now - before) ELSE 0
      f1 == change((bid_after.price + ask_after.price) \div 2,
                   (st.prev_bid + st.prev_ask) \div 2)
      w == Pushed(st.window, [is_update |-> TRUE, delta |-> Absolute(f1)])
  IN /\ vector' = <<sat_unsigned32(ask_after.price - bid_after.price),
                    f1,
                    sat_signed32(bid_after.qty - ask_after.qty),
                    change(bid_after.qty, st.prev_bid_qty),
                    change(ask_after.qty, st.prev_ask_qty),
                    Updates(active_window(w)),
                    st.last_trade_dir,
                    sat_unsigned32(Volatility(active_window(w)))>>
     /\ states' = [states EXCEPT ![symbol] =
                     [prev_bid |-> bid_after.price, prev_ask |-> ask_after.price,
                      prev_bid_qty |-> bid_after.qty, prev_ask_qty |-> ask_after.qty,
                      last_trade_dir |-> st.last_trade_dir, window |-> w,
                      seen_first_event |-> TRUE]]

=============================================================================
