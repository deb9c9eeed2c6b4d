-------------------------------- MODULE FeedGen --------------------------------
(***************************************************************************)
(* sim/feed_gen.py: the scenarios of the stimulus generator.  One step is  *)
(* one frame that iter_scenario yields; what the random generator decides  *)
(* is left open within the ranges the code gives it.                       *)
(*                                                                         *)
(* The consumer of the frames takes the one in "yielded" and puts NoFrame  *)
(* there, as a caller of a Python generator does.                          *)
(***************************************************************************)
EXTENDS Integers, Sequences, Functions

CONSTANTS
  FeedSymbols,   \* symbols of the generated feed
  Scenarios,     \* what is asked for on the command line
  Count,         \* [scenario -> frames to generate]
  BurstSize,     \* messages of a full burst frame: 88
  Drift,         \* [scenario -> steps of the random walk], within -3 .. 3
  Qty,           \* [scenario -> quantities of a quote], within 1 .. 200
  CrossBy,       \* how far a crossing bid goes beyond the ask, within 1 .. 20
  Jump,          \* how far a sequence number jumps, within 2 .. 5
  Back,          \* how far it goes back, within 1 .. 3
  Skew,          \* how far a skewed bid stays below the ask, within 5 .. 10
  NoFrame

ASSUME FeedGenAssumption ==
  /\ BurstSize \in Nat \ {0}
  /\ \A s \in Scenarios :
       Count[s] \in Nat /\ Drift[s] \subseteq -3 .. 3 /\ Qty[s] \subseteq 1 .. 200
  /\ CrossBy \subseteq 1 .. 20 /\ Jump \subseteq 2 .. 5
  /\ Back \subseteq 1 .. 3 /\ Skew \subseteq 5 .. 10

VARIABLES
  scenario,
  generated,     \* frames yielded so far, the loop index i
  seq,           \* the number of the next message
  bid_price,
  ask_price,
  yielded        \* the frame the generator has just yielded, or NoFrame

stateVars == <<seq, bid_price, ask_price>>
genVars == <<scenario, generated, stateVars, yielded>>

(* What a frame is, for whoever has to know what to expect of it: the      *)
(* description of the code, as a kind and a symbol.                        *)
NORMAL == "normal"
CROSSED == "crossed"
GAPS == "gaps"
MALFORMED == "malformed"
BURST == "burst"
TRIGGER == "trigger"

FILLER == "filler"
FORCED == "forced"
DUPLICATE == "duplicate"

QUOTE == 1
UNDEFINED == 7
BID == 0
ASK == 1
GenInit ==
  /\ scenario \in Scenarios
  /\ generated = 0
  /\ seq = 1
  /\ bid_price = [s \in FeedSymbols |-> 10000]
  /\ ask_price = [s \in FeedSymbols |-> 10010]
  /\ yielded = NoFrame

-----------------------------------------------------------------------------

Msg(type, symbol, side, price, qty, number) ==
  [msg_type |-> type, symbol_id |-> symbol, side |-> side, snapshot |-> FALSE,
   reserved |-> FALSE, price |-> price, quantity |-> qty, seq_num |-> number]

Yield(messages, ragged, kind, symbol, n) ==
  /\ yielded' = [payload |-> [messages |-> messages, ragged |-> ragged],
                 kind |-> kind, symbol |-> symbol]
  /\ generated' = generated + n
  /\ UNCHANGED scenario

Limit == Count[scenario]

(* A scenario nobody knows yields nothing. *)
Turn(s) == scenario = s /\ yielded = NoFrame /\ generated < Limit

(* FeedState.quote: one side takes a step of its own walk, whatever the    *)
(* other side's price is.                                                  *)
Walk(symbol, side, drift) ==
  /\ bid_price' = IF side = BID THEN [bid_price EXCEPT ![symbol] = @ + drift]
                  ELSE bid_price
  /\ ask_price' = IF side = ASK THEN [ask_price EXCEPT ![symbol] = @ + drift]
                  ELSE ask_price

Quote(symbol, side, drift, qty, number) ==
  Msg(QUOTE, symbol, side,
      (IF side = BID THEN bid_price[symbol] ELSE ask_price[symbol]) + drift,
      qty, number)

(* A quote with the next number. *)
Fresh(kind) ==
  \E symbol \in FeedSymbols, side \in {BID, ASK},
     drift \in Drift[scenario], qty \in Qty[scenario] :
    /\ Walk(symbol, side, drift)
    /\ seq' = seq + 1
    /\ Yield(<<Quote(symbol, side, drift, qty, seq)>>, FALSE, kind, symbol, 1)

Normal == Turn(NORMAL) /\ Fresh(FILLER)

(* A bid of a given price and size, out of turn. *)
ForcedBid(symbol, price, qty) ==
  /\ bid_price' = [bid_price EXCEPT ![symbol] = price]
  /\ seq' = seq + 1
  /\ Yield(<<Msg(QUOTE, symbol, BID, price, qty, seq)>>, FALSE, FORCED, symbol, 1)
  /\ UNCHANGED ask_price

Crossed ==
  /\ Turn(CROSSED)
  /\ IF generated % 3 = 0
     THEN \E symbol \in FeedSymbols, by \in CrossBy, qty \in Qty[scenario] \cap 1 .. 100 :
            ForcedBid(symbol, ask_price[symbol] + by, qty)
     ELSE Fresh(FILLER)

(* Mutant: going back starts from the number already used. *)
Older_Late(back) == IF seq - back + 1 >= 1 THEN seq - back + 1 ELSE 1

Older(back) == IF seq - back >= 1 THEN seq - back ELSE 1

(* Every fourth frame jumps ahead or repeats an old number, by turns. *)
Gaps ==
  /\ Turn(GAPS)
  /\ IF generated = 0 \/ generated % 4 # 0 THEN Fresh(FILLER)
     ELSE \E symbol \in FeedSymbols, side \in {BID, ASK},
             drift \in Drift[scenario], qty \in Qty[scenario] :
            /\ Walk(symbol, side, drift)
            /\ IF generated % 8 = 0
               THEN \E jump \in Jump :
                      /\ seq' = seq + jump + 1
                      /\ Yield(<<Quote(symbol, side, drift, qty, seq + jump)>>,
                               FALSE, FILLER, symbol, 1)
               ELSE \E back \in Back :
                      /\ Yield(<<Quote(symbol, side, drift, qty, Older(back))>>, FALSE,
                               DUPLICATE, symbol, 1)
                      /\ UNCHANGED seq

(* A truncated payload, an undefined type and a reserved flag, by turns.   *)
(* The truncated message takes a number with it.                           *)
Malformed ==
  /\ Turn(MALFORMED)
  /\ seq' = seq + 1
  /\ \E symbol \in FeedSymbols, drift \in Drift[scenario], qty \in Qty[scenario] :
       CASE generated % 3 = 0 ->
              /\ Walk(symbol, BID, drift)
              /\ Yield(<<>>, TRUE, FILLER, symbol, 1)
         [] generated % 3 = 1 ->
              /\ Yield(<<Msg(UNDEFINED, symbol, BID, 1, 1, seq)>>, FALSE, FILLER, symbol, 1)
              /\ UNCHANGED <<bid_price, ask_price>>
         [] OTHER ->
              /\ Walk(symbol, ASK, drift)
              /\ Yield(<<[Quote(symbol, ASK, drift, qty, seq) EXCEPT !.reserved = TRUE]>>,
                       FALSE, FILLER, symbol, 1)

(* As many messages as still fit in one frame, and the last one may be a   *)
(* snapshot.  The loop counts messages here, not frames.                   *)
Burst ==
  /\ Turn(BURST)
  /\ LET n == IF Limit - generated < BurstSize THEN Limit - generated ELSE BurstSize
     IN \E pick \in [1 .. n -> [symbol : FeedSymbols, side : {BID, ASK},
                                 drift : Drift[BURST], qty : Qty[BURST]]],
           snapshot \in BOOLEAN :
          LET moved(symbol, side, k) ==
                SumFunctionOnSet([j \in 1 .. k |-> pick[j].drift],
                                 {j \in 1 .. k : pick[j].symbol = symbol /\ pick[j].side = side})
              message(k) ==
                [Quote(pick[k].symbol, pick[k].side,
                       moved(pick[k].symbol, pick[k].side, k), pick[k].qty, seq + k - 1)
                   EXCEPT !.snapshot = snapshot /\ k = n]
          IN /\ bid_price' = [s \in FeedSymbols |-> bid_price[s] + moved(s, BID, n)]
             /\ ask_price' = [s \in FeedSymbols |-> ask_price[s] + moved(s, ASK, n)]
             /\ seq' = seq + n
             /\ Yield([k \in 1 .. n |-> message(k)], FALSE, FILLER, pick[n].symbol, n)

(* Mutant: the skewed bid is of the size of two ordinary asks. *)
SKEWED_QTY_Small == 400

(* More than twice the largest ask there is. *)
SKEWED_QTY == 500

(* Every third frame skews the book. *)
Trigger ==
  /\ Turn(TRIGGER)
  /\ IF generated % 3 = 0
     THEN \E symbol \in FeedSymbols, skew \in Skew :
            ForcedBid(symbol, ask_price[symbol] - skew, SKEWED_QTY)
     ELSE Fresh(FILLER)

(* iter_scenario: the next frame of the scenario chosen. *)
iter_scenario == Normal \/ Crossed \/ Gaps \/ Malformed \/ Burst \/ Trigger

(* The consumer takes the frame in hand. *)
Take ==
  /\ yielded # NoFrame
  /\ yielded' = NoFrame
  /\ UNCHANGED <<scenario, generated, stateVars>>

=============================================================================
