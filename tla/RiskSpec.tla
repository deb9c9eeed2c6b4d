------------------------------- MODULE RiskSpec -------------------------------
(***************************************************************************)
(* The risk engine on its own, driven by every combination of intent, book *)
(* state, ML verdict, kill switch and configuration write, with the        *)
(* history variables its properties speak about.                           *)
(***************************************************************************)
EXTENDS RiskEngine

CONSTANTS
  Intent,     \* intents the signal branch can deliver
  Feed,       \* book, sequence-gap and ML wires on a cycle
  Config,     \* configurations a CSR write can leave in force
  MaxWindow   \* longest interval the throttle is measured over, in cycles

ASSUME SlotAssumption == NoSlot \notin Slot

ASSUME IntentAssumption ==
  /\ NoIntent \notin Intent
  /\ Intent \subseteq [slot : Slot, side : {BID, ASK},
                       price : 0 .. Word - 1, qty : 0 .. Word - 1]

ASSUME FeedAssumption ==
  Feed \subseteq [bid : [Slot -> 0 .. Word - 1], ask : [Slot -> 0 .. Word - 1],
                  crossed : [Slot -> BOOLEAN], seq_gap : BOOLEAN,
                  adverse : BOOLEAN]

(* max_position below 2^31: a larger limit does not fit the signed ledger. *)
(* token_refill_cycles = 0 would make the throttle refill on every cycle.  *)
ASSUME ConfigAssumption ==
  \A c \in Config :
    /\ c.max_order_qty \in 0 .. Word - 1
    /\ c.max_position \in 0 .. Half - 1
    /\ c.price_band \in 0 .. Word - 1
    /\ c.max_age \in Nat
    /\ c.token_max \in 0 .. Word - 1
    /\ c.token_refill_cycles \in 1 .. Word - 1
    /\ c.ml_action \in BOOLEAN
    /\ c.ml_reduce \in Nat \ {0}

ASSUME WindowAssumption == MaxWindow \in Nat

VARIABLES
  cfg,         \* the CSR registers, in csr_block.v
  cur_cycle,   \* the free-running cycle counter, in tob_top.v
  limit,       \* history: the largest max_position in force so far
  ceiling,     \* history: the largest token_max in force so far
  filled,      \* history: signed quantity of the decisions downstream has seen
  win          \* history: an interval under measurement, see OpenWindow

vars == <<riskVars, cfg, cur_cycle, limit, ceiling, filled, win>>

Larger(a, b) == IF a >= b THEN a ELSE b

NoWindow == [open |-> FALSE, cycles |-> 0, orders |-> 0]

Init ==
  /\ cfg \in Config
  /\ RiskReset(cfg)
  /\ cur_cycle = 0
  /\ limit = cfg.max_position
  /\ ceiling = cfg.token_max
  /\ filled = [s \in Slot |-> 0]
  /\ win = NoWindow

Wires == [sig : Intent \cup {NoIntent}, applied : Slot \cup {NoSlot},
          feed : Feed, kill_sw_n : BOOLEAN, kill_clear : BOOLEAN,
          cfg : {cfg}, cur_cycle : {cur_cycle}]

CycleStep ==
  cur_cycle' = IF cur_cycle = CycleMod - 1 THEN 0 ELSE cur_cycle + 1

(* What order_builder.v has been told to trade, one cycle later. *)
FilledStep ==
  filled' = IF order.valid
            THEN [filled EXCEPT ![order.slot] = @ + Signed(order.side, order.qty)]
            ELSE filled

(* A measurement may begin on any cycle; it counts cycles and acceptances. *)
WindowStep(in) ==
  LET w == IF win.open THEN win ELSE NoWindow
      grown == [open   |-> TRUE,
                cycles |-> w.cycles + 1,
                orders |-> IF Accepted(in) THEN w.orders + 1 ELSE w.orders]
  IN \/ win' = NoWindow
     \/ w.cycles < MaxWindow /\ win' = grown

(* One clock edge.  newCfg is what the CSR registers hold afterwards. *)
Clock(in, newCfg) ==
  /\ RiskStep(in)
  /\ CycleStep
  /\ cfg' = newCfg
  /\ limit' = Larger(limit, newCfg.max_position)
  /\ ceiling' = Larger(ceiling, newCfg.token_max)
  /\ FilledStep
  /\ WindowStep(in)

Next == \E in \in Wires, newCfg \in Config : Clock(in, newCfg)

Spec == Init /\ [][Next]_vars

(* The same with the configuration left alone. *)
FixedNext == \E in \in Wires : Clock(in, cfg)

FixedSpec == Init /\ [][FixedNext]_vars

-----------------------------------------------------------------------------

(* Every register stays within its width. *)
TypeOK ==
  /\ cfg \in Config
  /\ cur_cycle \in 0 .. CycleMod - 1
  /\ kill_latched \in BOOLEAN
  /\ last_update \in [Slot -> 0 .. CycleMod - 1]
  /\ pend_prev \in 0 .. CycleMod - 1
  /\ pend_msg \in 0 .. CycleMod - 1
  /\ refill_ctr \in 0 .. Word - 1
  /\ token_bucket \in 0 .. Word - 1
  /\ position \in [Slot -> -Half .. Half - 1]
  /\ order \in [valid : BOOLEAN, slot : Slot \cup {0}, side : {BID, ASK},
                price : Nat, qty : Nat, reason : 0 .. 9, fired : SUBSET Gate]
  /\ order.valid => order.slot \in Slot
  /\ limit \in 0 .. Half - 1
  /\ ceiling \in 0 .. Word - 1
  /\ filled \in [Slot -> Int]
  /\ win \in [open : BOOLEAN, cycles : Nat, orders : Nat]

(***************************************************************************)
(* Exposure never exceeds the largest limit ever configured, in either     *)
(* direction, although gate POSITION admits an order at its full size      *)
(* and the ledger then books the reduced one (risk_engine.v, D16).         *)
(***************************************************************************)
ExposureWithinLimit == \A s \in Slot : Abs(position[s]) <= limit

(***************************************************************************)
(* The ledger agrees with the orders actually handed to order_builder.v:   *)
(* the reduced quantity is both what is booked and what is sent (D16, D18).*)
(***************************************************************************)
LedgerMatchesOrders ==
  \A s \in Slot :
    position[s] = filled[s] + (IF order.valid /\ order.slot = s
                               THEN Signed(order.side, order.qty) ELSE 0)

(***************************************************************************)
(* The throttle bounds damage from a runaway signal (spec 8.2, 8.4): over  *)
(* any interval, at most a full bucket plus one order per refill period.   *)
(***************************************************************************)
RateBounded ==
  cfg.token_refill_cycles * (win.orders - cfg.token_max)
    <= win.cycles + cfg.token_refill_cycles - 1

(***************************************************************************)
(* The bucket never holds more permits than the ceiling ever allowed, even *)
(* across configuration writes that lower it.                              *)
(***************************************************************************)
TokensWithinCeiling == token_bucket <= ceiling

(***************************************************************************)
(* risk_engine.v line 49: "Position magnitudes are bounded by              *)
(* cfg_max_position".                                                      *)
(***************************************************************************)
PositionBounded == \A s \in Slot : Abs(position[s]) <= cfg.max_position

=============================================================================
