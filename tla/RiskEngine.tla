------------------------------ MODULE RiskEngine ------------------------------
(***************************************************************************)
(* rtl/risk_engine.v: the pre-trade risk block.  Every order intent passes *)
(* nine gates, evaluated together on the cycle the intent arrives, and one *)
(* cycle later the registered decision appears on the order_* outputs.     *)
(*                                                                         *)
(* One step is one rising edge of the engine clock.  The wires that enter  *)
(* the block on that cycle are the record "in": sig, applied, kill_sw_n,   *)
(* kill_clear, cfg, cur_cycle, and feed (the book, sequence-gap and ML     *)
(* wires).  A composing module supplies them from the other blocks,        *)
(* RiskSpec.tla supplies every combination.                                *)
(***************************************************************************)
EXTENDS Integers

CONSTANTS
  Slot,       \* book slots, 0 .. NUM_SYMBOLS-1
  NoSlot,     \* applied: no message is applied on this cycle
  NoIntent,   \* sig: sig_valid is low on this cycle
  Half,       \* half the range of a 32-bit word: 2^31
  CycleMod    \* where the free-running cycle counter wraps: 2^32

Word == 2 * Half

ASSUME WidthAssumption == Half \in Nat \ {0} /\ CycleMod \in Nat \ {0}

VARIABLES
  kill_latched,   \* the kill latch
  last_update,    \* [Slot -> cycle of the last applied message]
  pend_prev,      \* last_update of the latest message's slot, before it
  pend_msg,       \* cycle the latest message was applied
  refill_ctr,     \* progress towards the next throttle token
  token_bucket,   \* throttle tokens left
  position,       \* signed net position per slot
  order           \* the registered decision: order_*, reject_reason, gates

riskVars == <<kill_latched, last_update, pend_prev, pend_msg,
              refill_ctr, token_bucket, position, order>>

BID == "bid"
ASK == "ask"

(* Gate numbers: the lowest that fires is the reported reject reason. *)
KILL == 1
SIZE == 2
POSITION == 3
BAND == 4
STALE == 5
SEQGAP == 6
CROSSED == 7
THROTTLE == 8
ML == 9
Gate == 1 .. 9

Abs(x) == IF x < 0 THEN -x ELSE x

(* Reading a sum of two in-range operands back into a two's complement    *)
(* register of range -h .. h-1: at most one wrap can be needed.           *)
Wrap(x, h) ==
  IF x >= h THEN x - 2 * h ELSE IF x < -h THEN x + 2 * h ELSE x

(* An unsigned 32-bit increment. *)
Inc(x) == IF x = Word - 1 THEN 0 ELSE x + 1

Signed(side, qty) == IF side = BID THEN qty ELSE -qty

-----------------------------------------------------------------------------
(* The free-running token bucket. *)

RefillTick(in) == Inc(refill_ctr) >= in.cfg.token_refill_cycles

(* Mutant: a tick does not start the next period. *)
RefillCtrNext_NoReset(in) == Inc(refill_ctr)

RefillCtrNext(in) ==
  IF RefillTick(in) THEN Inc(refill_ctr) - in.cfg.token_refill_cycles
                    ELSE Inc(refill_ctr)

(* Mutant: the bucket does not saturate. *)
TokenAfterRefill_NoCeiling(in) ==
  IF RefillTick(in) THEN token_bucket + 1 ELSE token_bucket

TokenAfterRefill(in) ==
  IF RefillTick(in) /\ token_bucket < in.cfg.token_max
  THEN token_bucket + 1 ELSE token_bucket

-----------------------------------------------------------------------------
(* The nine gates, for the intent in.sig. *)

(* Mutant: the position held is compared, not the one after the order. *)
Prospective_Held(in) == position[in.sig.slot]

(* 33-bit signed: the range is twice that of the stored position. *)
Prospective(in) ==
  Wrap(position[in.sig.slot] + Signed(in.sig.side, in.sig.qty), Word)

Mid(in) == (in.feed.bid[in.sig.slot] + in.feed.ask[in.sig.slot]) \div 2

Elapsed(from, to) == (to - from) % CycleMod

GateFires(g, in) ==
  \/ g = KILL     /\ kill_latched
  \/ g = SIZE     /\ in.sig.qty > in.cfg.max_order_qty
  \/ g = POSITION /\ Abs(Prospective(in)) > in.cfg.max_position
  \/ g = BAND     /\ Abs(in.sig.price - Mid(in)) > in.cfg.price_band
  \/ g = STALE    /\ Elapsed(pend_prev, pend_msg) > in.cfg.max_age
  \/ g = SEQGAP   /\ in.feed.seq_gap
  \/ g = CROSSED  /\ in.feed.crossed[in.sig.slot]
  \/ g = THROTTLE /\ TokenAfterRefill(in) = 0
  \/ g = ML       /\ in.feed.adverse /\ ~in.cfg.ml_action

Fired(in) == {g \in Gate : GateFires(g, in)}

RejectReason(in) ==
  IF Fired(in) = {} THEN 0
  ELSE CHOOSE g \in Fired(in) : \A h \in Fired(in) : g <= h

(* Mutant: the throttle only reports. *)
Accepted_Unthrottled(in) ==
  in.sig # NoIntent /\ \A g \in Gate \ {THROTTLE} : ~GateFires(g, in)

Accepted(in) == in.sig # NoIntent /\ \A g \in Gate : ~GateFires(g, in)

(* cfg.ml_reduce is the divisor 2^cfg_ml_reduce_shift. *)
ReducedQty(in) ==
  IF in.feed.adverse /\ in.cfg.ml_action
  THEN IF in.sig.qty \div in.cfg.ml_reduce = 0
       THEN 1 ELSE in.sig.qty \div in.cfg.ml_reduce
  ELSE in.sig.qty

-----------------------------------------------------------------------------
(* The registers. *)

(* Pressing the switch wins over a clear on the same cycle. *)
KillLatchStep(in) ==
  kill_latched' = (~in.kill_sw_n \/ (kill_latched /\ ~in.kill_clear))

(* The pair gate STALE compares is captured before the refresh. *)
StalenessStep(in) ==
  IF in.applied = NoSlot
  THEN UNCHANGED <<last_update, pend_prev, pend_msg>>
  ELSE /\ pend_prev' = last_update[in.applied]
       /\ pend_msg' = in.cur_cycle
       /\ last_update' = [last_update EXCEPT ![in.applied] = in.cur_cycle]

TokenStep(in, accepted) ==
  /\ refill_ctr' = RefillCtrNext(in)
  /\ token_bucket' = IF accepted THEN TokenAfterRefill(in) - 1
                                 ELSE TokenAfterRefill(in)

(* Mutant: the ledger books the quantity before the reduction. *)
LedgerStep_Unreduced(in, accepted) ==
  position' =
    IF accepted
    THEN [position EXCEPT ![in.sig.slot] =
            Wrap(@ + Signed(in.sig.side, in.sig.qty), Half)]
    ELSE position

LedgerStep(in, accepted) ==
  position' =
    IF accepted
    THEN [position EXCEPT ![in.sig.slot] =
            Wrap(@ + Signed(in.sig.side, ReducedQty(in)), Half)]
    ELSE position

NoDecision == [valid |-> FALSE, slot |-> 0, side |-> BID, price |-> 0,
               qty |-> 0, reason |-> 0, fired |-> {}]

(* Between decisions the payload fields keep their last value. *)
DecisionStep(in, accepted) ==
  order' =
    IF in.sig = NoIntent
    THEN [valid |-> FALSE, slot |-> order.slot, side |-> order.side,
          price |-> order.price, qty |-> order.qty, reason |-> 0, fired |-> {}]
    ELSE [valid  |-> accepted,
          slot   |-> in.sig.slot,
          side   |-> in.sig.side,
          price  |-> in.sig.price,
          qty    |-> IF accepted THEN ReducedQty(in) ELSE in.sig.qty,
          reason |-> RejectReason(in),
          fired  |-> Fired(in)]

(* The reset values; the bucket resets to the configured ceiling. *)
RiskReset(cfg) ==
  /\ kill_latched = FALSE
  /\ last_update = [s \in Slot |-> 0]
  /\ pend_prev = 0
  /\ pend_msg = 0
  /\ refill_ctr = 0
  /\ token_bucket = cfg.token_max
  /\ position = [s \in Slot |-> 0]
  /\ order = NoDecision

RiskStep(in) ==
  LET accepted == Accepted(in)
  IN /\ KillLatchStep(in)
     /\ StalenessStep(in)
     /\ TokenStep(in, accepted)
     /\ LedgerStep(in, accepted)
     /\ DecisionStep(in, accepted)

=============================================================================
