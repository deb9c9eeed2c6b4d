------------------------------ MODULE RiskProofs ------------------------------
(***************************************************************************)
(* What holds of the risk engine for every number of slots, every word and *)
(* counter width, every configuration and every intent.                    *)
(***************************************************************************)
EXTENDS RiskSpec, TLAPS

-----------------------------------------------------------------------------
(* Arithmetic of the datapath. *)

(* A sum already in range is stored unchanged. *)
LEMMA WrapInRange ==
  ASSUME NEW h \in Nat, NEW x \in -h .. h - 1
  PROVE  Wrap(x, h) = x
BY DEF Wrap

(* One wrap brings the sum of a stored position and a 32-bit quantity back *)
(* into the range of the register.                                         *)
LEMMA WrapInto ==
  ASSUME NEW h \in Nat \ {0}, NEW x \in Int, -3 * h < x, x < 3 * h
  PROVE  Wrap(x, h) \in -h .. h - 1
BY DEF Wrap

(* A quotient of a natural number lies between 0 and the number. *)
LEMMA QuotientBound ==
  ASSUME NEW q \in Nat, NEW d \in Nat \ {0}
  PROVE  q \div d \in 0 .. q
OBVIOUS

(* The ML reduction of a positive quantity stays within 1 .. quantity.     *)
LEMMA ReducedWithin ==
  ASSUME NEW in, in.sig.qty \in Nat, in.sig.qty >= 1,
         in.cfg.ml_reduce \in Nat \ {0}
  PROVE  ReducedQty(in) \in 1 .. in.sig.qty
<1> DEFINE k == in.sig.qty \div in.cfg.ml_reduce
<1>1. k \in 0 .. in.sig.qty
  BY QuotientBound
<1> QED
  BY <1>1 DEF ReducedQty

(* A nonempty set of gates has a lowest member. *)
LEMMA LowestGate ==
  ASSUME NEW G \in SUBSET Gate, G # {}
  PROVE  \E g \in G : \A h \in G : g <= h
<1>1. \A g \in G : g \in 1 .. 9
  BY DEF Gate
<1>2. PICK g0 \in G : TRUE
  OBVIOUS
<1> QED
  BY <1>1, <1>2

-----------------------------------------------------------------------------
(* Type correctness. *)

(* What the environment may put on the wires. *)
LEMMA WiresType ==
  ASSUME TypeOK, NEW in \in Wires
  PROVE  /\ in.cfg = cfg
         /\ in.cur_cycle \in 0 .. CycleMod - 1
         /\ in.applied \in Slot \cup {NoSlot}
         /\ in.kill_sw_n \in BOOLEAN /\ in.kill_clear \in BOOLEAN
         /\ in.sig # NoIntent => /\ in.sig.slot \in Slot
                                 /\ in.sig.side \in {BID, ASK}
                                 /\ in.sig.price \in 0 .. Word - 1
                                 /\ in.sig.qty \in 0 .. Word - 1
         /\ in.sig # NoIntent => in.sig \in Intent
<1>1. in.sig \in Intent \cup {NoIntent} /\ in.cfg = cfg
      /\ in.cur_cycle = cur_cycle
  BY DEF Wires
<1>2. in.sig # NoIntent => in.sig \in [slot : Slot, side : {BID, ASK},
                             price : 0 .. Word - 1, qty : 0 .. Word - 1]
  BY <1>1, IntentAssumption
<1> QED
  BY <1>1, <1>2 DEF Wires, TypeOK

(* The configuration in force has the widths the CSR registers give it. *)
LEMMA ConfigType ==
  ASSUME NEW c \in Config
  PROVE  /\ c.max_position \in 0 .. Half - 1
         /\ c.token_max \in 0 .. Word - 1
         /\ c.token_refill_cycles \in 1 .. Word - 1
         /\ c.ml_reduce \in Nat \ {0}
BY ConfigAssumption

(* The throttle registers stay 32-bit words. *)
LEMMA TokenType ==
  ASSUME TypeOK, NEW in, in.cfg \in Config, NEW accepted \in BOOLEAN,
         accepted => TokenAfterRefill(in) # 0, TokenStep(in, accepted)
  PROVE  refill_ctr' \in 0 .. Word - 1 /\ token_bucket' \in 0 .. Word - 1
<1>1. in.cfg.token_max \in 0 .. Word - 1
      /\ in.cfg.token_refill_cycles \in 1 .. Word - 1
  BY ConfigType
<1>2. Word \in Nat \ {0}
  BY WidthAssumption DEF Word
<1>3. TokenAfterRefill(in) \in 0 .. Word - 1
  BY <1>1, <1>2 DEF TokenAfterRefill, TypeOK
<1>4. RefillCtrNext(in) \in 0 .. Word - 1
  BY <1>1, <1>2 DEF RefillCtrNext, RefillTick, Inc, TypeOK
<1> QED
  BY <1>2, <1>3, <1>4 DEF TokenStep

(* An accepted intent passed every gate; these are the ones proofs use. *)
LEMMA AcceptedFacts ==
  ASSUME NEW in, Accepted(in)
  PROVE  /\ in.sig # NoIntent
         /\ ~(Abs(Prospective(in)) > in.cfg.max_position)
         /\ TokenAfterRefill(in) # 0
<1>1. ~GateFires(POSITION, in) /\ ~GateFires(THROTTLE, in) /\ in.sig # NoIntent
  BY DEF Accepted, Gate, POSITION, THROTTLE
<1> QED
  BY <1>1 DEF GateFires, POSITION, THROTTLE

(* The quantity an accepted order carries. *)
LEMMA ReducedType ==
  ASSUME NEW in, in.sig.qty \in Nat, in.cfg.ml_reduce \in Nat \ {0}
  PROVE  /\ ReducedQty(in) \in Nat
         /\ ReducedQty(in) <= in.sig.qty \/ ReducedQty(in) = 1
BY QuotientBound DEF ReducedQty

(* The ledger stays a signed 32-bit word per slot. *)
LEMMA LedgerType ==
  ASSUME TypeOK, NEW in \in Wires, LedgerStep(in, Accepted(in))
  PROVE  position' \in [Slot -> -Half .. Half - 1]
<1>1. CASE ~Accepted(in)
  BY <1>1 DEF LedgerStep, TypeOK
<1>2. CASE Accepted(in)
  <2> DEFINE s == in.sig.slot
             delta == Signed(in.sig.side, ReducedQty(in))
  <2>1. /\ s \in Slot /\ in.sig.qty \in 0 .. Word - 1
        /\ in.cfg.ml_reduce \in Nat \ {0}
    BY <1>2, AcceptedFacts, WiresType, ConfigType DEF TypeOK
  <2>2. Half \in Nat \ {0} /\ Word = 2 * Half
    BY WidthAssumption DEF Word
  <2>3. ReducedQty(in) \in 0 .. Word - 1
    BY <2>1, <2>2, ReducedType
  <2>4. delta \in -(Word - 1) .. Word - 1
    BY <2>2, <2>3 DEF Signed
  <2>5. position[s] \in -Half .. Half - 1
    BY <2>1 DEF TypeOK
  <2>6. Wrap(position[s] + delta, Half) \in -Half .. Half - 1
    <3>1. /\ position[s] + delta \in Int
          /\ -3 * Half < position[s] + delta /\ position[s] + delta < 3 * Half
      BY <2>2, <2>4, <2>5
    <3> HIDE DEF delta, s
    <3> QED
      BY <2>2, <3>1, WrapInto
  <2>7. position' = [position EXCEPT ![s] = Wrap(@ + delta, Half)]
    BY <1>2 DEF LedgerStep
  <2> QED
    BY <2>1, <2>6, <2>7 DEF TypeOK
<1> QED
  BY <1>1, <1>2

(* The registered decision is well formed. *)
LEMMA DecisionType ==
  ASSUME TypeOK, NEW in \in Wires, DecisionStep(in, Accepted(in))
  PROVE  /\ order' \in [valid : BOOLEAN, slot : Slot \cup {0}, side : {BID, ASK},
                        price : Nat, qty : Nat, reason : 0 .. 9,
                        fired : SUBSET Gate]
         /\ order'.valid => order'.slot \in Slot
<1>1. CASE in.sig = NoIntent
  BY <1>1 DEF DecisionStep, TypeOK
<1>2. CASE in.sig # NoIntent
  <2>1. /\ in.sig.slot \in Slot /\ in.sig.side \in {BID, ASK}
        /\ in.sig.price \in 0 .. Word - 1 /\ in.sig.qty \in 0 .. Word - 1
        /\ in.cfg.ml_reduce \in Nat \ {0}
    BY <1>2, WiresType, ConfigType DEF TypeOK
  <2>2. Word \in Nat
    BY WidthAssumption DEF Word
  <2>3. ReducedQty(in) \in Nat
    BY <2>1, <2>2, ReducedType
  <2>4. Fired(in) \in SUBSET Gate
    BY DEF Fired
  <2>5. RejectReason(in) \in 0 .. 9
    BY <2>4, LowestGate DEF RejectReason, Gate
  <2>6. Accepted(in) \in BOOLEAN
    BY DEF Accepted
  <2> QED
    BY <1>2, <2>1, <2>2, <2>3, <2>4, <2>5, <2>6 DEF DecisionStep
<1> QED
  BY <1>1, <1>2

LEMMA StalenessType ==
  ASSUME TypeOK, NEW in \in Wires, StalenessStep(in)
  PROVE  /\ last_update' \in [Slot -> 0 .. CycleMod - 1]
         /\ pend_prev' \in 0 .. CycleMod - 1
         /\ pend_msg' \in 0 .. CycleMod - 1
BY WiresType DEF StalenessStep, TypeOK

LEMMA InitType == Init => TypeOK
<1> SUFFICES ASSUME Init PROVE TypeOK
  OBVIOUS
<1>1. cfg \in Config /\ cfg.max_position \in 0 .. Half - 1
      /\ cfg.token_max \in 0 .. Word - 1
  BY ConfigType DEF Init
<1>2. Half \in Nat \ {0} /\ Word \in Nat \ {0} /\ CycleMod \in Nat \ {0}
  BY WidthAssumption DEF Word
<1>3. order \in [valid : BOOLEAN, slot : Slot \cup {0}, side : {BID, ASK},
                price : Nat, qty : Nat, reason : 0 .. 9, fired : SUBSET Gate]
      /\ ~order.valid
  BY DEF Init, RiskReset, NoDecision
<1>4. win \in [open : BOOLEAN, cycles : Nat, orders : Nat]
  BY DEF Init, NoWindow
<1>5. filled \in [Slot -> Int] /\ position \in [Slot -> -Half .. Half - 1]
      /\ last_update \in [Slot -> 0 .. CycleMod - 1]
  BY <1>2 DEF Init, RiskReset
<1>6. /\ refill_ctr \in 0 .. Word - 1
      /\ token_bucket \in 0 .. Word - 1
      /\ pend_prev \in 0 .. CycleMod - 1 /\ pend_msg \in 0 .. CycleMod - 1
      /\ cur_cycle \in 0 .. CycleMod - 1
      /\ limit \in 0 .. Half - 1 /\ ceiling \in 0 .. Word - 1
  BY <1>1, <1>2 DEF Init, RiskReset
<1>7. kill_latched \in BOOLEAN
  BY Zenon DEF Init, RiskReset
<1> QED
  BY <1>1, <1>3, <1>4, <1>5, <1>6, <1>7 DEF TypeOK

LEMMA ClockType ==
  ASSUME TypeOK, NEW in \in Wires, NEW newCfg \in Config, Clock(in, newCfg)
  PROVE  TypeOK'
<1>1. /\ KillLatchStep(in) /\ StalenessStep(in)
      /\ TokenStep(in, Accepted(in)) /\ LedgerStep(in, Accepted(in))
      /\ DecisionStep(in, Accepted(in))
  BY DEF Clock, RiskStep
<1>2. Accepted(in) \in BOOLEAN
  BY DEF Accepted
<1>3. cfg' \in Config /\ cur_cycle' \in 0 .. CycleMod - 1
  BY WidthAssumption DEF Clock, CycleStep, TypeOK
<1>4. kill_latched' \in BOOLEAN
  BY <1>1 DEF KillLatchStep
<1>5. refill_ctr' \in 0 .. Word - 1 /\ token_bucket' \in 0 .. Word - 1
  BY <1>1, <1>2, TokenType, AcceptedFacts, WiresType DEF TypeOK
<1>6. limit' \in 0 .. Half - 1 /\ ceiling' \in 0 .. Word - 1
  BY ConfigType DEF Clock, Larger, TypeOK
<1>7. filled' \in [Slot -> Int]
  BY DEF Clock, FilledStep, Signed, TypeOK
<1>8. win' \in [open : BOOLEAN, cycles : Nat, orders : Nat]
  <2> DEFINE w == IF win.open THEN win ELSE NoWindow
  <2>1. NoWindow \in [open : BOOLEAN, cycles : Nat, orders : Nat]
    BY DEF NoWindow
  <2>2. w \in [open : BOOLEAN, cycles : Nat, orders : Nat]
    BY <2>1 DEF TypeOK
  <2>3. \/ win' = NoWindow
        \/ win' = [open |-> TRUE, cycles |-> w.cycles + 1,
                   orders |-> IF Accepted(in) THEN w.orders + 1 ELSE w.orders]
    BY DEF Clock, WindowStep
  <2> DEFINE n == IF Accepted(in) THEN w.orders + 1 ELSE w.orders
  <2>4. w.cycles + 1 \in Nat /\ n \in Nat
    BY <2>2
  <2> HIDE DEF w, n
  <2>5. [open |-> TRUE, cycles |-> w.cycles + 1, orders |-> n]
          \in [open : BOOLEAN, cycles : Nat, orders : Nat]
    BY <2>4
  <2> QED
    BY <2>1, <2>3, <2>5 DEF n
<1> QED
  BY <1>1, <1>3, <1>4, <1>5, <1>6, <1>7, <1>8, StalenessType, LedgerType,
     DecisionType DEF TypeOK

LEMMA StutterType == TypeOK /\ UNCHANGED vars => TypeOK'
BY DEF TypeOK, vars, riskVars

(* Every register of the engine stays within its width, whatever the       *)
(* intents, messages, configuration writes and kill switch do.             *)
THEOREM TypeCorrect == Spec => []TypeOK
<1>1. Init => TypeOK
  BY InitType
<1>2. TypeOK /\ [Next]_vars => TypeOK'
  BY ClockType, StutterType DEF Next
<1> QED
  BY <1>1, <1>2, PTL DEF Spec

-----------------------------------------------------------------------------
(* Exposure. *)

(* The signal branch never asks for an order of zero lots.  With           *)
(* cfg_order_qty = 0 the ML reduction would turn such an intent into an    *)
(* order of one lot after gate POSITION has admitted it as zero.           *)
NoZeroIntent == \A i \in Intent : i.qty >= 1

ExposureInv == TypeOK /\ cfg.max_position <= limit /\ ExposureWithinLimit

(* What an accepted order does to the ledger: no wrap, and the result lies *)
(* between the old position and the position gate POSITION admitted.       *)
LEMMA AcceptedLedger ==
  ASSUME NoZeroIntent, ExposureInv, NEW in \in Wires, Accepted(in),
         LedgerStep(in, Accepted(in))
  PROVE  /\ in.sig.slot \in Slot
         /\ position' = [position EXCEPT ![in.sig.slot] =
                           @ + Signed(in.sig.side, ReducedQty(in))]
         /\ Abs(position'[in.sig.slot]) <= limit
<1> DEFINE s == in.sig.slot
           q == in.sig.qty
           r == ReducedQty(in)
           new == position[s] + Signed(in.sig.side, r)
<1>1. /\ s \in Slot /\ in.sig.side \in {BID, ASK} /\ in.cfg = cfg
      /\ q \in 0 .. Word - 1 /\ q >= 1
      /\ in.cfg.ml_reduce \in Nat \ {0}
  BY AcceptedFacts, WiresType, ConfigType DEF ExposureInv, TypeOK, NoZeroIntent
<1>2. /\ Half \in Nat \ {0} /\ Word = 2 * Half /\ limit \in 0 .. Half - 1
      /\ cfg.max_position \in 0 .. Half - 1 /\ cfg.max_position <= limit
      /\ position \in [Slot -> -Half .. Half - 1]
      /\ Abs(position[s]) <= limit
  BY <1>1, WidthAssumption, ConfigType
  DEF Word, ExposureInv, TypeOK, ExposureWithinLimit
<1>3. r \in 1 .. q
  BY <1>1, <1>2, ReducedWithin
<1>4. Abs(Prospective(in)) <= cfg.max_position
  <2>1. Prospective(in) \in Int /\ Abs(Prospective(in)) \in Int
    BY <1>1, <1>2 DEF Prospective, Wrap, Signed, Abs
  <2> QED
    BY <1>1, <1>2, <2>1, AcceptedFacts
<1>5. Abs(position[s] + Signed(in.sig.side, q)) <= cfg.max_position
  BY <1>1, <1>2, <1>4 DEF Prospective, Wrap, Signed, Abs
<1>6. new \in Int /\ Abs(new) <= limit
  BY <1>1, <1>2, <1>3, <1>5 DEF Signed, Abs, BID, ASK
<1>7. Wrap(new, Half) = new
  <2>1. new \in -Half .. Half - 1
    BY <1>2, <1>6 DEF Abs
  <2> HIDE DEF new
  <2> QED
    BY <1>2, <2>1, WrapInRange
<1>8. position' = [position EXCEPT ![s] = new]
  BY <1>7 DEF LedgerStep
<1> QED
  BY <1>1, <1>2, <1>6, <1>8

LEMMA ExposureClock ==
  ASSUME NoZeroIntent, ExposureInv, NEW in \in Wires, NEW newCfg \in Config,
         Clock(in, newCfg)
  PROVE  ExposureInv'
<1>1. TypeOK'
  BY ClockType DEF ExposureInv
<1>2. /\ limit \in Int /\ newCfg.max_position \in Int
      /\ cfg' = newCfg /\ limit' = Larger(limit, newCfg.max_position)
  BY ConfigType DEF ExposureInv, TypeOK, Clock
<1>3. cfg'.max_position <= limit' /\ limit <= limit' /\ limit' \in Int
  BY <1>2 DEF Larger
<1>4. LedgerStep(in, Accepted(in))
  BY DEF Clock, RiskStep
<1>5. \A s \in Slot : Abs(position'[s]) <= limit
  <2>1. CASE Accepted(in)
    BY <1>4, <2>1, AcceptedLedger DEF ExposureInv, TypeOK, ExposureWithinLimit
  <2>2. CASE ~Accepted(in)
    BY <1>4, <2>2 DEF LedgerStep, ExposureInv, ExposureWithinLimit
  <2> QED
    BY <2>1, <2>2
<1>6. \A s \in Slot : Abs(position'[s]) \in Int
  BY <1>1, WidthAssumption DEF TypeOK, Abs
<1>7. ExposureWithinLimit'
  BY <1>2, <1>3, <1>5, <1>6 DEF ExposureWithinLimit
<1> QED
  BY <1>1, <1>3, <1>7 DEF ExposureInv

LEMMA ExposureInductive ==
  ASSUME NoZeroIntent
  PROVE  (Init => ExposureInv) /\ (ExposureInv /\ [Next]_vars => ExposureInv')
<1>1. ASSUME Init PROVE ExposureInv
  <2>1. TypeOK
    BY <1>1, InitType
  <2> QED
    BY <1>1, <2>1 DEF Init, RiskReset, ExposureInv, ExposureWithinLimit, TypeOK, Abs
<1>2. ASSUME ExposureInv, UNCHANGED vars PROVE ExposureInv'
  BY <1>2, StutterType DEF ExposureInv, ExposureWithinLimit, vars, riskVars
<1> QED
  BY <1>1, <1>2, ExposureClock DEF Next

(* Exposure never exceeds the largest limit that was ever configured, with *)
(* the ML reduction on or off, for every sequence of intents of at least   *)
(* one lot and every configuration write.                                  *)
THEOREM ExposureSafe ==
  ASSUME NoZeroIntent
  PROVE  Spec => []ExposureWithinLimit
<1>1. Init => ExposureInv
  BY ExposureInductive
<1>2. ExposureInv /\ [Next]_vars => ExposureInv'
  BY ExposureInductive
<1>3. ExposureInv => ExposureWithinLimit
  BY DEF ExposureInv
<1> QED
  BY <1>1, <1>2, <1>3, PTL DEF Spec

-----------------------------------------------------------------------------
(* The ledger and the orders. *)

(* The signed quantity the decision now on the order_* outputs stands for. *)
Pending(s) == IF order.valid /\ order.slot = s
              THEN Signed(order.side, order.qty) ELSE 0

LedgerInv == ExposureInv /\ LedgerMatchesOrders

LEMMA LedgerClock ==
  ASSUME NoZeroIntent, LedgerInv, NEW in \in Wires, NEW newCfg \in Config,
         Clock(in, newCfg)
  PROVE  LedgerMatchesOrders'
<1> SUFFICES ASSUME NEW s \in Slot
             PROVE  position'[s] = filled'[s] + Pending(s)'
  BY DEF LedgerMatchesOrders, Pending
<1>1. position[s] = filled[s] + Pending(s)
  BY DEF LedgerInv, LedgerMatchesOrders, Pending
<1>2. LedgerStep(in, Accepted(in)) /\ DecisionStep(in, Accepted(in)) /\ FilledStep
  BY DEF Clock, RiskStep
<1>3. position \in [Slot -> Int] /\ filled \in [Slot -> Int] /\ Pending(s) \in Int
  BY WidthAssumption DEF LedgerInv, ExposureInv, TypeOK, Pending, Signed
<1>4. filled'[s] = position[s]
  BY <1>1, <1>2, <1>3 DEF FilledStep, Pending
<1>5. CASE Accepted(in)
  <2>1. /\ in.sig.slot \in Slot
        /\ position' = [position EXCEPT ![in.sig.slot] =
                          @ + Signed(in.sig.side, ReducedQty(in))]
    BY <1>2, <1>5, AcceptedLedger DEF LedgerInv
  <2>2. /\ order'.valid = TRUE /\ order'.slot = in.sig.slot
        /\ order'.side = in.sig.side /\ order'.qty = ReducedQty(in)
    BY <1>2, <1>5, AcceptedFacts DEF DecisionStep
  <2>3. Pending(s)' = IF in.sig.slot = s
                      THEN Signed(in.sig.side, ReducedQty(in)) ELSE 0
    BY <2>2 DEF Pending
  <2> QED
    BY <1>3, <1>4, <2>1, <2>3
<1>6. CASE ~Accepted(in)
  <2>1. position' = position
    BY <1>2, <1>6 DEF LedgerStep
  <2>2. ~order'.valid
    BY <1>2, <1>6 DEF DecisionStep
  <2>3. Pending(s)' = 0
    BY <2>2 DEF Pending
  <2> QED
    BY <1>3, <1>4, <2>1, <2>3
<1> QED
  BY <1>5, <1>6

(* The ledger is the signed sum of the orders handed downstream: what is   *)
(* booked is what is sent, reduced or not.                                 *)
THEOREM LedgerSafe ==
  ASSUME NoZeroIntent
  PROVE  Spec => []LedgerMatchesOrders
<1>1. Init => LedgerInv
  <2>1. Init => ExposureInv
    BY ExposureInductive
  <2>2. ASSUME Init, NEW s \in Slot PROVE position[s] = filled[s] + Pending(s)
    <3>1. ~order.valid
      BY <2>2 DEF Init, RiskReset, NoDecision
    <3>2. position[s] = 0 /\ filled[s] = 0
      BY <2>2 DEF Init, RiskReset
    <3> QED
      BY <3>1, <3>2 DEF Pending
  <2> QED
    BY <2>1, <2>2 DEF LedgerInv, LedgerMatchesOrders, Pending
<1>2. LedgerInv /\ [Next]_vars => LedgerInv'
  <2>1. LedgerInv /\ [Next]_vars => ExposureInv'
    BY ExposureInductive DEF LedgerInv
  <2>2. LedgerInv /\ Next => LedgerMatchesOrders'
    BY LedgerClock DEF Next
  <2>3. LedgerInv /\ UNCHANGED vars => LedgerMatchesOrders'
    BY DEF LedgerInv, LedgerMatchesOrders, vars, riskVars
  <2> QED
    BY <2>1, <2>2, <2>3 DEF LedgerInv
<1>3. LedgerInv => LedgerMatchesOrders
  BY DEF LedgerInv
<1> QED
  BY <1>1, <1>2, <1>3, PTL DEF Spec

-----------------------------------------------------------------------------
(* The throttle. *)

(* Permits spent in the interval and permits left never exceed a full      *)
(* bucket plus what the elapsed cycles have refilled.                      *)
Meter(w) ==
  cfg.token_refill_cycles * (w.orders + token_bucket) + refill_ctr
    <= cfg.token_refill_cycles * cfg.token_max
       + cfg.token_refill_cycles - 1 + w.cycles

ThrottleInv ==
  /\ TypeOK
  /\ token_bucket <= cfg.token_max
  /\ refill_ctr < cfg.token_refill_cycles
  /\ Meter(win)

LEMMA Distribute ==
  ASSUME NEW r \in Int, NEW a \in Int, NEW b \in Int
  PROVE  r * (a + b) = r * a + r * b /\ r * (a - b) = r * a - r * b
OBVIOUS

LEMMA Monotone ==
  ASSUME NEW r \in Nat, NEW a \in Int, NEW b \in Int, a <= b
  PROVE  r * a <= r * b
OBVIOUS

(* A meter that starts now reads a bucket that is at most full. *)
LEMMA FreshMeter ==
  ASSUME NEW r \in Nat, NEW m \in Nat, NEW t \in 0 .. m, NEW c \in 0 .. r - 1
  PROVE  r * (0 + t) + c <= r * m + r - 1 + 0
<1>1. r * t <= r * m /\ r * t \in Int /\ r * m \in Int
  BY Monotone
<1>2. 0 + t = t
  OBVIOUS
<1> QED
  BY <1>1, <1>2

LEMMA ThrottleClock ==
  ASSUME ThrottleInv, NEW in \in Wires, Clock(in, cfg)
  PROVE  ThrottleInv'
<1> DEFINE R == cfg.token_refill_cycles
           M == cfg.token_max
           c == refill_ctr
           t == token_bucket
           w == IF win.open THEN win ELSE NoWindow
           spent == IF Accepted(in) THEN 1 ELSE 0
<1>1. TypeOK /\ TypeOK' /\ cfg' = cfg /\ in.cfg = cfg
  BY ClockType, WiresType DEF ThrottleInv, Clock, TypeOK
<1>2. /\ R \in 1 .. Word - 1 /\ M \in 0 .. Word - 1 /\ Word \in Nat
      /\ t \in 0 .. M /\ c \in 0 .. R - 1
  BY <1>1, ConfigType, WidthAssumption DEF ThrottleInv, TypeOK, Word
<1>3. /\ w.orders \in Nat /\ w.cycles \in Nat
      /\ Meter(w)
  <2>1. CASE win.open
    BY <1>1, <2>1 DEF ThrottleInv, TypeOK
  <2>2. CASE ~win.open
    <3>1. w.orders = 0 /\ w.cycles = 0
      BY <2>2 DEF NoWindow
    <3> HIDE DEF w
    <3> QED
      BY <1>2, <3>1, FreshMeter DEF Meter
  <2> QED
    BY <2>1, <2>2
<1>4. TokenStep(in, Accepted(in)) /\ WindowStep(in)
  BY DEF Clock, RiskStep
<1>5. Inc(c) = c + 1
  BY <1>2 DEF Inc
<1>6. RefillTick(in) <=> c + 1 = R
  BY <1>1, <1>2, <1>5 DEF RefillTick
<1>7. Accepted(in) => TokenAfterRefill(in) >= 1
  BY <1>1, <1>2, AcceptedFacts DEF TokenAfterRefill
<1>8. /\ refill_ctr' = IF c + 1 = R THEN 0 ELSE c + 1
      /\ token_bucket' = (IF c + 1 = R /\ t < M THEN t + 1 ELSE t) - spent
  BY <1>1, <1>2, <1>4, <1>5, <1>6 DEF TokenStep, RefillCtrNext, TokenAfterRefill
<1>9. token_bucket' \in 0 .. M /\ refill_ctr' \in 0 .. R - 1
  BY <1>1, <1>2, <1>6, <1>7, <1>8 DEF TokenAfterRefill
<1>10. R * (w.orders + spent + token_bucket') + refill_ctr'
         <= R * M + R - 1 + (w.cycles + 1)
  <2> HIDE DEF w, R, M, c, t
  <2>1. R * (w.orders + t) + c <= R * M + R - 1 + w.cycles
    BY <1>3 DEF Meter, R, M, c, t
  <2>2. w.orders + t \in Nat /\ R \in Nat /\ M \in Nat /\ c \in Nat /\ w.cycles \in Nat
    BY <1>2, <1>3
  <2>3. R * (w.orders + t) \in Int /\ R * M \in Int
    BY <2>2
  <2>4. R * (w.orders + t + 1) = R * (w.orders + t) + R
    BY <2>2, Distribute
  <2>5. CASE c + 1 = R /\ t < M
    <3>1. w.orders + spent + token_bucket' = w.orders + t + 1 /\ refill_ctr' = 0
      BY <1>2, <1>3, <1>8, <2>5
    <3> QED
      BY <2>1, <2>2, <2>3, <2>4, <2>5, <3>1
  <2>6. CASE ~(c + 1 = R /\ t < M)
    <3>1. w.orders + spent + token_bucket' = w.orders + t /\ refill_ctr' <= c + 1
          /\ refill_ctr' \in Nat
      BY <1>2, <1>3, <1>8, <1>9, <2>6
    <3> QED
      BY <2>1, <2>2, <2>3, <3>1
  <2> QED
    BY <2>5, <2>6
<1>11. Meter(win)'
  <2>1. CASE win' = NoWindow
    <3>1. win'.orders = 0 /\ win'.cycles = 0
      BY <2>1 DEF NoWindow
    <3> QED
      BY <1>1, <1>2, <1>9, <3>1, FreshMeter DEF Meter
  <2>2. CASE win' = [open |-> TRUE, cycles |-> w.cycles + 1,
                     orders |-> IF Accepted(in) THEN w.orders + 1 ELSE w.orders]
    <3>1. win'.cycles = w.cycles + 1 /\ win'.orders = w.orders + spent
      BY <1>3, <2>2
    <3>2. R * (win'.orders + token_bucket') + refill_ctr'
            <= R * M + R - 1 + win'.cycles
      BY <1>10, <3>1
    <3> QED
      BY <1>1, <3>2 DEF Meter
  <2> QED
    BY <1>4, <2>1, <2>2 DEF WindowStep
<1> QED
  BY <1>1, <1>2, <1>9, <1>11 DEF ThrottleInv

(* Over any interval, the throttle lets through at most a full bucket and  *)
(* one order per refill period, whatever the widths and the settings.      *)
THEOREM RateSafe == FixedSpec => []RateBounded
<1>1. Init => ThrottleInv
  <2>1. Init => TypeOK
    BY InitType
  <2>2. ASSUME Init PROVE ThrottleInv
    <3>1. TypeOK /\ token_bucket = cfg.token_max /\ refill_ctr = 0 /\ win = NoWindow
      BY <2>1, <2>2 DEF Init, RiskReset
    <3>2. /\ cfg.token_max \in Nat
          /\ cfg.token_refill_cycles \in Nat /\ cfg.token_refill_cycles > 0
      BY <3>1, ConfigType, WidthAssumption DEF TypeOK, Word
    <3>3. token_bucket \in 0 .. cfg.token_max
          /\ refill_ctr \in 0 .. cfg.token_refill_cycles - 1
      BY <3>1, <3>2
    <3>4. win.orders = 0 /\ win.cycles = 0
      BY <3>1 DEF NoWindow
    <3>5. Meter(win)
      BY <3>2, <3>3, <3>4, FreshMeter DEF Meter
    <3> QED
      BY <3>1, <3>2, <3>3, <3>5 DEF ThrottleInv
  <2> QED
    BY <2>2
<1>2. ThrottleInv /\ [FixedNext]_vars => ThrottleInv'
  <2>1. ThrottleInv /\ FixedNext => ThrottleInv'
    BY ThrottleClock DEF FixedNext
  <2>2. ThrottleInv /\ UNCHANGED vars => ThrottleInv'
    BY StutterType DEF ThrottleInv, Meter, vars, riskVars
  <2> QED
    BY <2>1, <2>2
<1>3. ThrottleInv => RateBounded
  <2> SUFFICES ASSUME ThrottleInv PROVE RateBounded
    OBVIOUS
  <2> DEFINE R == cfg.token_refill_cycles
  <2>1. /\ R \in Nat /\ cfg.token_max \in Nat /\ token_bucket \in Nat
        /\ refill_ctr \in Nat /\ win.orders \in Nat /\ win.cycles \in Nat
    BY ConfigType, WidthAssumption DEF ThrottleInv, TypeOK, Word
  <2>2. R * win.orders <= R * (win.orders + token_bucket)
    BY <2>1, Monotone
  <2>3. R * (win.orders - cfg.token_max) = R * win.orders - R * cfg.token_max
    BY <2>1, Distribute
  <2>4. R * win.orders \in Int /\ R * cfg.token_max \in Int
        /\ R * (win.orders + token_bucket) \in Int
    BY <2>1
  <2> QED
    BY <2>1, <2>2, <2>3, <2>4 DEF ThrottleInv, Meter, RateBounded
<1> QED
  BY <1>1, <1>2, <1>3, PTL DEF FixedSpec

CeilingInv == TypeOK /\ cfg.token_max <= ceiling /\ TokensWithinCeiling

LEMMA CeilingClock ==
  ASSUME CeilingInv, NEW in \in Wires, NEW newCfg \in Config, Clock(in, newCfg)
  PROVE  CeilingInv'
<1>1. TypeOK'
  BY ClockType DEF CeilingInv
<1>2. /\ in.cfg = cfg /\ cfg' = newCfg /\ newCfg.token_max \in Nat
      /\ cfg.token_max \in Nat /\ ceiling \in Nat /\ token_bucket \in Nat
      /\ cfg.token_max <= ceiling /\ token_bucket <= ceiling
  BY WiresType, ConfigType, WidthAssumption
  DEF CeilingInv, TypeOK, TokensWithinCeiling, Clock, Word
<1>3. ceiling' = Larger(ceiling, newCfg.token_max)
  BY DEF Clock
<1>4. ceiling' \in Nat /\ ceiling <= ceiling' /\ newCfg.token_max <= ceiling'
  BY <1>2, <1>3 DEF Larger
<1>5. TokenAfterRefill(in) \in Nat /\ TokenAfterRefill(in) <= ceiling
  BY <1>2 DEF TokenAfterRefill
<1>6. token_bucket' <= TokenAfterRefill(in) /\ token_bucket' \in Int
  BY <1>5 DEF Clock, RiskStep, TokenStep
<1> QED
  BY <1>1, <1>2, <1>4, <1>5, <1>6 DEF CeilingInv, TokensWithinCeiling

(* Configuration writes may leave more permits in the bucket than the      *)
(* ceiling in force, never more than the largest ceiling so far.           *)
THEOREM CeilingSafe == Spec => []TokensWithinCeiling
<1>1. Init => CeilingInv
  <2>1. ASSUME Init PROVE CeilingInv
    <3>1. TypeOK
      BY <2>1, InitType
    <3>2. token_bucket = ceiling /\ cfg.token_max = ceiling
      BY <2>1 DEF Init, RiskReset
    <3>3. ceiling \in Int
      BY <3>1, WidthAssumption DEF TypeOK, Word
    <3> QED
      BY <3>1, <3>2, <3>3 DEF CeilingInv, TokensWithinCeiling
  <2> QED
    BY <2>1
<1>2. CeilingInv /\ [Next]_vars => CeilingInv'
  <2>1. CeilingInv /\ UNCHANGED vars => CeilingInv'
    BY StutterType DEF CeilingInv, TokensWithinCeiling, vars, riskVars
  <2> QED
    BY <2>1, CeilingClock DEF Next
<1>3. CeilingInv => TokensWithinCeiling
  BY DEF CeilingInv
<1> QED
  BY <1>1, <1>2, <1>3, PTL DEF Spec

=============================================================================
