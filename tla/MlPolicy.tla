------------------------------- MODULE MlPolicy -------------------------------
(***************************************************************************)
(* rtl/ml_policy.v: from a score to the verdict gate ML looks at, with     *)
(* hysteresis between two thresholds and fail-safe forcing.                *)
(*                                                                         *)
(* The wires are the record "in": event (NoEvent, or the slot and score of *)
(* ml_classifier_wrap.v's output), the registered book, seq_gap, cfg.      *)
(***************************************************************************)
EXTENDS Integers

CONSTANT NoEvent   \* ml_valid is low

VARIABLES
  adverse_risk,       \* the verdict, a level that holds between events
  ml_adverse_pulse    \* the event just judged was adverse

mlVars == <<adverse_risk, ml_adverse_pulse>>

MlReset == adverse_risk = FALSE /\ ml_adverse_pulse = FALSE

(* The book is unusable or messages are missing (FR-26, FR-31). *)
safe_state(in) ==
  \/ ~in.bid[in.event.slot].valid
  \/ ~in.ask[in.event.slot].valid
  \/ in.crossed[in.event.slot]
  \/ in.seq_gap

(* Set at the upper threshold, cleared at the lower, held between them. *)
Adverse(in) ==
  \/ safe_state(in)
  \/ in.event.z >= in.cfg.ml_th_high
  \/ in.event.z > in.cfg.ml_th_low /\ adverse_risk

(* Mutant: in the band between the thresholds nothing is counted. *)
PolicyStep_Uncounted(in) ==
  IF in.event = NoEvent
  THEN ml_adverse_pulse' = FALSE /\ UNCHANGED adverse_risk
  ELSE /\ adverse_risk' = Adverse(in)
       /\ ml_adverse_pulse' = (safe_state(in) \/ in.event.z >= in.cfg.ml_th_high)

(* The pulse for the counters follows the verdict, held or not. *)
PolicyStep(in) ==
  IF in.event = NoEvent
  THEN ml_adverse_pulse' = FALSE /\ UNCHANGED adverse_risk
  ELSE adverse_risk' = Adverse(in) /\ ml_adverse_pulse' = Adverse(in)

=============================================================================
