------------------------------- MODULE MlGolden -------------------------------
(***************************************************************************)
(* sim/ml_golden.py: the Python reference of the classifier and of the     *)
(* policy behind it, called once for each feature vector.                  *)
(***************************************************************************)
EXTENDS Integers, Sequences, Functions

CONSTANTS
  Weights,       \* model/weights.mem
  Bias,          \* model/bias.mem
  score_offset,
  score_scale,   \* 2^score_shift
  MaxRisk        \* 255

ASSUME ScoreAssumption ==
  /\ \A i \in DOMAIN Weights : Weights[i] \in Int
  /\ Bias \in Int /\ score_offset \in Int
  /\ score_scale \in Nat \ {0} /\ MaxRisk \in Nat

VARIABLES
  held_risk,   \* self.adverse_risk
  ml_result    \* the MLResult of the last call

mlGoldenVars == <<held_risk, ml_result>>

MlGoldenInit ==
  /\ held_risk = FALSE
  /\ ml_result = [z |-> 0, risk_level |-> 0, adverse_risk |-> FALSE, safe_forced |-> FALSE]

Score(x) == Bias + SumFunction([i \in DOMAIN Weights |-> Weights[i] * x[i]])

(* A shift to the right rounds down, of a negative number too. *)
RiskLevel(z) ==
  LET shifted == (z + score_offset) \div score_scale
  IN IF shifted < 0 THEN 0 ELSE IF shifted > MaxRisk THEN MaxRisk ELSE shifted

classify(x, bid_valid, ask_valid, is_crossed, gap, th) ==
  LET z == Score(x)
      forced == ~bid_valid \/ ~ask_valid \/ is_crossed \/ gap
      adverse == \/ forced
                 \/ z >= th.high
                 \/ z > th.low /\ held_risk
  IN /\ held_risk' = adverse
     /\ ml_result' = [z |-> z, risk_level |-> RiskLevel(z),
                      adverse_risk |-> adverse, safe_forced |-> forced]

=============================================================================
