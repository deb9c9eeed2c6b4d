----------------------------- MODULE MlClassifier -----------------------------
(***************************************************************************)
(* rtl/feature_normalizer.v and rtl/ml_classifier_wrap.v: from eight words *)
(* to eight bytes, and from those to a score, a cycle each.                *)
(*                                                                         *)
(* The configuration gives each lane its offset, a word, and its scale,    *)
(* which is 2^shift.                                                       *)
(***************************************************************************)
EXTENDS Integers, Functions

CONSTANTS
  NormWord,    \* 2^32
  ByteHalf,    \* 128
  w_mem,       \* what $readmemh puts into the weights
  bias_mem

ASSUME LaneAssumption ==
  /\ NormWord \in {2 * n : n \in 1 .. NormWord}
  /\ ByteHalf \in Nat \ {0}
  /\ \A i \in DOMAIN w_mem : w_mem[i] \in Int
  /\ bias_mem \in Int

VARIABLES
  norm,    \* norm_valid, norm_slot, x0 .. x7
  ml       \* ml_valid, ml_slot, z

classifierVars == <<norm, ml>>

ClassifierReset ==
  /\ norm = [valid |-> FALSE, slot |-> 0, x |-> [i \in DOMAIN w_mem |-> 0]]
  /\ ml = [valid |-> FALSE, slot |-> 0, z |-> 0]

(* $signed of a word. *)
AsSigned(w) == IF w >= NormWord \div 2 THEN w - NormWord ELSE w

(* Mutant: the shift is logical, for want of a signed operand. *)
norm8_Logical(raw, offset, scale) ==
  LET shifted == ((AsSigned(raw) - AsSigned(offset)) % NormWord) \div scale
  IN IF shifted > ByteHalf - 1 THEN ByteHalf - 1 ELSE shifted

(* Mutant: the low bits are taken without a look at the others. *)
norm8_Unsaturated(raw, offset, scale) ==
  AsSigned((AsSigned(raw) - AsSigned(offset)) % NormWord) \div scale

(* A difference in a word, an arithmetic shift, saturation to a byte. *)
norm8(raw, offset, scale) ==
  LET diff == AsSigned((AsSigned(raw) - AsSigned(offset)) % NormWord)
      shifted == diff \div scale
  IN IF shifted > ByteHalf - 1 THEN ByteHalf - 1
     ELSE IF shifted < -ByteHalf THEN -ByteHalf
     ELSE shifted

(* Eight products of bytes never overflow a word. *)
z_c == bias_mem + SumFunction([i \in DOMAIN w_mem |-> w_mem[i] * norm.x[i]])

NormalizerStep(feature, offset, scale) ==
  norm' = [valid |-> feature.valid, slot |-> feature.slot,
           x |-> [i \in DOMAIN w_mem |-> norm8(feature.f[i], offset[i], scale[i])]]

ClassifierStep == ml' = [valid |-> norm.valid, slot |-> norm.slot, z |-> z_c]

=============================================================================
