------------------------------ MODULE SeqMonitor ------------------------------
(***************************************************************************)
(* rtl/seq_monitor.v: one expected sequence number for the whole feed.     *)
(* The wires are the record "in": complete (md_parser.v finished a 16-byte *)
(* message, of whatever type), seq, snapshot, seq_gap_clear.               *)
(***************************************************************************)
EXTENDS Integers

CONSTANT SeqMod   \* where sequence numbers wrap: 2^32

ASSUME SeqModAssumption == SeqMod \in Nat \ {0}

VARIABLES
  expected_seq,
  seen_first,   \* a message has set the baseline
  seq_gap       \* sticky: messages were lost

seqVars == <<expected_seq, seen_first, seq_gap>>

SeqReset == expected_seq = 0 /\ seen_first = FALSE /\ seq_gap = FALSE

err_seq_dup(in) == in.complete /\ seen_first /\ in.seq < expected_seq
(* Mutant: one missing message is tolerated. *)
seq_gap_pulse_Tolerant(in) == in.complete /\ seen_first /\ in.seq > expected_seq + 1

seq_gap_pulse(in) == in.complete /\ seen_first /\ in.seq > expected_seq

(* Mutant: one message too far, and no wrap. *)
ExpectedStep_TooFar(in) ==
  /\ seen_first' = (seen_first \/ in.complete)
  /\ expected_seq' = IF in.complete /\ ~err_seq_dup(in)
                     THEN in.seq + 2 ELSE expected_seq

(* A gap is skipped over; a duplicate does not move the expectation. *)
ExpectedStep(in) ==
  /\ seen_first' = (seen_first \/ in.complete)
  /\ expected_seq' = IF in.complete /\ ~err_seq_dup(in)
                     THEN (in.seq + 1) % SeqMod ELSE expected_seq

(* Clears win over a gap found on the same cycle. *)
GapStep(in) ==
  seq_gap' = /\ ~in.seq_gap_clear
             /\ ~(in.complete /\ in.snapshot)
             /\ seq_gap \/ seq_gap_pulse(in)

SeqStep(in) == ExpectedStep(in) /\ GapStep(in)

=============================================================================
