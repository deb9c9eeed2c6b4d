----------------------------- MODULE OrderBuilder -----------------------------
(***************************************************************************)
(* rtl/order_builder.v: turns the risk engine's decisions into order       *)
(* records, queues at most two of them and hands them one at a time to the *)
(* transmit side.  A record keeps what the properties tell apart: its      *)
(* kind, the sequence number of the message that triggered it and the      *)
(* cycle that message arrived.                                             *)
(*                                                                         *)
(* One step is one rising edge.  The wires are the record "in":            *)
(* order_valid, rejected (reject_reason is not 0), cfg_reject_report,      *)
(* msg_seq_num, cur_cycle, tx_busy.                                        *)
(***************************************************************************)
EXTENDS Integers, Sequences

CONSTANTS
  ALIGN_DEPTH,   \* stages of the alignment delay in front of the risk engine
  CycleMod,      \* where the free-running cycle counter wraps: 2^32
  LatencyMod,    \* where the reported latency wraps: 2^16
  NoFrame        \* tx_payload while no record is presented

ASSUME DepthAssumption == ALIGN_DEPTH \in Nat \ {0}
ASSUME ModAssumption == CycleMod \in Nat \ {0} /\ LatencyMod \in Nat \ {0}

VARIABLES
  trigger_delay,   \* the last TRIGGER_DELAY samples of msg_seq_num, cur_cycle
  queue,           \* q0, q1: the oldest record first
  tx_start,        \* one-cycle pulse: tx_payload is to be transmitted
  tx_payload

builderVars == <<trigger_delay, queue, tx_start, tx_payload>>

ORDER == "order"
REJECT == "reject"

QueueDepth == 2

(* Mutant: the stages of the signal and risk engines alone, as before D25. *)
TRIGGER_DELAY_Unaligned == 2

(* From msg_valid to the decision: signal engine, alignment, risk engine. *)
TRIGGER_DELAY == 2 + ALIGN_DEPTH

Elapsed(from, to) == (to - from) % CycleMod

-----------------------------------------------------------------------------

Sample(in) == [seq |-> in.msg_seq_num, cycle |-> in.cur_cycle]

(* The sample taken TRIGGER_DELAY cycles ago. *)
Captured == trigger_delay[TRIGGER_DELAY]

TriggerDelayStep(in) ==
  trigger_delay' = [i \in 1 .. TRIGGER_DELAY |->
                      IF i = 1 THEN Sample(in) ELSE trigger_delay[i - 1]]

WantPush(in) == in.order_valid \/ (in.cfg_reject_report /\ in.rejected)

(* Mutant: the time of the decision, not of the message. *)
NewRecord_DecisionTime(in) ==
  [kind    |-> IF in.order_valid THEN ORDER ELSE REJECT,
   seq     |-> Captured.seq,
   ingress |-> in.cur_cycle]

NewRecord(in) ==
  [kind    |-> IF in.order_valid THEN ORDER ELSE REJECT,
   seq     |-> Captured.seq,
   ingress |-> Captured.cycle]

(* Mutant: the pulse of the last hand-over is not looked at. *)
Pop_Eager(in) == queue # <<>> /\ ~in.tx_busy

(* tx_busy rises one cycle after tx_start, so a pulse still high holds the *)
(* next record back as well.                                               *)
Pop(in) == queue # <<>> /\ ~in.tx_busy /\ ~tx_start

AfterPop(in) == IF Pop(in) THEN Tail(queue) ELSE queue

(* Mutant: one record too many is let in. *)
Overflow_Late(in) == WantPush(in) /\ Len(AfterPop(in)) > QueueDepth

(* Judged after a pop on the same cycle. *)
Overflow(in) == WantPush(in) /\ Len(AfterPop(in)) >= QueueDepth

(* Mutant: a push is forgotten when a record leaves on the same cycle. *)
QueueStep_PopWins(in) ==
  queue' = IF Pop(in) \/ ~WantPush(in) \/ Overflow(in)
           THEN AfterPop(in) ELSE Append(queue, NewRecord(in))

QueueStep(in) ==
  queue' = IF WantPush(in) /\ ~Overflow(in)
           THEN Append(AfterPop(in), NewRecord(in))
           ELSE AfterPop(in)

(* The latency is taken when the record leaves, its wait included. *)
Encode(rec, now) ==
  [kind |-> rec.kind, seq |-> rec.seq,
   latency |-> Elapsed(rec.ingress, now) % LatencyMod]

LaunchStep(in) ==
  /\ tx_start' = Pop(in)
  /\ tx_payload' = IF Pop(in) THEN Encode(Head(queue), in.cur_cycle) ELSE NoFrame

BuilderReset ==
  /\ trigger_delay = [i \in 1 .. TRIGGER_DELAY |-> [seq |-> 0, cycle |-> 0]]
  /\ queue = <<>>
  /\ tx_start = FALSE
  /\ tx_payload = NoFrame

BuilderStep(in) ==
  /\ TriggerDelayStep(in)
  /\ QueueStep(in)
  /\ LaunchStep(in)

=============================================================================
