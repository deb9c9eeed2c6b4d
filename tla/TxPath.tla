-------------------------------- MODULE TxPath --------------------------------
(***************************************************************************)
(* From a completed message to a frame in the MAC's FIFO, cycle by cycle:  *)
(* the fixed-latency fast path (signal engine, alignment delay, risk       *)
(* engine), order_builder.v, csr_block.v's read responses, and the arbiter *)
(* of tob_top.v that joins the two onto eth_mac_if.v.                      *)
(*                                                                         *)
(* What the fast path computes is left open: a message may or may not fire *)
(* a signal, and the risk engine may accept or reject it, except that the  *)
(* kill latch rejects everything.  RiskEngine.tla has the detail.          *)
(***************************************************************************)
EXTENDS OrderBuilder, EthTx, FiniteSets

CONSTANTS
  SPACING,      \* bytes of a message: least distance of two completions
  SeqNum,         \* sequence numbers of messages
  Torn,         \* msg_seq_num while its four bytes may be landing
  NoTrigger,    \* a stage of the fast path that carries no signal
  RESPONSE,     \* the frame that answers a CSR read
  ReportModes,  \* values of cfg_reject_report
  FifoFull,     \* values the MAC's almost_full takes
  KillSwitch,   \* values of the kill switch, TRUE while pressed
  MaxDrained,   \* bound of the counter of orders sent after a kill
  MaxDebt,      \* bound of the counter balance, below
  MaxAge        \* bound of the ages of records, in cycles

ASSUME SpacingAssumption == SPACING \in Nat \ {0}
ASSUME ModeAssumption ==
  /\ FALSE \in ReportModes /\ ReportModes \subseteq BOOLEAN
  /\ FifoFull \subseteq BOOLEAN
  /\ KillSwitch \subseteq BOOLEAN
ASSUME SeqAssumption ==
  /\ Torn \notin SeqNum /\ NoTrigger \notin SeqNum \cup {Torn}
  /\ 0 \in SeqNum
ASSUME BoundAssumption == MaxDrained \in Nat /\ MaxDebt \in Nat /\ MaxAge \in Nat

VARIABLES
  since,              \* cycles since the last message completed, to SPACING
  last_seq,           \* its sequence number
  fast_path,          \* stages between a message and the risk engine's decision
  decision,           \* the risk engine's registered decision
  kill_latched,
  cfg_reject_report,
  cur_cycle,
  resp_start,         \* csr_block.v presents a read response
  req_age,            \* history: cycles since udp_tx_req
  balance,            \* history: signals not yet sent, rejected or overflowed
  drained,            \* history: orders launched since the kill latched
  ages,               \* history: cycles since the trigger, of each record
  launch_age          \* history: and of the record in tx_payload when it left

pathVars == <<since, last_seq, fast_path, decision, kill_latched,
              cfg_reject_report, cur_cycle, resp_start>>
vars == <<builderVars, ethVars, pathVars, req_age, balance, drained,
          ages, launch_age>>

(* The 16-byte messages that can complete on a cycle. *)
NONE == "none"
QUIET == "quiet"
SIGNAL == "signal"
READ == "read"
CTRL == "ctrl"
Frame == {NONE, QUIET, SIGNAL, READ, CTRL}

(* Cycles of the signal branch up to the risk engine, and to its decision. *)
SignalStages == 1 + ALIGN_DEPTH
DecisionAge == SignalStages + 1

NoDecision == [kind |-> NONE, trigger |-> NoTrigger]
Decided(kind, trigger) == [kind |-> kind, trigger |-> trigger]

Least(a, b) == IF a <= b THEN a ELSE b
Larger(a, b) == IF a >= b THEN a ELSE b
Count(b) == IF b THEN 1 ELSE 0
OrdersIn(s) == Cardinality({i \in DOMAIN s : s[i].kind = ORDER})

Init ==
  /\ BuilderReset
  /\ EthReset
  /\ since = SPACING
  /\ last_seq = 0
  /\ fast_path = [i \in 1 .. SignalStages |-> NoTrigger]
  /\ decision = NoDecision
  /\ kill_latched = FALSE
  /\ cfg_reject_report = FALSE
  /\ cur_cycle = 0
  /\ resp_start = FALSE
  /\ req_age = TX_HEADER_DELAY + PAYLOAD_BYTES
  /\ balance = 0
  /\ drained = 0
  /\ ages = <<>>
  /\ launch_age = 0

-----------------------------------------------------------------------------
(* What arrives on a cycle. *)

(* Bytes 12 to 15 of a message are its sequence number, and the last one   *)
(* lands on the edge before the message completes; from the first cycle    *)
(* that they may be landing, msg_seq_num counts as unknown.  A CTRL write  *)
(* that clears the kill latch sets cfg_reject_report too.                  *)
Message ==
  LET held == IF since < SPACING - 3 THEN last_seq ELSE Torn
      none == [frame : {NONE}, seq : {held}, clear : {FALSE}, report : {cfg_reject_report}]
      feed == [frame : {QUIET, SIGNAL, READ}, seq : SeqNum, clear : {FALSE},
               report : {cfg_reject_report}]
      ctrl == [frame : {CTRL}, seq : SeqNum, clear : BOOLEAN, report : ReportModes]
  IN none \cup (IF since >= SPACING THEN feed \cup ctrl ELSE {})

(* accept is what gates 2 to 9 say of the intent at the risk engine. *)
Wires == [msg : Message, accept : BOOLEAN, kill : KillSwitch,
          almost_full : FifoFull, mac_send_end : BOOLEAN]

(* The wires of the two components. *)

BuilderIn(in) ==
  [order_valid |-> decision.kind = ORDER, rejected |-> decision.kind = REJECT,
   cfg_reject_report |-> cfg_reject_report, msg_seq_num |-> in.msg.seq,
   cur_cycle |-> cur_cycle, tx_busy |-> tx_busy]

(* Mutant: the response wins. *)
EthIn_ResponseWins(in) ==
  [start |-> tx_start \/ resp_start,
   payload |-> IF resp_start THEN RESPONSE ELSE tx_payload,
   almost_full |-> in.almost_full, mac_send_end |-> in.mac_send_end]

(* order_builder.v always wins; a response started with it is lost (D22). *)
EthIn(in) ==
  [start |-> tx_start \/ (resp_start /\ ~tx_start),
   payload |-> IF tx_start THEN tx_payload ELSE RESPONSE,
   almost_full |-> in.almost_full, mac_send_end |-> in.mac_send_end]

RespBusy == tx_busy \/ tx_start

IssueResp(in) == in.msg.frame = READ /\ ~RespBusy /\ ~resp_start

-----------------------------------------------------------------------------
(* One clock edge. *)

MessageStep(in) ==
  /\ since' = IF in.msg.frame # NONE THEN 1 ELSE Least(since + 1, SPACING)
  /\ last_seq' = IF in.msg.frame # NONE THEN in.msg.seq ELSE last_seq
  /\ cur_cycle' = (cur_cycle + 1) % CycleMod

(* Mutant: the kill latch is not a gate. *)
Verdict_IgnoresKill(in) == IF in.accept THEN ORDER ELSE REJECT

Verdict(in) == IF in.accept /\ ~kill_latched THEN ORDER ELSE REJECT

FastPathStep(in) ==
  /\ fast_path' = [i \in 1 .. SignalStages |->
                     IF i > 1 THEN fast_path[i - 1]
                     ELSE IF in.msg.frame = SIGNAL THEN in.msg.seq ELSE NoTrigger]
  /\ LET trigger == fast_path[SignalStages]
     IN decision' = IF trigger = NoTrigger THEN NoDecision
                    ELSE Decided(Verdict(in), trigger)

ControlStep(in) ==
  /\ kill_latched' = (in.kill \/ (kill_latched /\ ~in.msg.clear))
  /\ cfg_reject_report' = in.msg.report

ResponseStep(in) == resp_start' = IssueResp(in)

(* The counters of csr_block.v, as one balance: signals less orders sent,  *)
(* rejects and overflows.  A reject counts once here; csr_block.v counts   *)
(* it once for every gate that fires.                                      *)
BalanceStep(in) ==
  balance' = Larger(-MaxDebt, balance + Count(fast_path[1] # NoTrigger)
                                      - Count(tx_start /\ tx_payload.kind = ORDER)
                                      - Count(decision.kind = REJECT)
                                      - Count(Overflow(BuilderIn(in))))

DrainedStep ==
  drained' = IF ~kill_latched THEN 0
             ELSE Least(drained + Count(tx_start /\ tx_payload.kind = ORDER), MaxDrained)

(* A decision is made DecisionAge cycles after its message arrived. *)
AgesStep(in) ==
  LET left == IF Pop(BuilderIn(in)) THEN Tail(ages) ELSE ages
      kept == IF WantPush(BuilderIn(in)) /\ ~Overflow(BuilderIn(in))
              THEN Append(left, Least(DecisionAge, MaxAge)) ELSE left
  IN /\ ages' = [i \in DOMAIN kept |-> Least(kept[i] + 1, MaxAge)]
     /\ launch_age' = IF Pop(BuilderIn(in)) THEN Head(ages) ELSE 0

RequestStep(in) ==
  req_age' = IF Accept(EthIn(in)) THEN 0
             ELSE Least(req_age + 1, TX_HEADER_DELAY + PAYLOAD_BYTES)

Clock(in) ==
  /\ MessageStep(in)
  /\ FastPathStep(in)
  /\ ControlStep(in)
  /\ ResponseStep(in)
  /\ BuilderStep(BuilderIn(in))
  /\ EthStep(EthIn(in))
  /\ BalanceStep(in)
  /\ DrainedStep
  /\ RequestStep(in)
  /\ AgesStep(in)

Next == \E in \in Wires : Clock(in)

Spec == Init /\ [][Next]_vars

(* The clock runs, and the MAC finishes a frame it has been given. *)
Finish == \E in \in Wires : tx_state = TX_DRAIN /\ in.mac_send_end /\ Clock(in)

FairSpec == Spec /\ WF_vars(Next) /\ WF_vars(Finish)

-----------------------------------------------------------------------------

Record == [kind : {ORDER, REJECT}, seq : SeqNum \cup {Torn}, ingress : 0 .. CycleMod - 1]
Encoded == [kind : {ORDER, REJECT}, seq : SeqNum \cup {Torn}, latency : 0 .. LatencyMod - 1]

(* Nothing that stands for the absence of a record is one. *)
ASSUME FrameAssumption ==
  /\ {NoFrame, Blank, RESPONSE} \cap Encoded = {}
  /\ {NoFrame, Blank, RESPONSE} \cap Record = {}
  /\ Blank \notin [kind : {ORDER, REJECT}, seq : SeqNum]

TypeOK ==
  /\ trigger_delay \in [1 .. TRIGGER_DELAY ->
                          [seq : SeqNum \cup {Torn}, cycle : 0 .. CycleMod - 1]]
  /\ queue \in Seq(Record) /\ Len(queue) <= QueueDepth
  /\ tx_start \in BOOLEAN
  /\ tx_payload \in Encoded \cup {NoFrame}
  /\ tx_start => tx_payload \in Encoded
  /\ tx_state \in {TX_IDLE, TX_REQ, TX_WAIT, TX_PUSH, TX_DRAIN}
  /\ payload_buf \in Encoded \cup {Blank, RESPONSE}
  /\ wait_cnt \in 0 .. TX_HEADER_DELAY - 1
  /\ push_idx \in 0 .. PAYLOAD_BYTES - 1
  /\ udp_tx_req \in BOOLEAN /\ ram_wr_en \in BOOLEAN
  /\ ram_wr_data \in 0 .. PAYLOAD_BYTES - 1
  /\ since \in 1 .. SPACING
  /\ last_seq \in SeqNum
  /\ fast_path \in [1 .. SignalStages -> SeqNum \cup {NoTrigger}]
  /\ decision \in [kind : {NONE, ORDER, REJECT}, trigger : SeqNum \cup {NoTrigger}]
  /\ kill_latched \in BOOLEAN
  /\ cfg_reject_report \in ReportModes
  /\ cur_cycle \in 0 .. CycleMod - 1
  /\ resp_start \in BOOLEAN
  /\ req_age \in 0 .. TX_HEADER_DELAY + PAYLOAD_BYTES
  /\ balance \in Int
  /\ drained \in 0 .. MaxDrained
  /\ ages \in Seq(0 .. MaxAge) /\ Len(ages) = Len(queue)
  /\ launch_age \in 0 .. MaxAge

(***************************************************************************)
(* No order is lost at the hand-over: whenever order_builder.v pulses      *)
(* tx_start, eth_mac_if.v is idle and takes it.  tx_start is never looked  *)
(* at again while tx_busy (eth_mac_if.v line 51), and a CSR response can   *)
(* make the interface busy between order_builder's look and its pulse.     *)
(* That it does not is a matter of timing: SPACING > DecisionAge.          *)
(***************************************************************************)
LaunchFindsIdle == tx_start => tx_state = TX_IDLE

(***************************************************************************)
(* The record built for a decision carries the sequence number and the     *)
(* arrival cycle of the message that triggered it (D25), although both     *)
(* travel through a delay line of their own.                               *)
(***************************************************************************)
CaptureAligned ==
  decision.kind # NONE =>
    /\ Captured.seq = decision.trigger
    /\ Captured.cycle = (cur_cycle - DecisionAge) % CycleMod

(***************************************************************************)
(* The latency a frame reports is the time from its message's arrival to   *)
(* its hand-over, the wait in the queue included, as long as that fits the *)
(* latency field (FR-53, FR-54).                                           *)
(***************************************************************************)
LatencyReported ==
  tx_start /\ launch_age < MaxAge => tx_payload.latency = launch_age

(***************************************************************************)
(* The bytes of a frame are on the FIFO port exactly in the window after   *)
(* udp_tx_req that the MAC's checksum engine reads, in order, whatever     *)
(* else is started meanwhile.                                              *)
(***************************************************************************)
WriteWindow ==
  /\ ram_wr_en <=> req_age \in TX_HEADER_DELAY .. TX_HEADER_DELAY + PAYLOAD_BYTES - 1
  /\ ram_wr_en => ram_wr_data = req_age - TX_HEADER_DELAY
  /\ udp_tx_req <=> req_age = 0

(***************************************************************************)
(* Counter conservation (spec section 10): a signal is counted as an order *)
(* sent, as a reject or as an overflow, or is still on its way.            *)
(***************************************************************************)
InFlight ==
  Cardinality({i \in 2 .. SignalStages : fast_path[i] # NoTrigger})
    + Count(decision.kind # NONE)
    + OrdersIn(queue)
    + Count(tx_start /\ tx_payload.kind = ORDER)

SignalConservation == balance = InFlight

(***************************************************************************)
(* What may still be sent once the kill switch has latched: the two queued *)
(* orders and the one whose decision was already registered.               *)
(***************************************************************************)
KillDrainBounded == drained <= 3

-----------------------------------------------------------------------------
(* The path implements the order stream. *)

Content(frame) ==
  IF frame \in {NoFrame, Blank, RESPONSE} THEN frame
  ELSE [kind |-> frame.kind, seq |-> frame.seq]

Wanted == decision.kind = ORDER \/ (cfg_reject_report /\ decision.kind = REJECT)

Stream == INSTANCE OrderStream WITH
  Item    <- [kind : {ORDER, REJECT}, seq : SeqNum],
  Nothing <- Blank,
  Reply   <- RESPONSE,
  Depth   <- QueueDepth,
  decided <- IF Wanted THEN [kind |-> decision.kind, seq |-> decision.trigger]
                       ELSE Blank,
  pending <- (IF tx_start THEN <<Content(tx_payload)>> ELSE <<>>)
               \o [i \in 1 .. Len(queue) |-> Content(queue[i])],
  wire    <- Content(payload_buf)

(***************************************************************************)
(* FR-51 and spec 7.5: decisions leave in the order they were made, none   *)
(* is lost but by an overflow, none is sent twice, replies never overtake  *)
(* them, and each is eventually sent.                                      *)
(***************************************************************************)
ImplementsStream == Stream!FairSpec

=============================================================================
