------------------------------- MODULE TxProofs -------------------------------
(***************************************************************************)
(* Theorems about the transmit path, for every depth of the fast path,     *)
(* every frame size and every behaviour of the MAC, and that it implements *)
(* the order stream.                                                       *)
(***************************************************************************)
EXTENDS TxPath, FiniteSetTheorems, FunctionTheorems, SequenceTheorems, TLAPS

-----------------------------------------------------------------------------
(* The hand-over. *)

(* A message takes longer to arrive than a decision takes to be made. *)
Spaced == SPACING > DecisionAge

(* Where a signal is in the fast path tells when its message completed, so *)
(* that one message at most is in the fast path, and a read that is being  *)
(* answered leaves no room for a decision.                                 *)
HandoverInv ==
  /\ since \in 1 .. SPACING
  /\ DOMAIN fast_path = 1 .. SignalStages
  /\ \A i \in 1 .. SignalStages : fast_path[i] # NoTrigger => since = i
  /\ decision.kind # NONE => since = DecisionAge
  /\ resp_start => /\ tx_state = TX_IDLE /\ since = 1
                   /\ tx_start \/ queue = <<>>
  /\ tx_start \in BOOLEAN /\ resp_start \in BOOLEAN
  /\ LaunchFindsIdle

LEMMA Frames ==
  /\ NONE # QUIET /\ NONE # SIGNAL /\ NONE # READ /\ NONE # CTRL
  /\ SIGNAL # READ
BY DEF NONE, QUIET, SIGNAL, READ, CTRL

LEMMA Stages ==
  /\ SignalStages \in Nat /\ SignalStages >= 2
  /\ DecisionAge \in Nat /\ DecisionAge = SignalStages + 1
  /\ SPACING \in Nat /\ SPACING >= 1
BY DepthAssumption, SpacingAssumption DEF SignalStages, DecisionAge

(* Nothing completes before SPACING cycles have passed. *)
LEMMA NothingEarly ==
  ASSUME NEW in \in Wires, in.msg.frame # NONE
  PROVE  since >= SPACING
<1>1. in.msg \in Message
  BY DEF Wires
<1> QED
  BY <1>1 DEF Message

LEMMA HandoverClock ==
  ASSUME Spaced, HandoverInv, NEW in \in Wires, Clock(in)
  PROVE  HandoverInv'
<1>1. /\ since' \in 1 .. SPACING
      /\ in.msg.frame = NONE => since' = Least(since + 1, SPACING)
      /\ in.msg.frame # NONE => since = SPACING /\ since' = 1
  BY NothingEarly, Stages DEF HandoverInv, Clock, MessageStep, Least
<1>2. FastPathStep(in)
  BY DEF Clock
<1>3. /\ DOMAIN fast_path' = 1 .. SignalStages
      /\ \A i \in 1 .. SignalStages : fast_path'[i] # NoTrigger => since' = i
  <2> SUFFICES ASSUME NEW i \in 1 .. SignalStages, fast_path'[i] # NoTrigger
               PROVE  since' = i
    BY <1>2 DEF FastPathStep
  <2>1. CASE i = 1
    BY <1>1, <1>2, <2>1, Frames, Stages DEF FastPathStep
  <2>2. CASE i > 1
    <3>1. fast_path[i - 1] # NoTrigger /\ i - 1 \in 1 .. SignalStages
      BY <1>2, <2>2, Stages DEF FastPathStep
    <3>2. since = i - 1
      BY <3>1 DEF HandoverInv
    <3> QED
      BY <1>1, <2>2, <3>2, Stages DEF Spaced, Least
  <2> QED
    BY <2>1, <2>2
<1>4. decision'.kind # NONE => since' = DecisionAge
  <2> SUFFICES ASSUME decision'.kind # NONE
               PROVE  since' = DecisionAge
    OBVIOUS
  <2>1. fast_path[SignalStages] # NoTrigger
    BY <1>2 DEF FastPathStep, NoDecision
  <2>2. since = SignalStages
    BY <2>1, Stages DEF HandoverInv
  <2> QED
    BY <1>1, <2>2, Stages DEF Spaced, Least
<1>5. BuilderStep(BuilderIn(in)) /\ EthStep(EthIn(in)) /\ ResponseStep(in)
  BY DEF Clock
<1>6. tx_start' = Pop(BuilderIn(in)) /\ BuilderIn(in).tx_busy = tx_busy
  BY <1>5 DEF BuilderStep, LaunchStep, BuilderIn
<1>7. tx_state = TX_IDLE /\ ~tx_start /\ ~resp_start => tx_state' = TX_IDLE
  BY <1>5 DEF EthStep, EthIn, Accept, Idle, Req, Wait, Push, Drain,
              TX_IDLE, TX_REQ, TX_WAIT, TX_PUSH, TX_DRAIN
<1>8. tx_start' => tx_state' = TX_IDLE
  BY <1>6, <1>7 DEF HandoverInv, Pop, tx_busy
<1>9. ASSUME resp_start'
      PROVE  tx_state' = TX_IDLE /\ since' = 1 /\ (tx_start' \/ queue' = <<>>)
  <2>1. in.msg.frame = READ /\ tx_state = TX_IDLE /\ ~tx_start /\ ~resp_start
    BY <1>5, <1>9 DEF ResponseStep, IssueResp, RespBusy, tx_busy
  <2>2. decision.kind = NONE
    BY <1>1, <2>1, Frames, Stages DEF HandoverInv, Spaced
  <2>3. ~WantPush(BuilderIn(in))
    BY <2>2 DEF WantPush, BuilderIn, NONE, ORDER, REJECT
  <2>4. queue' = AfterPop(BuilderIn(in))
    BY <1>5, <2>3 DEF BuilderStep, QueueStep
  <2>5. tx_start' \/ queue' = <<>>
    BY <1>6, <2>1, <2>4 DEF AfterPop, Pop, tx_busy
  <2> QED
    BY <1>1, <1>7, <2>1, <2>5, Frames
<1>10. tx_start' \in BOOLEAN /\ resp_start' \in BOOLEAN
  BY <1>5, <1>6 DEF Pop, ResponseStep, IssueResp
<1> QED
  BY <1>1, <1>3, <1>4, <1>8, <1>9, <1>10 DEF HandoverInv, LaunchFindsIdle

LEMMA HandoverSafe ==
  ASSUME Spaced
  PROVE  Spec => []HandoverInv
<1>1. ASSUME Init PROVE HandoverInv
  <2>1. since \in 1 .. SPACING
    BY <1>1, Stages DEF Init
  <2>2. /\ DOMAIN fast_path = 1 .. SignalStages
        /\ \A i \in 1 .. SignalStages : fast_path[i] = NoTrigger
    BY <1>1 DEF Init
  <2>3. decision.kind = NONE /\ resp_start = FALSE /\ tx_start = FALSE
    BY <1>1 DEF Init, BuilderReset, NoDecision
  <2> QED
    BY <2>1, <2>2, <2>3 DEF HandoverInv, LaunchFindsIdle
<1>2. HandoverInv /\ [Next]_vars => HandoverInv'
  <2>1. HandoverInv /\ UNCHANGED vars => HandoverInv'
    BY DEF HandoverInv, LaunchFindsIdle, vars, builderVars, ethVars, pathVars
  <2> QED
    BY <2>1, HandoverClock DEF Next
<1> QED
  BY <1>1, <1>2, PTL DEF Spec

(* No order is lost between order_builder.v and eth_mac_if.v, as long as   *)
(* messages are further apart than the fast path is long: whatever CSR     *)
(* reads arrive, whenever the MAC finishes a frame.                        *)
THEOREM LaunchSafe ==
  ASSUME Spaced
  PROVE  Spec => []LaunchFindsIdle
<1>1. HandoverInv => LaunchFindsIdle
  BY DEF HandoverInv
<1> QED
  BY <1>1, HandoverSafe, PTL

-----------------------------------------------------------------------------
(* Type correctness. *)

(* What a cycle brings. *)
LEMMA Arrivals ==
  ASSUME TypeOK, NEW in \in Wires
  PROVE  /\ in.msg.seq \in SeqNum \cup {Torn}
         /\ in.msg.frame # NONE => in.msg.seq \in SeqNum
         /\ in.msg.report \in ReportModes
         /\ in.msg.clear \in BOOLEAN /\ in.kill \in BOOLEAN /\ in.accept \in BOOLEAN
<1>1. in.msg \in Message /\ in.kill \in BOOLEAN /\ in.accept \in BOOLEAN
  BY ModeAssumption DEF Wires
<1>2. last_seq \in SeqNum /\ cfg_reject_report \in ReportModes
  BY DEF TypeOK
<1>3. ReportModes \subseteq BOOLEAN
  BY ModeAssumption
<1> QED
  BY <1>1, <1>2, <1>3, Frames DEF Message

LEMMA LeastType ==
  ASSUME NEW a \in Nat, NEW b \in Nat
  PROVE  Least(a, b) \in Nat /\ Least(a, b) <= a /\ Least(a, b) <= b
BY DEF Least

LEMMA FirstAge == Least(DecisionAge, MaxAge) \in 0 .. MaxAge
BY Stages, BoundAssumption, LeastType

LEMMA DelayType ==
  ASSUME TypeOK, NEW in \in Wires, Clock(in)
  PROVE  /\ trigger_delay' \in [1 .. TRIGGER_DELAY ->
                [seq : SeqNum \cup {Torn}, cycle : 0 .. CycleMod - 1]]
         /\ cur_cycle' \in 0 .. CycleMod - 1
<1>1. cur_cycle \in 0 .. CycleMod - 1 /\ CycleMod \in Nat \ {0}
  BY ModAssumption DEF TypeOK
<1>2. (cur_cycle + 1) % CycleMod \in 0 .. CycleMod - 1
  BY <1>1
<1>3. Sample(BuilderIn(in)) \in [seq : SeqNum \cup {Torn}, cycle : 0 .. CycleMod - 1]
  BY <1>1, Arrivals DEF Sample, BuilderIn
<1>4. TRIGGER_DELAY \in Nat
  BY DepthAssumption DEF TRIGGER_DELAY
<1> HIDE DEF TRIGGER_DELAY
<1>5. TriggerDelayStep(BuilderIn(in))
  BY DEF Clock, BuilderStep
<1>6. trigger_delay' \in [1 .. TRIGGER_DELAY ->
                [seq : SeqNum \cup {Torn}, cycle : 0 .. CycleMod - 1]]
  BY <1>3, <1>4, <1>5 DEF TriggerDelayStep, TypeOK
<1> QED
  BY <1>2, <1>6 DEF Clock, MessageStep

LEMMA ArraySeq ==
  ASSUME NEW S, NEW n \in Nat, NEW f \in [1 .. n -> S]
  PROVE  f \in Seq(S) /\ Len(f) = n
<1>1. f \in Seq(S)
  BY SeqDef
<1>2. Len(f) \in Nat /\ 1 .. n = 1 .. Len(f)
  BY <1>1, LenProperties
<1> QED
  BY <1>1, <1>2

(* What is left of the queue when its head is taken. *)
LEMMA QueueFacts ==
  ASSUME queue \in Seq(Record), Len(queue) <= QueueDepth, NEW b
  PROVE  /\ AfterPop(b) \in Seq(Record)
         /\ Len(AfterPop(b)) \in Nat /\ Len(AfterPop(b)) <= QueueDepth
         /\ Pop(b) => /\ Head(queue) \in Record
                      /\ Len(queue) \in Nat /\ Len(queue) >= 1
                      /\ AfterPop(b) = Tail(queue)
                      /\ Len(AfterPop(b)) = Len(queue) - 1
                      /\ \A i \in 1 .. Len(queue) - 1 : AfterPop(b)[i] = queue[i + 1]
         /\ ~Pop(b) => AfterPop(b) = queue
<1>1. CASE Pop(b)
  <2>1. queue # <<>>
    BY <1>1 DEF Pop
  <2>2. Head(queue) \in Record /\ Tail(queue) \in Seq(Record)
        /\ Len(Tail(queue)) = Len(queue) - 1
    BY <2>1, HeadTailProperties
  <2>3. Len(queue) \in Nat /\ Len(queue) >= 1
    BY <2>1, EmptySeq, LenProperties
  <2>4. \A i \in 1 .. Len(queue) - 1 : Tail(queue)[i] = queue[i + 1]
    BY <2>1, HeadTailProperties
  <2> QED
    BY <1>1, <2>2, <2>3, <2>4 DEF AfterPop, QueueDepth
<1>2. CASE ~Pop(b)
  BY <1>2, LenProperties DEF AfterPop, QueueDepth
<1> QED
  BY <1>1, <1>2

LEMMA DecisionKinds ==
  /\ NONE # ORDER /\ NONE # REJECT /\ ORDER # REJECT
BY DEF NONE, ORDER, REJECT

LEMMA RecordType ==
  ASSUME TypeOK, NEW in \in Wires
  PROVE  NewRecord(BuilderIn(in)) \in Record
<1>1. TRIGGER_DELAY \in 1 .. TRIGGER_DELAY
  BY DepthAssumption DEF TRIGGER_DELAY
<1>2. Captured \in [seq : SeqNum \cup {Torn}, cycle : 0 .. CycleMod - 1]
  BY <1>1 DEF Captured, TypeOK
<1> QED
  BY <1>2 DEF NewRecord, Record

LEMMA QueueType ==
  ASSUME TypeOK, NEW in \in Wires, Clock(in)
  PROVE  /\ queue' \in Seq(Record) /\ Len(queue') <= QueueDepth
         /\ ages' \in Seq(0 .. MaxAge) /\ Len(ages') = Len(queue')
         /\ launch_age' \in 0 .. MaxAge
<1> DEFINE b == BuilderIn(in)
           rec == NewRecord(b)
           pushed == WantPush(b) /\ ~Overflow(b)
<1>1. rec \in Record
  BY RecordType
<1>2. /\ queue \in Seq(Record) /\ Len(queue) <= QueueDepth
      /\ ages \in Seq(0 .. MaxAge) /\ Len(ages) = Len(queue)
  BY DEF TypeOK
<1>3. QueueStep(b) /\ AgesStep(in)
  BY DEF Clock, BuilderStep
<1> HIDE DEF rec, b
<1>4. /\ AfterPop(b) \in Seq(Record)
      /\ Len(AfterPop(b)) \in Nat /\ Len(AfterPop(b)) <= QueueDepth
  BY <1>2, QueueFacts
<1>5. /\ queue' = IF pushed THEN Append(AfterPop(b), rec) ELSE AfterPop(b)
      /\ pushed => Len(AfterPop(b)) < QueueDepth
  BY <1>3, <1>4 DEF QueueStep, Overflow, QueueDepth, rec
<1>6. queue' \in Seq(Record) /\ Len(queue') <= QueueDepth
      /\ Len(queue') = Len(AfterPop(b)) + Count(pushed)
  <2>1. CASE pushed
    BY <1>1, <1>4, <1>5, <2>1, AppendProperties DEF Count, QueueDepth
  <2>2. CASE ~pushed
    BY <1>4, <1>5, <2>2 DEF Count, QueueDepth
  <2> QED
    BY <2>1, <2>2
<1> DEFINE left == IF Pop(b) THEN Tail(ages) ELSE ages
           age == Least(DecisionAge, MaxAge)
           kept == IF pushed THEN Append(left, age) ELSE left
<1>7. left \in Seq(0 .. MaxAge) /\ Len(left) = Len(AfterPop(b))
  <2>1. CASE Pop(b)
    <3>1. Len(queue) # 0 /\ Len(AfterPop(b)) = Len(queue) - 1
      BY <1>2, <2>1, QueueFacts
    <3> QED
      BY <1>2, <2>1, <3>1, HeadTailProperties, EmptySeq
  <2>2. CASE ~Pop(b)
    BY <1>2, <2>2, QueueFacts
  <2> QED
    BY <2>1, <2>2
<1>8. age \in 0 .. MaxAge
  BY FirstAge
<1> HIDE DEF left, age
<1>9. kept \in Seq(0 .. MaxAge) /\ Len(kept) = Len(queue')
  <2>1. CASE pushed
    BY <1>4, <1>6, <1>7, <1>8, <2>1, AppendProperties DEF Count
  <2>2. CASE ~pushed
    BY <1>4, <1>6, <1>7, <2>2 DEF Count
  <2> QED
    BY <2>1, <2>2
<1>10. ages' = [i \in DOMAIN kept |-> Least(kept[i] + 1, MaxAge)]
  BY <1>3 DEF AgesStep, b, left, age
<1> HIDE DEF kept
<1>11. \A i \in 1 .. Len(kept) : Least(kept[i] + 1, MaxAge) \in 0 .. MaxAge
  BY <1>9, BoundAssumption DEF Least
<1>12. ages' \in Seq(0 .. MaxAge) /\ Len(ages') = Len(kept)
  <2>1. DOMAIN kept = 1 .. Len(kept) /\ Len(kept) \in Nat
    BY <1>9, LenProperties
  <2>2. ages' \in [1 .. Len(kept) -> 0 .. MaxAge]
    BY <1>10, <1>11, <2>1
  <2> QED
    BY <2>1, <2>2, ArraySeq
<1>13. launch_age' \in 0 .. MaxAge
  <2>1. CASE Pop(b)
    <3>1. Len(ages) # 0
      BY <1>2, <2>1, QueueFacts
    <3>2. Head(ages) \in 0 .. MaxAge
      BY <1>2, <3>1, HeadTailProperties, EmptySeq
    <3> QED
      BY <1>3, <2>1, <3>2 DEF AgesStep, b
  <2>2. CASE ~Pop(b)
    BY <1>3, <2>2, BoundAssumption DEF AgesStep, b
  <2> QED
    BY <2>1, <2>2
<1> QED
  BY <1>6, <1>9, <1>12, <1>13

LEMMA LaunchType ==
  ASSUME TypeOK, NEW in \in Wires, Clock(in)
  PROVE  /\ tx_start' \in BOOLEAN
         /\ tx_payload' \in Encoded \cup {NoFrame}
         /\ tx_start' => tx_payload' \in Encoded
<1> DEFINE b == BuilderIn(in)
<1>1. LaunchStep(b) /\ b.cur_cycle = cur_cycle
  BY DEF Clock, BuilderStep, BuilderIn
<1>2. queue \in Seq(Record) /\ Len(queue) <= QueueDepth /\ cur_cycle \in 0 .. CycleMod - 1
  BY DEF TypeOK
<1> HIDE DEF b
<1>3. ASSUME Pop(b) PROVE Encode(Head(queue), cur_cycle) \in Encoded
  <2>1. Head(queue) \in Record
    BY <1>2, <1>3, QueueFacts
  <2>2. \A i, n \in 0 .. CycleMod - 1 : Elapsed(i, n) % LatencyMod \in 0 .. LatencyMod - 1
    <3> SUFFICES ASSUME NEW i \in 0 .. CycleMod - 1, NEW n \in 0 .. CycleMod - 1
                 PROVE  Elapsed(i, n) % LatencyMod \in 0 .. LatencyMod - 1
      OBVIOUS
    <3>1. Elapsed(i, n) \in Int
      BY ModAssumption DEF Elapsed
    <3> QED
      BY <3>1, ModAssumption
  <2> QED
    BY <1>2, <2>1, <2>2 DEF Encode, Record, Encoded
<1> QED
  BY <1>1, <1>3 DEF LaunchStep, Pop

LEMMA EthType ==
  ASSUME TypeOK, NEW in \in Wires, Clock(in)
  PROVE  /\ tx_state' \in {TX_IDLE, TX_REQ, TX_WAIT, TX_PUSH, TX_DRAIN}
         /\ payload_buf' \in Encoded \cup {Blank, RESPONSE}
         /\ wait_cnt' \in 0 .. TX_HEADER_DELAY - 1
         /\ push_idx' \in 0 .. PAYLOAD_BYTES - 1
         /\ udp_tx_req' \in BOOLEAN /\ ram_wr_en' \in BOOLEAN
         /\ ram_wr_data' \in 0 .. PAYLOAD_BYTES - 1
         /\ req_age' \in 0 .. TX_HEADER_DELAY + PAYLOAD_BYTES
<1>1. EthStep(EthIn(in)) /\ RequestStep(in)
  BY DEF Clock
<1>2. EthIn(in).start => EthIn(in).payload \in Encoded \cup {Blank, RESPONSE}
  BY DEF EthIn, TypeOK
<1> DEFINE states == {TX_IDLE, TX_REQ, TX_WAIT, TX_PUSH, TX_DRAIN}
<1>a. /\ TX_HEADER_DELAY \in Nat /\ TX_HEADER_DELAY >= 2
      /\ PAYLOAD_BYTES \in Nat /\ PAYLOAD_BYTES >= 1
  BY TxAssumption
<1>b. /\ tx_state \in states /\ payload_buf \in Encoded \cup {Blank, RESPONSE}
      /\ wait_cnt \in 0 .. TX_HEADER_DELAY - 1
      /\ push_idx \in 0 .. PAYLOAD_BYTES - 1
      /\ ram_wr_data \in 0 .. PAYLOAD_BYTES - 1
      /\ req_age \in 0 .. TX_HEADER_DELAY + PAYLOAD_BYTES
  BY DEF TypeOK
<1>3. req_age' \in 0 .. TX_HEADER_DELAY + PAYLOAD_BYTES
  BY <1>1, <1>a, <1>b DEF RequestStep, Least
<1>4. /\ wait_cnt' \in 0 .. TX_HEADER_DELAY - 1
      /\ push_idx' \in 0 .. PAYLOAD_BYTES - 1
      /\ ram_wr_data' \in 0 .. PAYLOAD_BYTES - 1
  <2>1. CASE Idle(EthIn(in))
    BY <1>b, <2>1 DEF Idle
  <2>2. CASE Req
    BY <1>a, <1>b, <2>2 DEF Req
  <2>3. CASE Wait
    BY <1>a, <1>b, <2>3 DEF Wait
  <2>4. CASE Push
    BY <1>a, <1>b, <2>4 DEF Push
  <2>5. CASE Drain(EthIn(in))
    BY <1>b, <2>5 DEF Drain
  <2> QED
    BY <1>1, <2>1, <2>2, <2>3, <2>4, <2>5 DEF EthStep
<1>5. /\ tx_state' \in states /\ udp_tx_req' \in BOOLEAN /\ ram_wr_en' \in BOOLEAN
      /\ payload_buf' \in Encoded \cup {Blank, RESPONSE}
  BY <1>1, <1>2, <1>b DEF EthStep, Idle, Accept, Req, Wait, Push, Drain
<1> QED
  BY <1>3, <1>4, <1>5

LEMMA PathType ==
  ASSUME TypeOK, NEW in \in Wires, Clock(in)
  PROVE  /\ since' \in 1 .. SPACING
         /\ last_seq' \in SeqNum
         /\ fast_path' \in [1 .. SignalStages -> SeqNum \cup {NoTrigger}]
         /\ decision' \in [kind : {NONE, ORDER, REJECT}, trigger : SeqNum \cup {NoTrigger}]
         /\ kill_latched' \in BOOLEAN
         /\ cfg_reject_report' \in ReportModes
         /\ resp_start' \in BOOLEAN
<1>1. /\ MessageStep(in) /\ FastPathStep(in) /\ ControlStep(in) /\ ResponseStep(in)
  BY DEF Clock
<1>2. since' \in 1 .. SPACING /\ last_seq' \in SeqNum
  BY <1>1, Arrivals, Stages DEF MessageStep, Least, TypeOK
<1>3. fast_path' \in [1 .. SignalStages -> SeqNum \cup {NoTrigger}]
  <2>1. \A i \in 1 .. SignalStages : i > 1 => i - 1 \in 1 .. SignalStages
    BY Stages
  <2>2. in.msg.frame = SIGNAL => in.msg.seq \in SeqNum
    BY Arrivals, Frames
  <2> QED
    BY <1>1, <2>1, <2>2 DEF FastPathStep, TypeOK
<1>4. decision' \in [kind : {NONE, ORDER, REJECT}, trigger : SeqNum \cup {NoTrigger}]
  <2>1. SignalStages \in 1 .. SignalStages
    BY Stages
  <2>2. fast_path[SignalStages] \in SeqNum \cup {NoTrigger}
    BY <2>1 DEF TypeOK
  <2> QED
    BY <1>1, <2>2 DEF FastPathStep, NoDecision, Decided, Verdict
<1>5. kill_latched' \in BOOLEAN /\ cfg_reject_report' \in ReportModes
  BY <1>1, Arrivals DEF ControlStep, TypeOK
<1>6. resp_start' \in BOOLEAN
  BY <1>1 DEF ResponseStep, IssueResp
<1> QED
  BY <1>2, <1>3, <1>4, <1>5, <1>6

(* Every variable of the transmit path keeps its type.                     *)
THEOREM TypeSafe == Spec => []TypeOK
<1>1. Init => TypeOK
  <2> SUFFICES ASSUME Init PROVE TypeOK
    OBVIOUS
  <2>1. trigger_delay \in [1 .. TRIGGER_DELAY ->
                             [seq : SeqNum \cup {Torn}, cycle : 0 .. CycleMod - 1]]
    BY SeqAssumption, ModAssumption DEF Init, BuilderReset
  <2>2. queue \in Seq(Record) /\ Len(queue) <= QueueDepth /\ Len(ages) = Len(queue)
        /\ ages \in Seq(0 .. MaxAge)
    <3>1. queue = <<>> /\ ages = <<>>
      BY DEF Init, BuilderReset
    <3>2. Len(queue) = 0 /\ Len(ages) = 0
      BY <3>1, EmptySeq
    <3> QED
      BY <3>1, <3>2 DEF QueueDepth
  <2>3. /\ tx_start = FALSE /\ tx_payload = NoFrame
        /\ tx_state = TX_IDLE /\ payload_buf = Blank
        /\ wait_cnt \in 0 .. TX_HEADER_DELAY - 1 /\ push_idx \in 0 .. PAYLOAD_BYTES - 1
        /\ udp_tx_req \in BOOLEAN /\ ram_wr_en \in BOOLEAN
        /\ ram_wr_data \in 0 .. PAYLOAD_BYTES - 1
        /\ req_age \in 0 .. TX_HEADER_DELAY + PAYLOAD_BYTES
    <3>1. /\ wait_cnt = 0 /\ push_idx = 0 /\ ram_wr_data = 0
          /\ req_age = TX_HEADER_DELAY + PAYLOAD_BYTES
      BY DEF Init, EthReset
    <3>2. /\ wait_cnt \in 0 .. TX_HEADER_DELAY - 1 /\ push_idx \in 0 .. PAYLOAD_BYTES - 1
          /\ ram_wr_data \in 0 .. PAYLOAD_BYTES - 1
          /\ req_age \in 0 .. TX_HEADER_DELAY + PAYLOAD_BYTES
      BY <3>1, TxAssumption
    <3>3. /\ tx_start = FALSE /\ tx_payload = NoFrame
          /\ tx_state = TX_IDLE /\ payload_buf = Blank
          /\ udp_tx_req \in BOOLEAN /\ ram_wr_en \in BOOLEAN
      BY DEF Init, BuilderReset, EthReset
    <3> QED
      BY <3>2, <3>3
  <2>4. /\ since \in 1 .. SPACING /\ last_seq \in SeqNum
        /\ fast_path \in [1 .. SignalStages -> SeqNum \cup {NoTrigger}]
        /\ decision \in [kind : {NONE, ORDER, REJECT}, trigger : SeqNum \cup {NoTrigger}]
        /\ kill_latched \in BOOLEAN /\ cfg_reject_report \in ReportModes
        /\ resp_start \in BOOLEAN
    <3>1. since \in 1 .. SPACING /\ last_seq \in SeqNum /\ cfg_reject_report \in ReportModes
      <4>1. since = SPACING /\ last_seq = 0 /\ cfg_reject_report = FALSE
        BY DEF Init
      <4>2. cfg_reject_report \in ReportModes
        BY <4>1, ModeAssumption, Zenon
      <4>3. since \in 1 .. SPACING /\ last_seq \in SeqNum
        BY <4>1, Stages, SeqAssumption
      <4> QED
        BY <4>2, <4>3
    <3>2. /\ fast_path \in [1 .. SignalStages -> SeqNum \cup {NoTrigger}]
          /\ decision \in [kind : {NONE, ORDER, REJECT}, trigger : SeqNum \cup {NoTrigger}]
          /\ kill_latched \in BOOLEAN /\ resp_start \in BOOLEAN
      BY DEF Init, NoDecision
    <3> QED
      BY <3>1, <3>2
  <2>5. /\ cur_cycle \in 0 .. CycleMod - 1 /\ balance \in Int
        /\ drained \in 0 .. MaxDrained /\ launch_age \in 0 .. MaxAge
    BY ModAssumption, BoundAssumption DEF Init
  <2> QED
    BY <2>1, <2>2, <2>3, <2>4, <2>5 DEF TypeOK
<1>2. TypeOK /\ [Next]_vars => TypeOK'
  <2>1. TypeOK /\ UNCHANGED vars => TypeOK'
    BY DEF TypeOK, vars, builderVars, ethVars, pathVars
  <2>2. ASSUME TypeOK, NEW in \in Wires, Clock(in) PROVE TypeOK'
    <3>1. balance' \in Int
      <4>1. BalanceStep(in) /\ balance \in Int
        BY <2>2 DEF Clock, TypeOK
      <4>2. \A a, c, d, e, f \in Int : Larger(-MaxDebt, a + c - d - e - f) \in Int
        BY BoundAssumption DEF Larger
      <4>3. /\ Count(fast_path[1] # NoTrigger) \in Int
            /\ Count(tx_start /\ tx_payload.kind = ORDER) \in Int
            /\ Count(decision.kind = REJECT) \in Int
            /\ Count(Overflow(BuilderIn(in))) \in Int
        BY DEF Count
      <4> QED
        BY <4>1, <4>2, <4>3, Zenon DEF BalanceStep
    <3>2. drained' \in 0 .. MaxDrained
      <4>1. DrainedStep /\ drained \in 0 .. MaxDrained
        BY <2>2 DEF Clock, TypeOK
      <4> QED
        BY <4>1, BoundAssumption DEF DrainedStep, Least, Count
    <3> QED
      BY <2>2, <3>1, <3>2, DelayType, QueueType, LaunchType, EthType, PathType DEF TypeOK
  <2> QED
    BY <2>1, <2>2 DEF Next
<1> QED
  BY <1>1, <1>2, PTL DEF Spec

-----------------------------------------------------------------------------
(* Counting signals and orders. *)

LEMMA CountType == \A b : Count(b) \in Nat
BY DEF Count

LEMMA RemoveCount ==
  ASSUME NEW S, NEW x, IsFiniteSet(S)
  PROVE  /\ Cardinality(S) \in Nat
         /\ IsFiniteSet(S \ {x})
         /\ Cardinality(S \ {x}) \in Nat
         /\ Cardinality(S) = Cardinality(S \ {x}) + Count(x \in S)
<1>1. Cardinality(S) \in Nat /\ IsFiniteSet(S \ {x}) /\ Cardinality(S \ {x}) \in Nat
  BY FS_RemoveElement, FS_CardinalityType
<1>2. CASE x \in S
  BY <1>1, <1>2, FS_RemoveElement DEF Count
<1>3. CASE x \notin S
  BY <1>1, <1>3, FS_RemoveElement DEF Count
<1> QED
  BY <1>2, <1>3

(* A set of indices moved up by one keeps its size. *)
LEMMA ShiftCount ==
  ASSUME NEW T \in SUBSET Int, IsFiniteSet(T), NEW U \in SUBSET Int,
         \A i \in Int : i \in U <=> i - 1 \in T
  PROVE  Cardinality(U) = Cardinality(T)
<1> DEFINE f == [i \in T |-> i + 1]
<1>1. \A i \in T : i \in Int /\ i + 1 \in U /\ (i + 1) - 1 = i
  OBVIOUS
<1>2. f \in [T -> U] /\ \A i, j \in T : f[i] = f[j] => i = j
  BY <1>1
<1>3. \A u \in U : \E i \in T : f[i] = u
  <2> SUFFICES ASSUME NEW u \in U PROVE u - 1 \in T /\ f[u - 1] = u
    OBVIOUS
  <2> QED
    OBVIOUS
<1>4. f \in Bijection(T, U)
  BY <1>2, <1>3, Fun_IsBij
<1> QED
  BY <1>4, FS_Bijection DEF ExistsBijection

LEMMA OrdersTail ==
  ASSUME NEW s \in Seq(Record), s # <<>>
  PROVE  /\ OrdersIn(s) \in Nat /\ OrdersIn(Tail(s)) \in Nat
         /\ OrdersIn(s) = OrdersIn(Tail(s)) + Count(Head(s).kind = ORDER)
<1> DEFINE t == Tail(s)
           n == Len(s)
           S == {i \in DOMAIN s : s[i].kind = ORDER}
           T == {i \in DOMAIN t : t[i].kind = ORDER}
<1>1. /\ t \in Seq(Record) /\ Len(t) = n - 1 /\ n \in Nat /\ n >= 1
      /\ \A i \in 1 .. n - 1 : t[i] = s[i + 1]
      /\ DOMAIN s = 1 .. n /\ Head(s) = s[1]
  BY HeadTailProperties, EmptySeq, LenProperties
<1>2. DOMAIN t = 1 .. n - 1
  BY <1>1, LenProperties
<1> HIDE DEF n, t
<1>3. T \in SUBSET (1 .. n - 1)
  BY <1>2
<1>4. \A i \in Int : i \in S \ {1} <=> i - 1 \in T
  <2>1. \A i \in 2 .. n : i - 1 \in 1 .. n - 1 /\ t[i - 1] = s[i]
    BY <1>1
  <2> QED
    BY <1>1, <1>2, <2>1
<1>5. IsFiniteSet(S) /\ IsFiniteSet(T) /\ Cardinality(T) \in Nat
  <2>1. S \in SUBSET (1 .. n) /\ T \in SUBSET (1 .. n)
    BY <1>1, <1>3
  <2>2. IsFiniteSet(1 .. n)
    BY <1>1, FS_Interval
  <2> HIDE DEF S, T
  <2> QED
    BY <2>1, <2>2, FS_Subset, FS_CardinalityType
<1>6. Cardinality(S \ {1}) = Cardinality(T)
  <2>1. S \ {1} \in SUBSET Int /\ T \in SUBSET Int
    BY <1>1, <1>3
  <2> QED
    BY <1>4, <1>5, <2>1, ShiftCount
<1>7. 1 \in S <=> Head(s).kind = ORDER
  BY <1>1
<1>8. /\ Cardinality(S) \in Nat
      /\ Cardinality(S) = Cardinality(S \ {1}) + Count(1 \in S)
  BY <1>5, RemoveCount
<1> QED
  BY <1>5, <1>6, <1>7, <1>8 DEF OrdersIn, t, Count

LEMMA PrefixFinite == ASSUME NEW n \in Nat PROVE IsFiniteSet(1 .. n)
<1>1. 1 \in Int /\ n \in Int
  OBVIOUS
<1> QED
  BY <1>1, FS_Interval

LEMMA OrdersAppend ==
  ASSUME NEW s \in Seq(Record), NEW r \in Record
  PROVE  /\ OrdersIn(s) \in Nat /\ OrdersIn(Append(s, r)) \in Nat
         /\ OrdersIn(Append(s, r)) = OrdersIn(s) + Count(r.kind = ORDER)
<1> DEFINE t == Append(s, r)
           n == Len(s)
           S == {i \in DOMAIN s : s[i].kind = ORDER}
           T == {i \in DOMAIN t : t[i].kind = ORDER}
<1>1. /\ t \in Seq(Record) /\ Len(t) = n + 1 /\ n \in Nat
      /\ \A i \in 1 .. n : t[i] = s[i]
      /\ t[n + 1] = r /\ DOMAIN s = 1 .. n
  BY AppendProperties, LenProperties
<1>2. DOMAIN t = 1 .. n + 1
  BY <1>1, LenProperties
<1> HIDE DEF n, t
<1>3. T \ {n + 1} = S
  BY <1>1, <1>2
<1>4. IsFiniteSet(T) /\ IsFiniteSet(S)
  <2>1. S \in SUBSET (1 .. n + 1) /\ T \in SUBSET (1 .. n + 1)
    BY <1>1, <1>2
  <2>2. IsFiniteSet(1 .. n + 1)
    <3>1. n + 1 \in Nat
      BY <1>1
    <3> QED
      BY <3>1, PrefixFinite
  <2> HIDE DEF S, T
  <2> QED
    BY <2>1, <2>2, FS_Subset
<1>5. n + 1 \in T <=> r.kind = ORDER
  BY <1>1, <1>2
<1>6. /\ Cardinality(T) \in Nat /\ Cardinality(S) \in Nat
      /\ Cardinality(T) = Cardinality(S) + Count(n + 1 \in T)
  BY <1>3, <1>4, RemoveCount
<1> QED
  BY <1>5, <1>6 DEF OrdersIn, t, Count

LEMMA OrdersEmpty == OrdersIn(<<>>) = 0
<1>1. {i \in DOMAIN <<>> : <<>>[i].kind = ORDER} = {}
  OBVIOUS
<1> QED
  BY <1>1, FS_EmptySet DEF OrdersIn

(* A signal that enters the fast path is there until it is decided. *)
LEMMA StagesShift ==
  ASSUME TypeOK, NEW in \in Wires, Clock(in)
  PROVE  LET Inside == Cardinality({i \in 2 .. SignalStages : fast_path[i] # NoTrigger})
         IN  /\ Inside \in Nat /\ Inside' \in Nat
             /\ Inside' + Count(fast_path[SignalStages] # NoTrigger)
                  = Inside + Count(fast_path[1] # NoTrigger)
<1> DEFINE S == {i \in 1 .. SignalStages : fast_path[i] # NoTrigger}
           A == {i \in 2 .. SignalStages : fast_path[i] # NoTrigger}
           B == {i \in 2 .. SignalStages : fast_path'[i] # NoTrigger}
           T == {i \in 1 .. SignalStages - 1 : fast_path[i] # NoTrigger}
<1>1. \A i \in 2 .. SignalStages : fast_path'[i] = fast_path[i - 1]
  BY DEF Clock, FastPathStep
<1>2. S \ {1} = A /\ S \ {SignalStages} = T
  BY Stages
<1>3. \A i \in Int : i \in B <=> i - 1 \in T
  <2>1. \A i \in 2 .. SignalStages : i - 1 \in 1 .. SignalStages - 1
    BY Stages
  <2> QED
    BY <1>1, <2>1, Stages
<1>4. IsFiniteSet(S) /\ IsFiniteSet(T) /\ Cardinality(T) \in Nat
  <2>1. S \in SUBSET (1 .. SignalStages) /\ T \in SUBSET (1 .. SignalStages)
    BY Stages
  <2>2. IsFiniteSet(1 .. SignalStages)
    BY Stages, FS_Interval
  <2> HIDE DEF S, T
  <2> QED
    BY <2>1, <2>2, FS_Subset, FS_CardinalityType
<1>5. Cardinality(B) = Cardinality(T)
  <2>1. B \in SUBSET Int /\ T \in SUBSET Int
    BY Stages
  <2> QED
    BY <1>3, <1>4, <2>1, ShiftCount
<1>6. /\ Cardinality(A) \in Nat
      /\ Cardinality(S) = Cardinality(A) + Count(1 \in S)
      /\ Cardinality(S) = Cardinality(T) + Count(SignalStages \in S)
  BY <1>2, <1>4, RemoveCount
<1>7. /\ 1 \in S <=> fast_path[1] # NoTrigger
      /\ SignalStages \in S <=> fast_path[SignalStages] # NoTrigger
  BY Stages
<1> QED
  BY <1>4, <1>5, <1>6, <1>7 DEF Count

(* Every order that is decided is queued or overflows, and every order     *)
(* that leaves the queue is launched.                                      *)
LEMMA OrdersFlow ==
  ASSUME TypeOK, NEW in \in Wires, Clock(in)
  PROVE  LET b == BuilderIn(in)
         IN  /\ OrdersIn(queue) \in Nat /\ OrdersIn(queue') \in Nat
             /\ OrdersIn(queue') + Count(tx_start' /\ tx_payload'.kind = ORDER)
                  = OrdersIn(queue)
                      + Count(decision.kind = ORDER /\ ~Overflow(b))
<1> DEFINE b == BuilderIn(in)
           rec == NewRecord(b)
           pushed == WantPush(b) /\ ~Overflow(b)
<1>1. rec \in Record
  BY RecordType
<1>2. queue \in Seq(Record) /\ Len(queue) <= QueueDepth
  BY DEF TypeOK
<1>3. QueueStep(b) /\ LaunchStep(b)
  BY DEF Clock, BuilderStep
<1>4. decision.kind = ORDER <=> WantPush(b) /\ rec.kind = ORDER
  BY DecisionKinds DEF WantPush, NewRecord, BuilderIn
<1> HIDE DEF rec, b
<1>5. AfterPop(b) \in Seq(Record)
  BY <1>2, QueueFacts
<1>6. queue' = IF pushed THEN Append(AfterPop(b), rec) ELSE AfterPop(b)
  BY <1>3 DEF QueueStep, rec
<1>7. /\ OrdersIn(AfterPop(b)) \in Nat /\ OrdersIn(queue') \in Nat
      /\ OrdersIn(queue') = OrdersIn(AfterPop(b)) + Count(decision.kind = ORDER /\ ~Overflow(b))
  <2>1. CASE pushed
    BY <1>1, <1>4, <1>5, <1>6, <2>1, OrdersAppend DEF Count
  <2>2. CASE ~pushed
    <3>1. OrdersIn(AfterPop(b)) \in Nat
      BY <1>1, <1>5, OrdersAppend
    <3> QED
      BY <1>4, <1>6, <2>2, <3>1 DEF Count
  <2> QED
    BY <2>1, <2>2
<1>8. /\ OrdersIn(queue) \in Nat
      /\ OrdersIn(queue) = OrdersIn(AfterPop(b))
                             + Count(tx_start' /\ tx_payload'.kind = ORDER)
  <2>1. CASE Pop(b)
    <3>1. queue # <<>> /\ AfterPop(b) = Tail(queue)
      BY <2>1 DEF Pop, AfterPop
    <3>2. tx_start' /\ tx_payload'.kind = Head(queue).kind
      BY <1>3, <2>1 DEF LaunchStep, Encode
    <3> QED
      BY <1>2, <3>1, <3>2, OrdersTail DEF Count
  <2>2. CASE ~Pop(b)
    BY <1>1, <1>2, <1>3, <2>2, OrdersAppend DEF AfterPop, LaunchStep, Count
  <2> QED
    BY <2>1, <2>2
<1> DEFINE sent == Count(tx_start' /\ tx_payload'.kind = ORDER)
           in0 == Count(decision.kind = ORDER /\ ~Overflow(b))
<1>9. sent \in Nat /\ in0 \in Nat
  BY CountType
<1> HIDE DEF sent, in0
<1> QED
  BY <1>7, <1>8, <1>9 DEF b, sent, in0

LEMMA ConservationClock ==
  ASSUME ReportModes = {FALSE}, TypeOK, SignalConservation, NEW in \in Wires, Clock(in)
  PROVE  SignalConservation'
<1> DEFINE b == BuilderIn(in)
           inside == Cardinality({i \in 2 .. SignalStages : fast_path[i] # NoTrigger})
           insideN == Cardinality({i \in 2 .. SignalStages : fast_path'[i] # NoTrigger})
           entered == Count(fast_path[1] # NoTrigger)
           leaving == Count(fast_path[SignalStages] # NoTrigger)
           decided == Count(decision.kind # NONE)
           waiting == OrdersIn(queue)
           waitingN == OrdersIn(queue')
           order == Count(decision.kind = ORDER)
           reject == Count(decision.kind = REJECT)
           over == Count(Overflow(b))
           kept == Count(decision.kind = ORDER /\ ~Overflow(b))
           sent == Count(tx_start /\ tx_payload.kind = ORDER)
           sentN == Count(tx_start' /\ tx_payload'.kind = ORDER)
<1>1. /\ inside \in Nat /\ insideN \in Nat
      /\ insideN + leaving = inside + entered
  BY StagesShift
<1>2. /\ waiting \in Nat /\ waitingN \in Nat
      /\ waitingN + sentN = waiting + kept
  BY OrdersFlow
<1>3. Count(decision'.kind # NONE) = leaving
  <2>1. decision'.kind # NONE <=> fast_path[SignalStages] # NoTrigger
    BY DecisionKinds DEF Clock, FastPathStep, NoDecision, Decided, Verdict
  <2> QED
    BY <2>1 DEF Count
<1>4. decided = order + reject
  <2>1. decision.kind \in {NONE, ORDER, REJECT}
    BY DEF TypeOK
  <2> QED
    BY <2>1, DecisionKinds DEF Count
<1>5. order = over + kept
  <2>1. ~cfg_reject_report
    BY DEF TypeOK
  <2>2. Overflow(b) => decision.kind = ORDER
    BY <2>1 DEF Overflow, WantPush, BuilderIn
  <2> QED
    BY <2>2 DEF Count
<1>6. balance' = Larger(-MaxDebt, balance + entered - sent - reject - over)
  BY DEF Clock, BalanceStep
<1>7. balance = inside + decided + waiting + sent
  BY DEF SignalConservation, InFlight
<1>8. /\ entered \in Nat /\ leaving \in Nat /\ order \in Nat /\ reject \in Nat
      /\ over \in Nat /\ kept \in Nat /\ sent \in Nat /\ sentN \in Nat
  BY CountType
<1>9. InFlight' = insideN + Count(decision'.kind # NONE) + waitingN + sentN
  BY DEF InFlight, OrdersIn
<1> HIDE DEF b, decided, waiting, waitingN, inside, insideN, entered, leaving, order, reject, over, kept, sent, sentN
<1>10. balance + entered - sent - reject - over = insideN + leaving + waitingN + sentN
  <2>1. balance = inside + over + kept + reject + waiting + sent
    BY <1>1, <1>2, <1>4, <1>5, <1>7, <1>8
  <2>2. balance + entered - sent - reject - over = (inside + entered) + (waiting + kept)
    BY <2>1, <1>1, <1>2, <1>8
  <2> QED
    BY <2>2, <1>1, <1>2, <1>8
<1>11. insideN + leaving + waitingN + sentN \in Nat
  BY <1>1, <1>2, <1>8
<1> QED
  BY <1>3, <1>6, <1>9, <1>10, <1>11, BoundAssumption DEF SignalConservation, Larger

(* Every signal is accounted for, whatever the risk engine decides, however *)
(* often the MAC is busy and however many records overflow: the counters    *)
(* of csr_block.v never lose or double a signal while rejects are not       *)
(* reported (a reported reject that overflows is counted twice).            *)
THEOREM ConservationSafe ==
  ASSUME ReportModes = {FALSE}
  PROVE  Spec => []SignalConservation
<1>1. Init => SignalConservation
  <2> SUFFICES ASSUME Init PROVE SignalConservation
    OBVIOUS
  <2>1. {i \in 2 .. SignalStages : fast_path[i] # NoTrigger} = {}
    BY Stages DEF Init
  <2>2. /\ decision.kind = NONE /\ queue = <<>> /\ tx_start = FALSE /\ balance = 0
    BY DEF Init, BuilderReset, NoDecision
  <2> QED
    BY <2>1, <2>2, FS_EmptySet, OrdersEmpty DEF SignalConservation, InFlight, Count
<1>2. TypeOK /\ SignalConservation /\ [Next]_vars => SignalConservation'
  <2>1. SignalConservation /\ UNCHANGED vars => SignalConservation'
    BY DEF SignalConservation, InFlight, OrdersIn, vars, builderVars, ethVars, pathVars
  <2> QED
    BY <2>1, ConservationClock DEF Next
<1> QED
  BY <1>1, <1>2, TypeSafe, PTL DEF Spec

-----------------------------------------------------------------------------
(* After the kill switch. *)

LEMMA OrdersBound ==
  ASSUME NEW s \in Seq(Record)
  PROVE  OrdersIn(s) \in Nat /\ OrdersIn(s) <= Len(s)
<1> DEFINE T == {i \in DOMAIN s : s[i].kind = ORDER}
<1>1. Len(s) \in Nat /\ DOMAIN s = 1 .. Len(s)
  BY LenProperties
<1>2. IsFiniteSet(1 .. Len(s)) /\ Cardinality(1 .. Len(s)) = Len(s)
  BY <1>1, FS_Interval
<1>3. T \in SUBSET (1 .. Len(s))
  BY <1>1
<1> HIDE DEF T
<1>4. Cardinality(T) \in Nat /\ Cardinality(T) <= Len(s)
  BY <1>2, <1>3, FS_Subset, FS_CardinalityType
<1> QED
  BY <1>4 DEF OrdersIn, T

(* An order that is launched, queued or decided when the kill switch       *)
(* latches, or after, takes one of the three places left.                  *)
KillInv ==
  /\ drained <= 3
  /\ kill_latched =>
       drained + Count(tx_start /\ tx_payload.kind = ORDER)
         + OrdersIn(queue) + Count(decision.kind = ORDER) <= 3

LEMMA KillClock ==
  ASSUME Spaced, TypeOK, HandoverInv, KillInv, NEW in \in Wires, Clock(in)
  PROVE  KillInv'
<1> DEFINE order == Count(decision.kind = ORDER)
           orderN == Count(decision'.kind = ORDER)
           kept == Count(decision.kind = ORDER /\ ~Overflow(BuilderIn(in)))
           sent == Count(tx_start /\ tx_payload.kind = ORDER)
           sentN == Count(tx_start' /\ tx_payload'.kind = ORDER)
           waiting == OrdersIn(queue)
           waitingN == OrdersIn(queue')
           drainedN == drained'
<1>1. /\ waiting \in Nat /\ waitingN \in Nat
      /\ waitingN + sentN = waiting + kept
  BY OrdersFlow
<1>2. waiting <= 2
  BY OrdersBound DEF TypeOK, QueueDepth
<1>3. /\ order \in 0 .. 1 /\ orderN \in 0 .. 1 /\ kept \in 0 .. 1 /\ kept <= order
      /\ sent \in 0 .. 1 /\ sentN \in 0 .. 1
  BY DEF Count
<1>4. kept + orderN <= 1
  <2>1. CASE decision.kind = ORDER
    <3>1. since = DecisionAge
      BY <2>1, DecisionKinds DEF HandoverInv
    <3>2. fast_path[SignalStages] = NoTrigger
      BY <3>1, Stages DEF HandoverInv
    <3>3. orderN = 0
      BY <3>2, DecisionKinds DEF Clock, FastPathStep, NoDecision, Count
    <3> QED
      BY <1>3, <3>3
  <2>2. CASE decision.kind # ORDER
    BY <1>3, <2>2 DEF Count
  <2> QED
    BY <2>1, <2>2
<1>5. kill_latched => orderN = 0
  BY DecisionKinds DEF Clock, FastPathStep, NoDecision, Decided, Verdict, Count
<1>6. /\ drained \in Nat /\ drainedN \in Nat
      /\ kill_latched => drainedN <= drained + sent
      /\ ~kill_latched => drainedN = 0
  <2>1. drained \in 0 .. MaxDrained /\ DrainedStep
    BY DEF TypeOK, Clock
  <2> HIDE DEF order, orderN, kept, waiting, waitingN
  <2> QED
    BY <1>3, <2>1, BoundAssumption DEF DrainedStep, Least
<1>7. /\ drained <= 3
      /\ kill_latched => drained + sent + waiting + order <= 3
  BY DEF KillInv
<1> HIDE DEF order, orderN, kept, sent, sentN, waiting, waitingN, drainedN
<1>8. drainedN <= 3 /\ drainedN + sentN + waitingN + orderN <= 3
  <2>1. CASE kill_latched
    <3>1. /\ orderN = 0 /\ drainedN <= drained + sent
          /\ drained + sent + waiting + order <= 3
      BY <1>5, <1>6, <1>7, <2>1
    <3> QED
      BY <1>1, <1>3, <1>6, <3>1
  <2>2. CASE ~kill_latched
    BY <1>1, <1>2, <1>3, <1>4, <1>6, <2>2
  <2> QED
    BY <2>1, <2>2
<1> QED
  BY <1>8 DEF KillInv, orderN, sentN, waitingN, drainedN, OrdersIn

(* At most three orders leave after the kill switch has latched: the two    *)
(* the queue holds and the one just decided, or the one being handed over.  *)
THEOREM KillSafe ==
  ASSUME Spaced
  PROVE  Spec => []KillDrainBounded
<1>1. Init => KillInv
  BY DEF Init, KillInv
<1>2. TypeOK /\ HandoverInv /\ KillInv /\ [Next]_vars => KillInv'
  <2>1. KillInv /\ UNCHANGED vars => KillInv'
    BY DEF KillInv, OrdersIn, vars, builderVars, ethVars, pathVars
  <2> QED
    BY <2>1, KillClock DEF Next
<1>3. KillInv => KillDrainBounded
  BY DEF KillInv, KillDrainBounded
<1> QED
  BY <1>1, <1>2, <1>3, TypeSafe, HandoverSafe, PTL DEF Spec

-----------------------------------------------------------------------------
(* What a record says of its message. *)

(* Numbers that differ by a multiple of m are the same modulo m. *)
LEMMA ModCong ==
  ASSUME NEW m \in Nat \ {0}, NEW x \in Int, NEW y \in Int, NEW k \in Int, x = y + k * m
  PROVE  x % m = y % m
<1> DEFINE q == x \div m
           r == x % m
           p == y \div m
           t == y % m
<1>1. /\ q \in Int /\ p \in Int
      /\ r \in Int /\ 0 <= r /\ r < m
      /\ t \in Int /\ 0 <= t /\ t < m
  OBVIOUS
<1>2. r = x - q * m /\ t = y - p * m
  OBVIOUS
<1> HIDE DEF q, r, p, t
<1>3. r - t = (k - q + p) * m
  BY <1>1, <1>2
<1> DEFINE d == k - q + p
<1>4. d \in Int /\ r - t = d * m /\ r - t < m /\ r - t > -m
  BY <1>1, <1>3
<1> HIDE DEF d
<1>5. ~(d >= 1) /\ ~(d <= -1)
  <2>1. ASSUME d >= 1 PROVE FALSE
    <3>1. d * m >= 1 * m
      BY <1>4, <2>1
    <3> QED
      BY <1>4, <3>1
  <2>2. ASSUME d <= -1 PROVE FALSE
    <3>1. d * m <= (-1) * m
      BY <1>4, <2>2
    <3> QED
      BY <1>4, <3>1
  <2> QED
    BY <2>1, <2>2
<1>6. d = 0
  BY <1>4, <1>5
<1>7. r = t
  BY <1>1, <1>4, <1>6
<1> QED
  BY <1>7 DEF r, t

LEMMA ModSmall ==
  ASSUME NEW m \in Nat \ {0}, NEW x \in 0 .. m - 1
  PROVE  x % m = x
OBVIOUS

(* A distance back from the next cycle is one more than from this one. *)
LEMMA ModStep ==
  ASSUME NEW m \in Nat \ {0}, NEW c \in Int, NEW i \in Int
  PROVE  (((c + 1) % m) - (i + 1)) % m = (c - i) % m
<1> DEFINE k == (c + 1) \div m
           n == (c + 1) % m
<1>1. k \in Int /\ n \in Int /\ n = (c + 1) - k * m
  OBVIOUS
<1> HIDE DEF k, n
<1>2. n - (i + 1) = (c - i) + (-k) * m
  BY <1>1
<1>3. n - (i + 1) \in Int /\ c - i \in Int /\ -k \in Int
  BY <1>1
<1>4. (n - (i + 1)) % m = (c - i) % m
  BY <1>2, <1>3, ModCong
<1> QED
  BY <1>4 DEF n

(* Going back from a point that lies d behind leads back to d. *)
LEMMA ModBack ==
  ASSUME NEW m \in Nat \ {0}, NEW c \in Int, NEW d \in 0 .. m - 1
  PROVE  (c - ((c - d) % m)) % m = d
<1> DEFINE k == (c - d) \div m
           n == (c - d) % m
<1>1. k \in Int /\ n \in Int /\ n = (c - d) - k * m
  OBVIOUS
<1> HIDE DEF k, n
<1>2. c - n = d + k * m /\ c - n \in Int /\ d \in Int
  BY <1>1
<1>3. (c - n) % m = d % m
  BY <1>1, <1>2, ModCong
<1>4. d % m = d
  BY ModSmall
<1> QED
  BY <1>3, <1>4 DEF n

(* The samples travel next to the signals they belong to. *)
AlignInv ==
  /\ \A i \in 1 .. SignalStages : fast_path[i] # NoTrigger =>
       /\ trigger_delay[i].seq = fast_path[i]
       /\ trigger_delay[i].cycle = (cur_cycle - i) % CycleMod
  /\ CaptureAligned

LEMMA DelayLength == TRIGGER_DELAY = DecisionAge /\ DecisionAge = SignalStages + 1
BY DepthAssumption DEF TRIGGER_DELAY, DecisionAge, SignalStages

LEMMA AlignClock ==
  ASSUME TypeOK, AlignInv, NEW in \in Wires, Clock(in)
  PROVE  AlignInv'
<1> DEFINE now == (cur_cycle + 1) % CycleMod
<1>1. /\ cur_cycle \in 0 .. CycleMod - 1 /\ CycleMod \in Nat \ {0}
      /\ cur_cycle' = now
  BY ModAssumption DEF TypeOK, Clock, MessageStep
<1>2. \A i \in Int : (now - (i + 1)) % CycleMod = (cur_cycle - i) % CycleMod
  <2> SUFFICES ASSUME NEW i \in Int
               PROVE  (now - (i + 1)) % CycleMod = (cur_cycle - i) % CycleMod
    OBVIOUS
  <2>1. cur_cycle \in Int /\ CycleMod \in Nat \ {0}
    BY <1>1
  <2> QED
    BY <2>1, ModStep, Zenon
<1> HIDE DEF now
<1>3. TriggerDelayStep(BuilderIn(in)) /\ FastPathStep(in)
  BY DEF Clock, BuilderStep
<1>4. \A i \in 2 .. DecisionAge : trigger_delay'[i] = trigger_delay[i - 1]
  BY <1>3, DelayLength, Stages DEF TriggerDelayStep
<1>5. ASSUME NEW i \in 1 .. SignalStages, fast_path'[i] # NoTrigger
      PROVE  /\ trigger_delay'[i].seq = fast_path'[i]
             /\ trigger_delay'[i].cycle = (now - i) % CycleMod
  <2>1. CASE i = 1
    <3>1. trigger_delay'[1] = [seq |-> in.msg.seq, cycle |-> cur_cycle]
      BY <1>3, DelayLength, Stages DEF TriggerDelayStep, Sample, BuilderIn
    <3>2. fast_path'[1] = in.msg.seq
      BY <1>3, <1>5, <2>1, Stages DEF FastPathStep
    <3>3. (now - (0 + 1)) % CycleMod = (cur_cycle - 0) % CycleMod
      BY <1>2
    <3>4. (cur_cycle - 0) % CycleMod = cur_cycle
      BY <1>1, ModSmall
    <3> QED
      BY <2>1, <3>1, <3>2, <3>3, <3>4
  <2>2. CASE i # 1
    <3>1. i \in 2 .. DecisionAge /\ i - 1 \in 1 .. SignalStages /\ (i - 1) + 1 = i
      BY <2>2, Stages
    <3>2. fast_path'[i] = fast_path[i - 1] /\ trigger_delay'[i] = trigger_delay[i - 1]
      BY <1>3, <1>4, <3>1, Stages DEF FastPathStep
    <3>3. /\ trigger_delay[i - 1].seq = fast_path[i - 1]
          /\ trigger_delay[i - 1].cycle = (cur_cycle - (i - 1)) % CycleMod
      BY <1>5, <3>1, <3>2 DEF AlignInv
    <3>4. (now - ((i - 1) + 1)) % CycleMod = (cur_cycle - (i - 1)) % CycleMod
      BY <1>2, <3>1
    <3> QED
      BY <3>1, <3>2, <3>3, <3>4
  <2> QED
    BY <2>1, <2>2
<1>6. ASSUME decision'.kind # NONE
      PROVE  /\ trigger_delay'[DecisionAge].seq = decision'.trigger
             /\ trigger_delay'[DecisionAge].cycle = (now - DecisionAge) % CycleMod
  <2>1. /\ fast_path[SignalStages] # NoTrigger
        /\ decision'.trigger = fast_path[SignalStages]
    BY <1>3, <1>6 DEF FastPathStep, NoDecision, Decided
  <2>2. /\ DecisionAge \in 2 .. DecisionAge /\ DecisionAge - 1 = SignalStages
        /\ SignalStages \in 1 .. SignalStages /\ SignalStages \in Int
    BY Stages
  <2>3. trigger_delay'[DecisionAge] = trigger_delay[SignalStages]
    BY <1>4, <2>2
  <2>4. /\ trigger_delay[SignalStages].seq = fast_path[SignalStages]
        /\ trigger_delay[SignalStages].cycle = (cur_cycle - SignalStages) % CycleMod
    BY <2>1, <2>2 DEF AlignInv
  <2>5. (now - (SignalStages + 1)) % CycleMod = (cur_cycle - SignalStages) % CycleMod
    BY <1>2, <2>2
  <2> QED
    BY <2>1, <2>3, <2>4, <2>5, DelayLength
<1> QED
  BY <1>1, <1>5, <1>6, DelayLength DEF AlignInv, CaptureAligned, Captured

LEMMA AlignSafe == Spec => []AlignInv
<1>1. Init => AlignInv
  BY DEF Init, AlignInv, CaptureAligned, NoDecision
<1>2. TypeOK /\ AlignInv /\ [Next]_vars => AlignInv'
  <2>1. AlignInv /\ UNCHANGED vars => AlignInv'
    BY DEF AlignInv, CaptureAligned, Captured, vars, builderVars, ethVars, pathVars
  <2> QED
    BY <2>1, AlignClock DEF Next
<1> QED
  BY <1>1, <1>2, TypeSafe, PTL DEF Spec

(* The sequence number and the arrival cycle that order_builder.v captures *)
(* are those of the message that triggered the decision, for every depth   *)
(* of the alignment delay and wherever the cycle counter wraps.            *)
THEOREM CaptureSafe == Spec => []CaptureAligned
<1>1. AlignInv => CaptureAligned
  BY DEF AlignInv
<1> QED
  BY <1>1, AlignSafe, PTL

(* One cycle later everything is one cycle older. *)
LEMMA ElapsedStep ==
  ASSUME NEW m \in Nat \ {0}, NEW c \in Int, NEW i \in Int, NEW a \in Nat,
         (c - i) % m = a, a + 1 < m
  PROVE  (((c + 1) % m) - i) % m = a + 1
<1> DEFINE k == (c + 1) \div m
           n == (c + 1) % m
           q == (c - i) \div m
<1>1. /\ k \in Int /\ n \in Int /\ n = (c + 1) - k * m
      /\ q \in Int /\ a = (c - i) - q * m
  OBVIOUS
<1> HIDE DEF k, n, q
<1>2. n - i = (a + 1) + (q - k) * m
  BY <1>1
<1>3. n - i \in Int /\ a + 1 \in Int /\ q - k \in Int
  BY <1>1
<1>4. (n - i) % m = (a + 1) % m
  BY <1>2, <1>3, ModCong
<1>5. (a + 1) % m = a + 1
  BY ModSmall
<1> QED
  BY <1>4, <1>5 DEF n

(* Counters of the properties stay below the widths of the fields. *)
AgesFit == MaxAge <= LatencyMod /\ LatencyMod <= CycleMod

AgeInv ==
  /\ \A k \in 1 .. Len(queue) :
       ages[k] < MaxAge => Elapsed(queue[k].ingress, cur_cycle) = ages[k]
  /\ LatencyReported

LEMMA LaunchAge ==
  ASSUME AgesFit, TypeOK, AgeInv, NEW in \in Wires, Clock(in),
         tx_start', launch_age' < MaxAge
  PROVE  tx_payload'.latency = launch_age'
<1> DEFINE b == BuilderIn(in)
<1>1. LaunchStep(b) /\ AgesStep(in) /\ b.cur_cycle = cur_cycle
  BY DEF Clock, BuilderStep, BuilderIn
<1>2. Pop(b)
  BY <1>1 DEF LaunchStep
<1>3. /\ queue \in Seq(Record) /\ Len(queue) <= QueueDepth
      /\ ages \in Seq(0 .. MaxAge) /\ Len(ages) = Len(queue)
  BY DEF TypeOK
<1>4. Len(queue) \in Nat /\ Len(queue) >= 1
  BY <1>2, <1>3, QueueFacts
<1>5. launch_age' = ages[1] /\ Head(queue) = queue[1]
  BY <1>1, <1>2 DEF AgesStep
<1>6. tx_payload'.latency = Elapsed(queue[1].ingress, cur_cycle) % LatencyMod
  BY <1>1, <1>2, <1>5 DEF LaunchStep, Encode
<1>7. 1 \in 1 .. Len(queue) /\ ages[1] \in 0 .. MaxAge
  <2>1. 1 \in 1 .. Len(queue) /\ 1 \in 1 .. Len(ages)
    BY <1>3, <1>4
  <2> QED
    BY <1>3, <2>1, ElementOfSeq
<1>8. Elapsed(queue[1].ingress, cur_cycle) = ages[1]
  BY <1>5, <1>7 DEF AgeInv
<1>9. ages[1] \in 0 .. LatencyMod - 1
  BY <1>5, <1>7, BoundAssumption, ModAssumption DEF AgesFit
<1>10. ages[1] % LatencyMod = ages[1]
  BY <1>9, ModAssumption, ModSmall
<1> QED
  BY <1>5, <1>6, <1>8, <1>10

LEMMA QueueAge ==
  ASSUME AgesFit, TypeOK, AlignInv, AgeInv, NEW in \in Wires, Clock(in),
         NEW k \in 1 .. Len(queue'), ages'[k] < MaxAge
  PROVE  Elapsed(queue'[k].ingress, cur_cycle') = ages'[k]
<1> DEFINE b == BuilderIn(in)
           rec == NewRecord(b)
           pushed == WantPush(b) /\ ~Overflow(b)
           left == IF Pop(b) THEN Tail(ages) ELSE ages
           age == Least(DecisionAge, MaxAge)
           kept == IF pushed THEN Append(left, age) ELSE left
           rest == AfterPop(b)
           now == cur_cycle'
<1>1. /\ cur_cycle \in 0 .. CycleMod - 1 /\ CycleMod \in Nat \ {0}
      /\ now = (cur_cycle + 1) % CycleMod
  BY ModAssumption DEF TypeOK, Clock, MessageStep
<1>2. /\ queue \in Seq(Record) /\ Len(queue) <= QueueDepth
      /\ ages \in Seq(0 .. MaxAge) /\ Len(ages) = Len(queue)
  BY DEF TypeOK
<1>3. QueueStep(b) /\ AgesStep(in)
  BY DEF Clock, BuilderStep
<1>4. rec \in Record /\ (pushed => rec.ingress = (cur_cycle - DecisionAge) % CycleMod)
  <2>1. rec \in Record
    BY RecordType
  <2>2. WantPush(b) => decision.kind # NONE
    BY DecisionKinds DEF WantPush, BuilderIn
  <2>3. rec.ingress = Captured.cycle
    BY DEF NewRecord
  <2> QED
    BY <2>1, <2>2, <2>3 DEF AlignInv, CaptureAligned
<1>5. rest \in Seq(Record) /\ Len(rest) \in Nat
  BY <1>2, QueueFacts
<1>6. /\ queue' = IF pushed THEN Append(rest, rec) ELSE rest
      /\ ages' = [i \in DOMAIN kept |-> Least(kept[i] + 1, MaxAge)]
  BY <1>3 DEF QueueStep, AgesStep
<1>7. /\ left \in Seq(0 .. MaxAge) /\ Len(left) = Len(rest)
      /\ \A i \in 1 .. Len(rest) :
           \E j \in 1 .. Len(queue) : rest[i] = queue[j] /\ left[i] = ages[j]
  <2>1. CASE Pop(b)
    <3>1. /\ Len(queue) \in Nat /\ Len(queue) >= 1 /\ Len(rest) = Len(queue) - 1
          /\ \A i \in 1 .. Len(queue) - 1 : rest[i] = queue[i + 1]
      BY <1>2, <2>1, QueueFacts
    <3>2. ages # <<>>
      BY <1>2, <3>1, EmptySeq
    <3>3. /\ Tail(ages) \in Seq(0 .. MaxAge) /\ Len(Tail(ages)) = Len(ages) - 1
          /\ \A i \in 1 .. Len(Tail(ages)) : Tail(ages)[i] = ages[i + 1]
      BY <1>2, <3>2, HeadTailProperties
    <3>4. \A i \in 1 .. Len(rest) : i + 1 \in 1 .. Len(queue)
      BY <3>1
    <3> QED
      BY <1>2, <2>1, <3>1, <3>3, <3>4
  <2>2. CASE ~Pop(b)
    BY <1>2, <2>2, QueueFacts
  <2> QED
    BY <2>1, <2>2
<1>a. age \in 0 .. MaxAge
  BY FirstAge
<1> HIDE DEF b, rec, left, age, rest, now
<1>8. CASE pushed /\ k = Len(rest) + 1
  <2>1. age \in 0 .. MaxAge /\ age = Least(DecisionAge, MaxAge)
    BY <1>a DEF age
  <2>2. queue'[k] = rec /\ kept[k] = age /\ k \in DOMAIN kept
    <3>1. queue' = Append(rest, rec) /\ kept = Append(left, age)
      BY <1>6, <1>8
    <3>2. Append(rest, rec)[Len(rest) + 1] = rec
      BY <1>4, <1>5, AppendProperties
    <3>3. /\ Append(left, age)[Len(left) + 1] = age
          /\ Append(left, age) \in Seq(0 .. MaxAge)
          /\ Len(Append(left, age)) = Len(left) + 1
      BY <1>7, <2>1, AppendProperties
    <3>4. k \in 1 .. Len(kept)
      BY <1>5, <1>7, <1>8, <3>1, <3>3
    <3> QED
      BY <1>7, <1>8, <3>1, <3>2, <3>3, <3>4, LenProperties
  <2>3. ages'[k] = Least(age + 1, MaxAge)
    BY <1>6, <2>2
  <2>4. age = DecisionAge /\ ages'[k] = DecisionAge + 1 /\ DecisionAge + 1 < MaxAge
    BY <2>1, <2>3, Stages, BoundAssumption DEF Least
  <2>5. DecisionAge + 1 \in 0 .. CycleMod - 1
    BY <2>4, <1>1, Stages, BoundAssumption, ModAssumption DEF AgesFit
  <2>6. rec.ingress = (now - (DecisionAge + 1)) % CycleMod
    <3>1. cur_cycle \in Int /\ DecisionAge \in Int
      BY <1>1, Stages
    <3>2. (((cur_cycle + 1) % CycleMod) - (DecisionAge + 1)) % CycleMod
            = (cur_cycle - DecisionAge) % CycleMod
      BY <1>1, <3>1, ModStep, Zenon
    <3> QED
      BY <1>1, <1>4, <1>8, <3>2
  <2>7. now \in Int
    BY <1>1
  <2>8. (now - ((now - (DecisionAge + 1)) % CycleMod)) % CycleMod = DecisionAge + 1
    BY <1>1, <2>5, <2>7, ModBack, Zenon
  <2> QED
    BY <2>2, <2>4, <2>6, <2>8 DEF Elapsed, now
<1>9. CASE ~(pushed /\ k = Len(rest) + 1)
  <2>1. k \in 1 .. Len(rest) /\ queue'[k] = rest[k] /\ kept[k] = left[k] /\ k \in DOMAIN kept
    <3>1. CASE pushed
      <4>1. queue' = Append(rest, rec) /\ kept = Append(left, age)
        BY <1>6, <3>1
      <4>2. Len(Append(rest, rec)) = Len(rest) + 1
            /\ \A i \in 1 .. Len(rest) : Append(rest, rec)[i] = rest[i]
        BY <1>4, <1>5, AppendProperties
      <4>3. /\ Append(left, age) \in Seq(0 .. MaxAge)
            /\ Len(Append(left, age)) = Len(left) + 1
            /\ \A i \in 1 .. Len(left) : Append(left, age)[i] = left[i]
        BY <1>7, <1>a, AppendProperties
      <4>4. k \in 1 .. Len(rest)
        BY <1>5, <1>9, <3>1, <4>1, <4>2
      <4>5. k \in 1 .. Len(kept)
        BY <1>5, <1>7, <4>1, <4>3, <4>4
      <4> QED
        BY <1>7, <4>1, <4>2, <4>3, <4>4, <4>5, LenProperties
    <3>2. CASE ~pushed
      BY <1>5, <1>6, <1>7, <3>2, LenProperties
    <3> QED
      BY <3>1, <3>2
  <2>2. PICK j \in 1 .. Len(queue) : rest[k] = queue[j] /\ left[k] = ages[j]
    BY <1>7, <2>1
  <2>3. ages[j] \in 0 .. MaxAge /\ queue[j] \in Record
    BY <1>2, <2>2, ElementOfSeq
  <2>4. ages'[k] = Least(ages[j] + 1, MaxAge)
    BY <1>6, <2>1, <2>2
  <2> DEFINE a == ages[j]
             from == queue[j].ingress
  <2>5. a \in Nat /\ from \in Int
    BY <2>3 DEF Record
  <2>6. ages'[k] = a + 1 /\ a < MaxAge /\ a + 1 < CycleMod
    BY <1>1, <2>3, <2>4, BoundAssumption, ModAssumption DEF Least, AgesFit
  <2>7. (cur_cycle - from) % CycleMod = a
    BY <2>2, <2>6 DEF AgeInv, Elapsed
  <2> HIDE DEF a, from
  <2>8. (((cur_cycle + 1) % CycleMod) - from) % CycleMod = a + 1
    <3>1. cur_cycle \in Int
      BY <1>1
    <3> QED
      BY <1>1, <2>5, <2>6, <2>7, <3>1, ElapsedStep
  <2> QED
    BY <1>1, <2>1, <2>2, <2>6, <2>8 DEF Elapsed, now, from
<1> QED
  BY <1>8, <1>9

(* A frame reports the time from its message's arrival to its hand-over,   *)
(* however long the record waited and wherever the cycle counter wraps, as *)
(* long as the time fits the latency field.                                *)
THEOREM LatencySafe ==
  ASSUME AgesFit
  PROVE  Spec => []LatencyReported
<1>1. Init => AgeInv
  <2> SUFFICES ASSUME Init PROVE AgeInv
    OBVIOUS
  <2>1. queue = <<>> /\ tx_start = FALSE
    BY DEF Init, BuilderReset
  <2>2. Len(queue) = 0
    BY <2>1, EmptySeq
  <2> QED
    BY <2>1, <2>2 DEF AgeInv, LatencyReported
<1>2. TypeOK /\ AlignInv /\ AgeInv /\ [Next]_vars => AgeInv'
  <2>1. AgeInv /\ UNCHANGED vars => AgeInv'
    BY DEF AgeInv, LatencyReported, Elapsed, vars, builderVars, ethVars, pathVars
  <2>2. ASSUME TypeOK, AlignInv, AgeInv, NEW in \in Wires, Clock(in) PROVE AgeInv'
    BY <2>2, QueueAge, LaunchAge DEF AgeInv, LatencyReported, Elapsed
  <2> QED
    BY <2>1, <2>2 DEF Next
<1>3. AgeInv => LatencyReported
  BY DEF AgeInv
<1> QED
  BY <1>1, <1>2, <1>3, TypeSafe, AlignSafe, PTL DEF Spec

-----------------------------------------------------------------------------
(* The write window. *)

(* Where the state machine is tells how long ago udp_tx_req was. *)
WindowInv ==
  \/ /\ tx_state = TX_IDLE /\ req_age = TX_HEADER_DELAY + PAYLOAD_BYTES
     /\ ~udp_tx_req /\ ~ram_wr_en
  \/ tx_state = TX_REQ /\ req_age = 0 /\ udp_tx_req /\ ~ram_wr_en
  \/ /\ tx_state = TX_WAIT /\ wait_cnt \in 1 .. TX_HEADER_DELAY - 1
     /\ req_age = wait_cnt /\ ~udp_tx_req /\ ~ram_wr_en
  \/ /\ tx_state = TX_PUSH /\ push_idx \in 0 .. PAYLOAD_BYTES - 1
     /\ req_age = TX_HEADER_DELAY + push_idx
     /\ ~udp_tx_req /\ ram_wr_en /\ ram_wr_data = push_idx
  \/ /\ tx_state = TX_DRAIN /\ req_age = TX_HEADER_DELAY + PAYLOAD_BYTES
     /\ ~udp_tx_req /\ ~ram_wr_en

LEMMA WindowClock ==
  ASSUME WindowInv, NEW in \in Wires, Clock(in)
  PROVE  WindowInv'
<1> USE DEF TX_IDLE, TX_REQ, TX_WAIT, TX_PUSH, TX_DRAIN
<1>1. EthStep(EthIn(in)) /\ RequestStep(in)
  BY DEF Clock
<1>2. TX_HEADER_DELAY \in Nat /\ TX_HEADER_DELAY >= 2
      /\ PAYLOAD_BYTES \in Nat /\ PAYLOAD_BYTES >= 1
  BY TxAssumption
<1>3. CASE Idle(EthIn(in))
  BY <1>1, <1>2, <1>3 DEF WindowInv, Idle, Accept, RequestStep, Least
<1>4. CASE Req
  BY <1>1, <1>2, <1>4 DEF WindowInv, Req, Accept, RequestStep, Least
<1>5. CASE Wait
  BY <1>1, <1>2, <1>5 DEF WindowInv, Wait, Accept, RequestStep, Least
<1>6. CASE Push
  BY <1>1, <1>2, <1>6 DEF WindowInv, Push, Accept, RequestStep, Least
<1>7. CASE Drain(EthIn(in))
  BY <1>1, <1>2, <1>7 DEF WindowInv, Drain, Accept, RequestStep, Least
<1> QED
  BY <1>1, <1>3, <1>4, <1>5, <1>6, <1>7 DEF EthStep

(* Every frame's bytes are written in order, and exactly in the window     *)
(* that the MAC's checksum engine reads.                                   *)
THEOREM WindowSafe == Spec => []WriteWindow
<1>1. Init => WindowInv
  BY DEF Init, EthReset, WindowInv
<1>2. WindowInv /\ [Next]_vars => WindowInv'
  <2>1. WindowInv /\ UNCHANGED vars => WindowInv'
    BY DEF WindowInv, vars, ethVars
  <2> QED
    BY <2>1, WindowClock DEF Next
<1>3. WindowInv => WriteWindow
  BY TxAssumption DEF WindowInv, WriteWindow,
     TX_IDLE, TX_REQ, TX_WAIT, TX_PUSH, TX_DRAIN
<1> QED
  BY <1>1, <1>2, <1>3, PTL DEF Spec

-----------------------------------------------------------------------------
(* The order stream: every clock edge sends a decision, answers a read, or  *)
(* lets a decision join those that wait.  First, what the stream sees of   *)
(* the records that are queued.                                            *)

Contents(s) == [i \in 1 .. Len(s) |-> Content(s[i])]

(* Whatever a record can say. *)
Announcement == [kind : {ORDER, REJECT}, seq : SeqNum \cup {Torn}]

LEMMA RecordContent ==
  ASSUME NEW r \in Record
  PROVE  Content(r) = [kind |-> r.kind, seq |-> r.seq] /\ Content(r) \in Announcement
<1>1. r \notin {NoFrame, Blank, RESPONSE}
  BY FrameAssumption
<1> QED
  BY <1>1 DEF Content, Record, Announcement

LEMMA EncodedContent ==
  ASSUME NEW f \in Encoded
  PROVE  Content(f) = [kind |-> f.kind, seq |-> f.seq] /\ Content(f) \in Announcement
<1>1. f \notin {NoFrame, Blank, RESPONSE}
  BY FrameAssumption
<1> QED
  BY <1>1 DEF Content, Encoded, Announcement

LEMMA ContentsType ==
  ASSUME NEW s \in Seq(Record)
  PROVE  Contents(s) \in Seq(Announcement) /\ Len(Contents(s)) = Len(s)
<1>1. Len(s) \in Nat
  BY LenProperties
<1>2. \A i \in 1 .. Len(s) : Content(s[i]) \in Announcement
  BY ElementOfSeq, RecordContent
<1>3. Contents(s) \in [1 .. Len(s) -> Announcement]
  BY <1>2 DEF Contents
<1> QED
  BY <1>1, <1>3, ArraySeq

LEMMA ContentsEmpty == Contents(<<>>) = <<>>
BY EmptySeq DEF Contents

LEMMA ContentsAppend ==
  ASSUME NEW s \in Seq(Record), NEW r \in Record
  PROVE  Contents(Append(s, r)) = Append(Contents(s), Content(r))
<1> DEFINE t == Append(s, r)
           n == Len(s)
<1>1. /\ t \in Seq(Record) /\ Len(t) = n + 1 /\ n \in Nat
      /\ \A i \in 1 .. n : t[i] = s[i]
      /\ t[n + 1] = r
  BY AppendProperties, LenProperties
<1>2. Contents(s) \in Seq(Announcement) /\ Len(Contents(s)) = n /\ Content(r) \in Announcement
  BY ContentsType, RecordContent
<1> DEFINE u == Append(Contents(s), Content(r))
<1>3. /\ u \in Seq(Announcement) /\ Len(u) = n + 1
      /\ \A i \in 1 .. n : u[i] = Contents(s)[i]
      /\ u[n + 1] = Content(r)
  BY <1>2, AppendProperties
<1>4. Contents(t) \in Seq(Announcement) /\ Len(Contents(t)) = n + 1
  BY <1>1, ContentsType
<1> HIDE DEF t, u
<1>5. ASSUME NEW i \in 1 .. n + 1 PROVE Contents(t)[i] = u[i]
  <2>1. Contents(t)[i] = Content(t[i])
    BY <1>1 DEF Contents
  <2>2. CASE i \in 1 .. n
    BY <1>1, <1>3, <2>1, <2>2 DEF Contents
  <2>3. CASE i = n + 1
    BY <1>1, <1>3, <2>1, <2>3
  <2> QED
    BY <1>1, <2>2, <2>3
<1>6. Contents(t) = u
  BY <1>3, <1>4, <1>5, SeqEqual
<1> QED
  BY <1>6 DEF t, u

LEMMA ContentsTail ==
  ASSUME NEW s \in Seq(Record), s # <<>>
  PROVE  Contents(s) = <<Content(Head(s))>> \o Contents(Tail(s))
<1> DEFINE t == Tail(s)
           n == Len(s)
           u == <<Content(Head(s))>> \o Contents(t)
<1>1. /\ t \in Seq(Record) /\ Len(t) = n - 1 /\ n \in Nat /\ n >= 1
      /\ \A i \in 1 .. n - 1 : t[i] = s[i + 1]
      /\ Head(s) = s[1] /\ Head(s) \in Record
  BY HeadTailProperties, EmptySeq, LenProperties
<1> DEFINE h == <<Content(Head(s))>>
<1>2. h \in Seq(Announcement) /\ Len(h) = 1 /\ h[1] = Content(Head(s))
  BY <1>1, RecordContent
<1>3. Contents(t) \in Seq(Announcement) /\ Len(Contents(t)) = n - 1
  BY <1>1, ContentsType
<1>4. Contents(s) \in Seq(Announcement) /\ Len(Contents(s)) = n
  BY ContentsType
<1> HIDE DEF t, h, n
<1>5. /\ u \in Seq(Announcement) /\ Len(u) = 1 + (n - 1)
      /\ \A i \in 1 .. 1 + (n - 1) : u[i] = IF i <= 1 THEN h[i] ELSE Contents(t)[i - 1]
  BY <1>2, <1>3, ConcatProperties DEF h
<1> HIDE DEF u
<1>6. ASSUME NEW i \in 1 .. n PROVE Contents(s)[i] = u[i]
  <2>1. Contents(s)[i] = Content(s[i])
    BY DEF Contents, n
  <2>2. CASE i = 1
    BY <1>1, <1>2, <1>5, <2>1, <2>2
  <2>3. CASE i # 1
    <3>1. i - 1 \in 1 .. n - 1 /\ (i - 1) + 1 = i
      BY <1>1, <2>3
    <3>2. Contents(t)[i - 1] = Content(t[i - 1])
      BY <1>1, <3>1 DEF Contents
    <3> QED
      BY <1>1, <1>5, <2>1, <2>3, <3>1, <3>2
  <2> QED
    BY <2>2, <2>3
<1>7. Len(u) = n
  BY <1>1, <1>5
<1>8. Contents(s) = u
  BY <1>4, <1>5, <1>6, <1>7, SeqEqual
<1> QED
  BY <1>8 DEF u, t

LEMMA HeadOfConcat ==
  ASSUME NEW S, NEW s \in Seq(S), NEW x \in S
  PROVE  /\ <<x>> \o s # <<>>
         /\ Head(<<x>> \o s) = x
         /\ Tail(<<x>> \o s) = s
<1> DEFINE h == <<x>>
           u == h \o s
<1>1. h \in Seq(S) /\ Len(h) = 1 /\ h[1] = x
  OBVIOUS
<1> HIDE DEF h
<1>2. /\ u \in Seq(S) /\ Len(u) = 1 + Len(s) /\ Len(s) \in Nat
      /\ \A i \in 1 .. 1 + Len(s) : u[i] = IF i <= 1 THEN h[i] ELSE s[i - 1]
  <2>1. /\ u \in Seq(S) /\ Len(u) = Len(h) + Len(s)
        /\ \A i \in 1 .. Len(h) + Len(s) :
             u[i] = IF i <= Len(h) THEN h[i] ELSE s[i - Len(h)]
    BY <1>1, ConcatProperties
  <2>2. Len(s) \in Nat
    BY LenProperties
  <2> HIDE DEF u
  <2> QED
    BY <1>1, <2>1, <2>2
<1> HIDE DEF u
<1>3. u # <<>>
  BY <1>2, EmptySeq
<1>4. /\ Tail(u) \in Seq(S) /\ Len(Tail(u)) = Len(u) - 1
      /\ \A i \in 1 .. Len(Tail(u)) : Tail(u)[i] = u[i + 1]
      /\ Head(u) = u[1]
  BY <1>2, <1>3, HeadTailProperties
<1>5. u[1] = x
  BY <1>1, <1>2
<1>6. Len(Tail(u)) = Len(s)
  BY <1>2, <1>4
<1>7. ASSUME NEW i \in 1 .. Len(s) PROVE Tail(u)[i] = s[i]
  <2>1. i + 1 \in 1 .. 1 + Len(s) /\ ~(i + 1 <= 1) /\ (i + 1) - 1 = i
    BY <1>2
  <2> QED
    BY <1>2, <1>4, <1>6, <2>1
<1>8. Tail(u) = s
  BY <1>2, <1>4, <1>6, <1>7, SeqEqual
<1> QED
  BY <1>3, <1>4, <1>5, <1>8 DEF u, h

-----------------------------------------------------------------------------
(* One clock edge. *)

(* The three variables of the stream. *)
StreamDecided == IF Wanted THEN [kind |-> decision.kind, seq |-> decision.trigger] ELSE Blank
Pending ==
  (IF tx_start THEN <<Content(tx_payload)>> ELSE <<>>) \o Contents(queue)
Wire == Content(payload_buf)

(* A decision knows the message it came from. *)
SourceInv == decision.kind # NONE => decision.trigger \in SeqNum

StreamInv == TypeOK /\ HandoverInv /\ AlignInv /\ SourceInv

LEMMA SourceClock ==
  ASSUME TypeOK, NEW in \in Wires, Clock(in)
  PROVE  SourceInv'
<1>1. SignalStages \in 1 .. SignalStages
  BY Stages
<1>2. fast_path[SignalStages] \in SeqNum \cup {NoTrigger}
  BY <1>1 DEF TypeOK
<1> QED
  BY <1>2 DEF Clock, FastPathStep, SourceInv, NoDecision, Decided

LEMMA DecidedType ==
  ASSUME TypeOK, SourceInv
  PROVE  /\ Wanted => StreamDecided \in [kind : {ORDER, REJECT}, seq : SeqNum]
         /\ ~Wanted => StreamDecided = Blank
         /\ Wanted <=> StreamDecided # Blank
<1>1. ASSUME Wanted PROVE StreamDecided \in [kind : {ORDER, REJECT}, seq : SeqNum]
  BY <1>1, DecisionKinds DEF Wanted, StreamDecided, SourceInv
<1>2. Blank \notin [kind : {ORDER, REJECT}, seq : SeqNum]
  BY FrameAssumption
<1> QED
  BY <1>1, <1>2 DEF StreamDecided

LEMMA PendingCases ==
  ASSUME TypeOK
  PROVE  /\ Contents(queue) \in Seq(Announcement) /\ Len(Contents(queue)) = Len(queue)
         /\ tx_start => /\ Pending # <<>>
                        /\ Head(Pending) = Content(tx_payload)
                        /\ Tail(Pending) = Contents(queue)
         /\ ~tx_start => Pending = Contents(queue)
<1>1. Contents(queue) \in Seq(Announcement) /\ Len(Contents(queue)) = Len(queue)
  BY ContentsType DEF TypeOK
<1>2. ASSUME tx_start
      PROVE  /\ Pending # <<>>
             /\ Head(Pending) = Content(tx_payload)
             /\ Tail(Pending) = Contents(queue)
  <2>1. Content(tx_payload) \in Announcement
    BY <1>2, EncodedContent DEF TypeOK
  <2>2. Pending = <<Content(tx_payload)>> \o Contents(queue)
    BY <1>2 DEF Pending
  <2> QED
    BY <1>1, <2>1, <2>2, HeadOfConcat
<1>3. ASSUME ~tx_start PROVE Pending = Contents(queue)
  BY <1>1, <1>3, ConcatEmptySeq DEF Pending
<1> QED
  BY <1>1, <1>2, <1>3

(* What is still to be sent after an edge: the record that left the queue  *)
(* is on the wires of the arbiter, and a decision that asks for a frame    *)
(* joins unless two records are queued.                                    *)
LEMMA PendingStep ==
  ASSUME StreamInv, NEW in \in Wires, Clock(in)
  PROVE  LET left == Contents(queue)
         IN  \/ StreamDecided = Blank /\ Pending' = left
             \/ StreamDecided # Blank /\ Pending' = Append(left, StreamDecided)
             \/ StreamDecided # Blank /\ Len(left) >= QueueDepth /\ Pending' = left
<1> DEFINE b == BuilderIn(in)
           rec == NewRecord(b)
           rest == AfterPop(b)
           pushed == WantPush(b) /\ ~Overflow(b)
           left == Contents(queue)
           lead == IF Pop(b) THEN <<Content(Head(queue))>> ELSE <<>>
<1> USE DEF StreamInv
<1>1. /\ queue \in Seq(Record) /\ Len(queue) <= QueueDepth
      /\ rec \in Record
  BY RecordType DEF TypeOK
<1>2. QueueStep(b) /\ LaunchStep(b) /\ b.cur_cycle = cur_cycle
  BY DEF Clock, BuilderStep, BuilderIn
<1>3. WantPush(b) <=> Wanted
  BY DEF WantPush, BuilderIn, Wanted
<1>4. WantPush(b) => Content(rec) = StreamDecided
  <2>1. ASSUME WantPush(b) PROVE rec.kind = decision.kind /\ rec.seq = decision.trigger
    BY <2>1, DecisionKinds DEF WantPush, BuilderIn, NewRecord, AlignInv, CaptureAligned
  <2> QED
    BY <1>1, <1>3, <2>1, RecordContent DEF StreamDecided
<1>5. StreamDecided # Blank <=> WantPush(b)
  BY <1>3, DecidedType
<1>6. tx_start' = Pop(b) /\ (Pop(b) => Content(tx_payload') = Content(Head(queue)))
  <2>1. ASSUME Pop(b) PROVE Content(tx_payload') = Content(Head(queue))
    <3>1. Head(queue) \in Record
      BY <1>1, <2>1, QueueFacts
    <3>2. tx_payload' \in Encoded
      BY <1>2, <2>1, LaunchType DEF LaunchStep
    <3>3. tx_payload'.kind = Head(queue).kind /\ tx_payload'.seq = Head(queue).seq
      BY <1>2, <2>1 DEF LaunchStep, Encode
    <3> QED
      BY <3>1, <3>2, <3>3, RecordContent, EncodedContent
  <2> QED
    BY <1>2, <2>1 DEF LaunchStep
<1>7. Pending' = lead \o Contents(queue')
  BY <1>6 DEF Pending, Contents
<1>8. /\ rest \in Seq(Record) /\ Len(rest) \in Nat /\ Len(rest) <= Len(queue)
      /\ left = lead \o Contents(rest)
      /\ lead \in Seq(Announcement)
  <2>1. CASE Pop(b)
    <3>1. queue # <<>> /\ rest = Tail(queue)
      BY <2>1 DEF Pop, AfterPop
    <3>2. Content(Head(queue)) \in Announcement
      BY <1>1, <2>1, QueueFacts, RecordContent
    <3>3. rest \in Seq(Record) /\ Len(rest) \in Nat /\ Len(rest) <= Len(queue)
      BY <1>1, <2>1, QueueFacts
    <3> QED
      BY <1>1, <2>1, <3>1, <3>2, <3>3, ContentsTail
  <2>2. CASE ~Pop(b)
    <3>1. rest = queue
      BY <2>2 DEF AfterPop
    <3>2. left \in Seq(Announcement)
      BY <1>1, ContentsType
    <3> QED
      BY <1>1, <2>2, <3>1, <3>2, LenProperties, ConcatEmptySeq, EmptySeq
  <2> QED
    BY <2>1, <2>2
<1>9. queue' = IF pushed THEN Append(rest, rec) ELSE rest
  BY <1>2 DEF QueueStep
<1> HIDE DEF b, rec, rest, lead, left
<1>10. CASE pushed
  <2>1. Contents(queue') = Append(Contents(rest), Content(rec))
    BY <1>1, <1>8, <1>9, <1>10, ContentsAppend
  <2>2. lead \o Append(Contents(rest), Content(rec)) = Append(lead \o Contents(rest), Content(rec))
    <3> DEFINE c == Contents(rest)
               d == Content(rec)
    <3>1. c \in Seq(Announcement) /\ d \in Announcement
      BY <1>1, <1>8, ContentsType, RecordContent
    <3> HIDE DEF c, d
    <3>2. lead \o c \in Seq(Announcement) /\ <<d>> \in Seq(Announcement)
      BY <1>8, <3>1, ConcatProperties
    <3>3. Append(c, d) = c \o <<d>> /\ Append(lead \o c, d) = (lead \o c) \o <<d>>
      BY <3>1, <3>2, AppendIsConcat
    <3>4. (lead \o c) \o <<d>> = lead \o (c \o <<d>>)
      <4> DEFINE e == <<d>>
      <4>1. e \in Seq(Announcement) /\ lead \in Seq(Announcement)
        BY <1>8, <3>2
      <4> HIDE DEF e
      <4>2. (lead \o c) \o e = lead \o (c \o e)
        BY <3>1, <4>1, ConcatAssociative
      <4> QED
        BY <4>2 DEF e
    <3> QED
      BY <3>3, <3>4 DEF c, d
  <2>3. Pending' = Append(left, StreamDecided)
    BY <1>4, <1>7, <1>8, <1>10, <2>1, <2>2
  <2> QED
    BY <1>5, <1>10, <2>3 DEF left
<1>11. CASE ~WantPush(b)
  <2>1. Pending' = left
    BY <1>7, <1>8, <1>9, <1>11
  <2> QED
    BY <1>5, <1>11, <2>1 DEF left
<1>12. CASE WantPush(b) /\ Overflow(b)
  <2>1. Pending' = left
    BY <1>7, <1>8, <1>9, <1>12
  <2>2. Len(rest) >= QueueDepth
    BY <1>12 DEF Overflow, rest
  <2>3. Len(left) = Len(queue)
    BY <1>1, ContentsType DEF left
  <2>4. Len(queue) \in Nat
    BY <1>1, LenProperties
  <2>5. Len(left) >= QueueDepth
    BY <1>8, <2>2, <2>3, <2>4 DEF QueueDepth
  <2> QED
    BY <1>5, <1>12, <2>1, <2>5 DEF left
<1> QED
  BY <1>10, <1>11, <1>12

(* Every clock edge is a step of the stream. *)
LEMMA StreamClock ==
  ASSUME FifoFull = {FALSE}, StreamInv, NEW in \in Wires, Clock(in)
  PROVE  Stream!Next
<1> USE DEF StreamInv
<1> DEFINE item == [kind : {ORDER, REJECT}, seq : SeqNum]
<1>1. StreamDecided' \in item \cup {Blank}
  <2>1. Wanted' => decision'.kind \in {ORDER, REJECT} /\ decision'.kind # NONE
    BY DecisionKinds DEF Wanted
  <2>2. SourceInv'
    BY SourceClock
  <2> QED
    BY <2>1, <2>2 DEF StreamDecided, SourceInv
<1>2. EthStep(EthIn(in)) /\ ~in.almost_full
  BY DEF Clock, Wires
<1>3. CASE tx_start
  <2>1. tx_state = TX_IDLE /\ EthIn(in).start /\ EthIn(in).payload = tx_payload
    BY <1>3 DEF HandoverInv, LaunchFindsIdle, EthIn
  <2>2. payload_buf' = tx_payload
    BY <1>2, <2>1 DEF EthStep, Idle, Accept, Req, Wait, Push, Drain, EthIn,
                      TX_IDLE, TX_REQ, TX_WAIT, TX_PUSH, TX_DRAIN
  <2>3. Wire' = Head(Pending) /\ Pending # <<>> /\ Tail(Pending) = Contents(queue)
    BY <1>3, <2>2, PendingCases DEF Wire, Content
  <2> QED
    BY <1>1, <2>3, PendingStep
       DEF Stream!Next, Stream!Launch, Stream!Join, Stream!Decide,
           StreamDecided, Pending, Wire, Contents
<1>4. CASE ~tx_start /\ resp_start
  <2>1. tx_state = TX_IDLE /\ since = 1 /\ queue = <<>>
    BY <1>4 DEF HandoverInv
  <2>2. decision.kind = NONE
    BY <2>1, Stages DEF HandoverInv
  <2>3. EthIn(in).start /\ EthIn(in).payload = RESPONSE
    BY <1>4 DEF EthIn
  <2>4. payload_buf' = RESPONSE
    BY <1>2, <2>1, <2>3 DEF EthStep, Idle, Accept, Req, Wait, Push, Drain, EthIn,
                            TX_IDLE, TX_REQ, TX_WAIT, TX_PUSH, TX_DRAIN
  <2>5. Wire' = RESPONSE
    BY <2>4 DEF Wire, Content
  <2>6. StreamDecided = Blank
    BY <2>2, DecisionKinds DEF StreamDecided, Wanted
  <2>7. Pending = <<>> /\ Contents(queue) = <<>>
    BY <1>4, <2>1, PendingCases, ContentsEmpty
  <2>8. Pending' = Pending
    BY <2>6, <2>7, PendingStep
  <2> QED
    BY <1>1, <2>5, <2>6, <2>7, <2>8
       DEF Stream!Next, Stream!Answer, Stream!Decide,
           StreamDecided, Pending, Wire, Contents
<1>5. CASE ~tx_start /\ ~resp_start
  <2>1. ~EthIn(in).start
    BY <1>5 DEF EthIn
  <2>2. payload_buf' = payload_buf
    BY <1>2, <2>1 DEF EthStep, Idle, Accept, Req, Wait, Push, Drain
  <2>3. Wire' = Wire
    BY <2>2 DEF Wire, Content
  <2>4. Pending = Contents(queue)
    BY <1>5, PendingCases
  <2> QED
    BY <1>1, <2>3, <2>4, PendingStep
       DEF Stream!Next, Stream!Hold, Stream!Join, Stream!Decide,
           StreamDecided, Pending, Wire, Contents
<1> QED
  BY <1>3, <1>4, <1>5

(* FR-51 and spec 7.5: whatever the MAC and the CSR reads do, decisions are *)
(* sent in the order they were made, none is sent twice, one is dropped     *)
(* only when two others are queued, and a reply never goes ahead of a       *)
(* decision.  This is the safety part of ImplementsStream.                  *)
THEOREM StreamSafe ==
  ASSUME Spaced, FifoFull = {FALSE}
  PROVE  Spec => Stream!Spec
<1>1. Init => Stream!Init
  <2> SUFFICES ASSUME Init PROVE Stream!Init
    OBVIOUS
  <2>1. /\ decision.kind = NONE /\ tx_start = FALSE /\ queue = <<>>
        /\ payload_buf = Blank
    BY DEF Init, BuilderReset, EthReset, NoDecision
  <2>2. StreamDecided = Blank /\ Wire = Blank
    BY <2>1, DecisionKinds DEF StreamDecided, Wanted, Wire, Content
  <2>3. Pending = <<>>
    BY <2>1, ContentsEmpty, EmptySeq, ConcatEmptySeq DEF Pending
  <2> QED
    BY <2>2, <2>3 DEF Stream!Init, StreamDecided, Pending, Wire, Contents
<1>2. Spec => []SourceInv
  <2>1. Init => SourceInv
    BY DEF Init, NoDecision, SourceInv
  <2>2. TypeOK /\ SourceInv /\ [Next]_vars => SourceInv'
    <3>1. SourceInv /\ UNCHANGED vars => SourceInv'
      BY DEF SourceInv, vars, pathVars
    <3> QED
      BY <3>1, SourceClock DEF Next
  <2> QED
    BY <2>1, <2>2, TypeSafe, PTL DEF Spec
<1>3. StreamInv /\ [Next]_vars => [Stream!Next]_(Stream!streamVars)
  <2>1. ASSUME UNCHANGED vars PROVE UNCHANGED Stream!streamVars
    BY <2>1 DEF vars, builderVars, ethVars, pathVars, Stream!streamVars, Wanted, Content
  <2> QED
    BY <2>1, StreamClock DEF Next
<1> QED
  BY <1>1, <1>2, <1>3, TypeSafe, HandoverSafe, AlignSafe, PTL
     DEF Spec, Stream!Spec, StreamInv

=============================================================================
