------------------------------ MODULE BenchProofs ------------------------------
(***************************************************************************)
(* What holds of the bench for every configuration and any traffic: the    *)
(* reference model's promises, its lazy bookkeeping against an eager one,  *)
(* and its agreement with the engine's feed modules.  First that every     *)
(* message fits its sixteen bytes (FitsSafe): the rest rests on it.        *)
(***************************************************************************)
EXTENDS GoldenBench, GoldenProofs, SumProofs

-----------------------------------------------------------------------------
(* The steps of the bench, by what they do to the model under test. *)

Untouched == UNCHANGED <<heard, resync, eager, sends, net, touched>>

TakesFrame(payload, fcs_ok) ==
  \E offset \in Arrivals[scenario] : process_frame(payload, Arrival(offset), fcs_ok)

FrameTaken ==
  /\ \E payload, fcs_ok : fcs_ok \in BOOLEAN /\ TakesFrame(payload, fcs_ok)
  /\ RtlQuiet(FALSE) /\ silence' = 0 /\ Untouched

KillSwitched ==
  /\ assert_kill_switch \/ clear_kill_switch
  /\ RtlQuiet(FALSE) /\ silence' = 0 /\ Untouched

GapCleared ==
  /\ clear_seq_gap
  /\ RtlQuiet(TRUE) /\ silence' = 0
  /\ resync' = IF heard = {} THEN resync ELSE Highest + 1
  /\ UNCHANGED <<heard, eager, sends, net, touched>>

Elsewhere == UNCHANGED <<goldenVars, rtlVars, historyVars>>

LEMMA StepKinds ==
  ASSUME [Next]_vars
  PROVE  ProcessNext \/ FrameTaken \/ KillSwitched \/ GapCleared \/ Elsewhere
<1>1. CASE Generate
  BY <1>1 DEF Generate, Elsewhere
<1>2. CASE Feed
  <2>1. TakesFrame(yielded.payload, TRUE)
    BY <1>2 DEF Feed, TakesFrame
  <2>2. RtlQuiet(FALSE) /\ silence' = 0 /\ Untouched
    BY <1>2 DEF Feed, Untouched
  <2> QED
    BY <2>1, <2>2 DEF FrameTaken
<1>3. ASSUME NEW messages, NEW ragged, NEW fcs_ok \in BOOLEAN,
             CallFrame(messages, ragged, fcs_ok)
      PROVE  FrameTaken
  <2>1. TakesFrame([messages |-> messages, ragged |-> ragged], fcs_ok)
    BY <1>3 DEF CallFrame, TakesFrame
  <2>2. RtlQuiet(FALSE) /\ silence' = 0 /\ Untouched
    BY <1>3 DEF CallFrame, Untouched
  <2> QED
    BY <2>1, <2>2 DEF FrameTaken
<1>4. CASE AnyMessage
  BY <1>3, <1>4 DEF AnyMessage
<1>5. CASE AnyBadFrame
  BY <1>3, <1>5 DEF AnyBadFrame
<1>6. CASE ControlCalls
  BY <1>6 DEF ControlCalls, KillSwitched, GapCleared, Untouched
<1>7. CASE Stray
  BY <1>7 DEF Stray, Elsewhere
<1>8. CASE Receiver
  BY <1>8 DEF Receiver, Elsewhere
<1>9. CASE UNCHANGED vars
  BY <1>9 DEF vars, Elsewhere
<1> QED
  BY <1>1, <1>2, <1>4, <1>5, <1>6, <1>7, <1>8, <1>9 DEF Next

(* The scenario is chosen once. *)
LEMMA ScenarioKept ==
  ASSUME [Next]_vars PROVE scenario' = scenario
<1>1. ASSUME NEW kind, Fresh(kind) PROVE scenario' = scenario
  BY <1>1 DEF Fresh, Yield
<1>2. ASSUME NEW symbol, NEW price, NEW qty, ForcedBid(symbol, price, qty)
      PROVE  scenario' = scenario
  BY <1>2 DEF ForcedBid, Yield
<1>3. CASE Generate
  <2>1. CASE Normal BY <1>1, <2>1 DEF Normal
  <2>2. CASE Crossed BY <1>1, <1>2, <2>2 DEF Crossed
  <2>3. CASE Gaps BY <1>1, <2>3 DEF Gaps, Yield
  <2>4. CASE Malformed
    <3>1. generated % 3 = 0 \/ generated % 3 = 1 \/ (generated % 3 # 0 /\ generated % 3 # 1)
      OBVIOUS
    <3> QED BY <2>4, <3>1 DEF Malformed, Yield
  <2>5. CASE Burst BY <2>5 DEF Burst, Yield
  <2>6. CASE Trigger BY <1>1, <1>2, <2>6 DEF Trigger
  <2> QED BY <1>3, <2>1, <2>2, <2>3, <2>4, <2>5, <2>6 DEF Generate, iter_scenario
<1>4. CASE Feed
  BY <1>4 DEF Feed, Take
<1>5. CASE AnyMessage
  BY <1>5 DEF AnyMessage, CallFrame, genVars
<1>6. CASE AnyBadFrame
  BY <1>6 DEF AnyBadFrame, CallFrame, genVars
<1>7. CASE ControlCalls \/ ProcessNext \/ Stray \/ Receiver \/ UNCHANGED vars
  BY <1>7 DEF ControlCalls, ProcessNext, Stray, Receiver, vars, genVars
<1> QED
  BY <1>3, <1>4, <1>5, <1>6, <1>7 DEF Next

LEMMA ArrivalType ==
  ASSUME scenario \in Scenarios, current_cycle \in Nat, NEW offset \in Arrivals[scenario]
  PROVE  Arrival(offset) \in Nat \cup {None}
<1>1. offset \in Int \cup {None}
  BY BenchAssumption
<1> QED
  BY <1>1 DEF Arrival, Larger

-----------------------------------------------------------------------------
(* The bench calls the model as anybody may. *)

LEMMA WireIsMessage ==
  ASSUME NEW p \in Seq(WireMessage) PROVE p \in Seq(Message)
<1>1. WireMessage \subseteq Message
  BY BenchAssumption DEF Message, WireMessage
<1> QED
  BY <1>1

LEMMA GoldenStep ==
  ASSUME GoldenTypeOK, scenario \in Scenarios, Fits', [Next]_vars
  PROVE  [GoldenNext]_goldenVars
<1>1. CASE ProcessNext
  BY <1>1 DEF ProcessNext, GoldenNext
<1>2. CASE FrameTaken
  <2>0. PICK payload, fcs_ok : fcs_ok \in BOOLEAN /\ TakesFrame(payload, fcs_ok)
    BY <1>2 DEF FrameTaken
  <2>1. PICK offset \in Arrivals[scenario] :
          process_frame(payload, Arrival(offset), fcs_ok)
    BY <2>0 DEF TakesFrame
  <2>2. Arrival(offset) \in Nat \cup {None}
    BY ArrivalType DEF GoldenTypeOK
  <2>3. CASE fcs_ok /\ ~BadLength(payload)
    <3>1. pending' = payload.messages
      BY <2>1, <2>3 DEF process_frame
    <3>2. payload.messages \in Seq(Message)
      <4>1. pending' \in Seq(Message)
        BY WireIsMessage DEF Fits
      <4> QED
        BY <3>1, <4>1
    <3> DEFINE p == [messages |-> payload.messages, ragged |-> FALSE]
    <3>3. p \in Payload
      BY <3>2 DEF Payload
    <3>4. ~BadLength(p)
      BY <2>3 DEF BadLength
    <3>5. process_frame(p, Arrival(offset), fcs_ok)
      BY <2>1, <2>3, <3>4 DEF process_frame, paceVars, feedVars
    <3> QED
      BY <2>0, <2>2, <3>3, <3>5 DEF GoldenNext
  <2>4. CASE ~(fcs_ok /\ ~BadLength(payload))
    <3> DEFINE p == [messages |-> <<>>, ragged |-> TRUE]
    <3>1. p \in Payload
      BY DEF Payload
    <3>2. BadLength(p)
      BY DEF BadLength
    <3>3. process_frame(p, Arrival(offset), fcs_ok)
      BY <2>1, <2>4, <3>2 DEF process_frame
    <3> QED
      BY <2>0, <2>2, <3>1, <3>3 DEF GoldenNext
  <2> QED
    BY <2>3, <2>4
<1>3. CASE KillSwitched \/ GapCleared
  BY <1>3 DEF KillSwitched, GapCleared, GoldenNext
<1>4. CASE Elsewhere
  BY <1>4 DEF Elsewhere
<1> QED
  BY <1>1, <1>2, <1>3, <1>4, StepKinds

(* A message either trades, or leaves the ledger, the bucket and the       *)
(* transmit slots to themselves.                                           *)
LEMMA TradeOrNot ==
  ASSUME process_message
  PROVE  /\ Arrive(Head(pending), MessageCycle)
         /\ \/ \E adverse \in BOOLEAN : Trade(Head(pending), adverse)
            \/ /\ NoTrade(MessageCycle)
               /\ result'.order.msg_type # ORDER_MSG_NEW
               /\ result'.dropped => Len(TxBusyAt(MessageCycle)) >= 2
<1> DEFINE msg == Head(pending)
           now == MessageCycle
           Fate == /\ Arrive(msg, now)
                   /\ NoTrade(now)
                   /\ result'.order.msg_type # ORDER_MSG_NEW
                   /\ result'.dropped => Len(TxBusyAt(now)) >= 2
<1>1. CASE Discard(msg) \/ Observe(msg)
  BY <1>1 DEF Discard, Observe, Apply, NoResult, NoOrder, ORDER_MSG_NEW
<1>2. ASSUME NEW adverse \in BOOLEAN, Refuse(msg, adverse) PROVE Fate
  BY <1>2 DEF Refuse, Apply, Record, NoOrder, ORDER_MSG_NEW, ORDER_MSG_REJECT
<1>3. ASSUME NEW adverse \in BOOLEAN, Overflow(msg, adverse) PROVE Fate
  BY <1>3 DEF Overflow, Apply, NoOrder, ORDER_MSG_NEW
<1>4. ASSUME NEW adverse \in BOOLEAN, Trade(msg, adverse) PROVE Arrive(msg, now)
  BY <1>4 DEF Trade, Apply
<1> QED
  BY <1>1, <1>2, <1>3, <1>4 DEF process_message

-----------------------------------------------------------------------------
(* Sequence numbers. *)

(* The number expected is the one after the highest that came in time. *)
HeardInv ==
  /\ heard \subseteq Nat /\ IsFiniteSet(heard)
  /\ heard = {} <=> expected_seq = None
  /\ heard # {} => /\ expected_seq - 1 \in heard
                   /\ \A k \in heard : k <= expected_seq - 1

LEMMA HighestIs ==
  ASSUME GoldenTypeOK, HeardInv
  PROVE  /\ heard = {} => Highest = -1 /\ expected_seq = None
         /\ heard # {} => /\ expected_seq \in Nat \ {0} /\ expected_seq # None
                          /\ Highest \in Nat /\ Highest = expected_seq - 1
                          /\ Highest \in heard /\ \A k \in heard : k <= Highest
<1>1. CASE heard = {}
  BY <1>1 DEF Highest, HeardInv
<1>2. CASE heard # {}
  <2>1. expected_seq \in Nat /\ expected_seq # None
    BY <1>2 DEF HeardInv, GoldenTypeOK
  <2>2. expected_seq - 1 \in heard /\ expected_seq - 1 \in Nat
        /\ \A k \in heard : k <= expected_seq - 1
    BY <1>2 DEF HeardInv
  <2>3. \A n \in heard : (\A k \in heard : k <= n) => n = expected_seq - 1
    BY <2>2 DEF HeardInv
  <2>4. Highest = CHOOSE n \in heard : \A k \in heard : k <= n
    BY <1>2 DEF Highest
  <2>5. Highest = expected_seq - 1
    BY <2>2, <2>3, <2>4
  <2> QED
    BY <1>2, <2>1, <2>2, <2>5
<1> QED
  BY <1>1, <1>2

(* In time for the history is not late for the model. *)
LEMMA InTime ==
  ASSUME GoldenTypeOK, HeardInv, NEW msg \in Message
  PROVE  /\ IsDup(msg) <=> ~(msg.seq_num > Highest)
         /\ heard = {} => Gap(msg) = 0
         /\ heard # {} => Gap(msg) = IF msg.seq_num > Highest
                                     THEN msg.seq_num - Highest - 1 ELSE 0
<1>1. msg.seq_num \in Nat
  BY DEF Message
<1>2. CASE heard = {}
  BY <1>1, <1>2, HighestIs DEF IsDup, Expected, Gap
<1>3. CASE heard # {}
  BY <1>1, <1>3, HighestIs DEF IsDup, Expected, Gap
<1> QED
  BY <1>2, <1>3

(* Off the message path neither the numbers nor the books change. *)
Unnumbered == UNCHANGED <<cfg, heard, expected_seq, books, touched>>
                /\ result'.order.msg_type # ORDER_MSG_NEW

LEMMA UnnumberedSteps ==
  ASSUME GoldenTypeOK, [Next]_vars
  PROVE  \/ ProcessNext
         \/ /\ Unnumbered /\ counters'["cnt_seq_gap"] = counters["cnt_seq_gap"]
            /\ \/ UNCHANGED <<seq_gap, resync>>
               \/ ~seq_gap' /\ resync' = IF heard = {} THEN resync ELSE Highest + 1
         \/ UNCHANGED <<cfg, heard, expected_seq, books, touched, result, silence,
                        seq_gap, resync, counters>>
<1>1. NoResult.order.msg_type # ORDER_MSG_NEW
  BY DEF NoResult, NoOrder, ORDER_MSG_NEW
<1>2. CASE FrameTaken
  <2>1. PICK payload, fcs_ok : fcs_ok \in BOOLEAN /\ TakesFrame(payload, fcs_ok)
    BY <1>2 DEF FrameTaken
  <2>2. PICK offset \in Arrivals[scenario] : process_frame(payload, Arrival(offset), fcs_ok)
    BY <2>1 DEF TakesFrame
  <2>3. /\ UNCHANGED <<cfg, books, feedVars>> /\ result' = NoResult
        /\ \E hits : Increment(hits, {}, 0)
    BY <2>2 DEF process_frame
  <2>4. "cnt_seq_gap" \in Counter /\ counters["cnt_seq_gap"] \in 0 .. CounterMax
    BY DEF Counter, GoldenTypeOK
  <2>5. \A c \in {"cnt_frames_rx", "err_fcs", "err_frame_len"} : c # "cnt_seq_gap"
    OBVIOUS
  <2>6. counters'["cnt_seq_gap"] = counters["cnt_seq_gap"]
    <3> DEFINE hits == {"cnt_frames_rx"}
                         \cup (IF ~fcs_ok THEN {"err_fcs"}
                               ELSE IF BadLength(payload) THEN {"err_frame_len"} ELSE {})
    <3>1. Increment(hits, {}, 0) /\ "cnt_seq_gap" \notin hits
      BY <2>2, <2>5 DEF process_frame
    <3> HIDE DEF hits
    <3>2. counters'["cnt_seq_gap"] = Lesser(CounterMax, counters["cnt_seq_gap"] + 0 + 0 + 0)
      BY <2>4, <3>1, IncrementType DEF One, GoldenTypeOK
    <3> QED
      BY <2>4, <3>2, GoldenAssumption DEF Lesser
  <2>7. UNCHANGED <<heard, touched, resync>>
    BY <1>2 DEF FrameTaken, Untouched
  <2> QED
    BY <1>1, <2>3, <2>6, <2>7 DEF feedVars, Unnumbered
<1>3. CASE KillSwitched
  <2>1. ControlCall /\ UNCHANGED seq_gap
    BY <1>3 DEF KillSwitched, assert_kill_switch, clear_kill_switch
  <2>2. UNCHANGED <<heard, touched, resync>>
    BY <1>3 DEF KillSwitched, Untouched
  <2> QED
    BY <1>1, <2>1, <2>2 DEF ControlCall, Unnumbered
<1>4. CASE GapCleared
  <2>1. ControlCall /\ ~seq_gap'
    BY <1>4 DEF GapCleared, clear_seq_gap
  <2>2. UNCHANGED <<heard, touched>> /\ resync' = IF heard = {} THEN resync ELSE Highest + 1
    BY <1>4 DEF GapCleared
  <2> QED
    BY <1>1, <2>1, <2>2 DEF ControlCall, Unnumbered
<1>5. CASE Elsewhere
  BY <1>5 DEF Elsewhere, goldenVars, feedVars, historyVars
<1> QED
  BY <1>2, <1>3, <1>4, <1>5, StepKinds

LEMMA HeardStep ==
  ASSUME GoldenTypeOK, HeardInv, [Next]_vars PROVE HeardInv'
<1>1. CASE ProcessNext
  <2> DEFINE msg == Head(pending)
             k == msg.seq_num
  <2>1. process_message /\ SequenceHistory(msg)
    BY <1>1 DEF ProcessNext
  <2>2. msg \in Message /\ k \in Nat
    BY <2>1, InHand DEF process_message, Message
  <2>3. expected_seq' = IF IsDup(msg) THEN expected_seq ELSE k + 1
    BY <2>1, TradeOrNot DEF Arrive, TrackSequence
  <2>4. heard' = IF k > Highest THEN heard \cup {k} ELSE heard
    BY <2>1 DEF SequenceHistory
  <2>5. IsDup(msg) <=> ~(k > Highest)
    BY <2>2, InTime
  <2> HIDE DEF msg, k
  <2>6. CASE k > Highest
    <3>1. heard' = heard \cup {k} /\ expected_seq' = k + 1
      BY <2>3, <2>4, <2>5, <2>6
    <3>2. IsFiniteSet(heard')
      BY <3>1, FS_AddElement DEF HeardInv
    <3>3. \A j \in heard : j <= k
      BY <2>2, <2>6, HighestIs DEF HeardInv
    <3>4. k + 1 # None /\ k + 1 - 1 = k
      BY <2>2, GoldenAssumption
    <3> QED
      BY <2>2, <3>1, <3>2, <3>3, <3>4 DEF HeardInv
  <2>7. CASE ~(k > Highest)
    BY <2>3, <2>4, <2>5, <2>7 DEF HeardInv
  <2> QED
    BY <2>6, <2>7
<1>2. CASE UNCHANGED <<heard, expected_seq>>
  BY <1>2 DEF HeardInv
<1> QED
  BY <1>1, <1>2, UnnumberedSteps DEF Unnumbered

LEMMA HeardInit ==
  Init => HeardInv
BY FS_EmptySet DEF Init, GoldenInit, HeardInv

-----------------------------------------------------------------------------
(* What a message counts. *)

Fired == {"cnt_signal_buy", "cnt_signal_sell"}
Classified == {"cnt_ml_adverse", "cnt_ml_benign"}
Left == {"cnt_orders_tx", "cnt_order_overflow"}
Refusals(G) == {GATE_NAME[g] : g \in G}
Tracked == Fired \cup {"cnt_ml_events"} \cup Classified \cup Left \cup Refusals(Gate)

LEMMA RefusalNames ==
  /\ Refusals(Gate) \subseteq Counter
  /\ Refusals(Gate) \cap (Fired \cup {"cnt_ml_events"} \cup Classified \cup Left
                            \cup {"cnt_msgs_rx", "cnt_seq_gap"}) = {}
  /\ \A g, h \in Gate : GATE_NAME[g] = GATE_NAME[h] => g = h
<1>1. /\ GATE_NAME[1] = "cnt_rej_kill" /\ GATE_NAME[2] = "cnt_rej_size"
      /\ GATE_NAME[3] = "cnt_rej_position" /\ GATE_NAME[4] = "cnt_rej_band"
      /\ GATE_NAME[5] = "cnt_rej_stale" /\ GATE_NAME[6] = "cnt_rej_seqgap"
      /\ GATE_NAME[7] = "cnt_rej_crossed" /\ GATE_NAME[8] = "cnt_rej_throttle"
      /\ GATE_NAME[9] = "cnt_rej_ml"
  BY DEF GATE_NAME
<1>2. \A g \in Gate : g \in {1, 2, 3, 4, 5, 6, 7, 8, 9}
  BY DEF Gate
<1>3. Refusals(Gate) \subseteq Counter
  BY DEF Refusals, Counter
<1>4. \A g \in Gate :
        GATE_NAME[g] \notin Fired \cup {"cnt_ml_events"} \cup Classified \cup Left
                              \cup {"cnt_msgs_rx", "cnt_seq_gap"}
  BY <1>1, <1>2 DEF Fired, Classified, Left
<1>5. \A g, h \in Gate : GATE_NAME[g] = GATE_NAME[h] => g = h
  BY <1>1, <1>2
<1> QED
  BY <1>3, <1>4, <1>5 DEF Refusals

(* A message fires no signal, or one, judged by the classifier once and    *)
(* counted as what more says.                                              *)
Signalled(hits, more) ==
  \E s \in Fired, v \in Classified : hits \cap Tracked = {s, "cnt_ml_events", v} \cup more

Outcome(hits, again) ==
  \/ hits \cap Tracked = {} /\ again = {}
  \/ again = {} /\ \E c \in Left : Signalled(hits, {c})
  \/ \E G \in SUBSET Gate :
       /\ G # {} /\ Signalled(hits, Refusals(G))
       /\ again = Refusals(G \cap {GATE_ML})

LEMMA BookUntracked ==
  ASSUME NEW msg, NEW b
  PROVE  /\ BookHits(msg, b) \cap Tracked = {}
         /\ "cnt_msgs_rx" \in BookHits(msg, b) /\ "cnt_frames_rx" \notin BookHits(msg, b)
<1>1. BookHits(msg, b) \subseteq {"cnt_msgs_rx", "cnt_msgs_accepted", "cnt_book_clear",
                                  "cnt_trades", "cnt_heartbeats", "cnt_crossed"}
  BY DEF BookHits
<1>2. "cnt_msgs_rx" \in BookHits(msg, b) /\ "cnt_frames_rx" \notin BookHits(msg, b)
  BY DEF BookHits
<1>3. {"cnt_msgs_rx", "cnt_msgs_accepted", "cnt_book_clear", "cnt_trades",
       "cnt_heartbeats", "cnt_crossed"} \cap Refusals(Gate) = {}
  BY DEF Refusals, Gate, GATE_NAME
<1>4. {"cnt_msgs_rx", "cnt_msgs_accepted", "cnt_book_clear", "cnt_trades",
       "cnt_heartbeats", "cnt_crossed"} \cap Tracked = {}
  BY <1>3 DEF Tracked, Fired, Classified, Left
<1> QED
  BY <1>1, <1>2, <1>4

LEMMA SignalTracked ==
  ASSUME NEW msg, NEW b, NEW side, NEW adverse, NEW more \in SUBSET Tracked
  PROVE  /\ Signalled(BookHits(msg, b) \cup SignalHits(side, adverse) \cup more, more)
         /\ "cnt_frames_rx" \notin BookHits(msg, b) \cup SignalHits(side, adverse) \cup more
<1>1. PICK s \in Fired, v \in Classified :
        SignalHits(side, adverse) = {s, "cnt_ml_events", v}
  BY DEF SignalHits, Fired, Classified
<1>2. {s, "cnt_ml_events", v} \subseteq Tracked
  BY DEF Tracked
<1>3. BookHits(msg, b) \cap Tracked = {}
  BY BookUntracked
<1>4. (BookHits(msg, b) \cup {s, "cnt_ml_events", v} \cup more) \cap Tracked
        = {s, "cnt_ml_events", v} \cup more
  BY <1>2, <1>3
<1>5. "cnt_frames_rx" \notin Tracked
  <2>1. "cnt_frames_rx" \notin Refusals(Gate)
    BY DEF Refusals, Gate, GATE_NAME
  <2> QED
    BY <2>1 DEF Tracked, Fired, Classified, Left
<1>6. "cnt_frames_rx" \notin BookHits(msg, b)
  BY BookUntracked
<1> QED
  BY <1>1, <1>2, <1>4, <1>5, <1>6 DEF Signalled

LEMMA DropUntracked ==
  ASSUME NEW msg, NEW late \in SUBSET {"cnt_seq_dup"}
  PROVE  /\ ({"cnt_msgs_rx", DropCounter(msg)} \cup late) \cap Tracked = {}
         /\ "cnt_frames_rx" \notin {"cnt_msgs_rx", DropCounter(msg)} \cup late
<1> DEFINE D == {"cnt_msgs_rx", "err_msg_type", "err_flags", "cnt_msgs_filtered",
                 "cnt_msgs_accepted", "cnt_seq_dup"}
<1>1. {"cnt_msgs_rx", DropCounter(msg)} \cup late \subseteq D
  BY DEF DropCounter
<1>2. D \cap Refusals(Gate) = {}
  BY DEF Refusals, Gate, GATE_NAME
<1>3. D \cap Tracked = {}
  BY <1>2 DEF Tracked, Fired, Classified, Left
<1>4. "cnt_frames_rx" \notin D
  OBVIOUS
<1> HIDE DEF D
<1> QED
  BY <1>1, <1>3, <1>4

LEMMA SignalledLeaves ==
  ASSUME NEW hits, NEW more, Signalled(hits, more)
  PROVE  "cnt_ml_events" \in hits /\ \A c \in Left : c \in hits <=> c \in more
<1>1. PICK s \in Fired, v \in Classified :
        hits \cap Tracked = {s, "cnt_ml_events", v} \cup more
  BY DEF Signalled
<1>2. \A c \in Left \cup {"cnt_ml_events"} : c \in Tracked
  BY DEF Tracked
<1>3. \A c \in Left : c \notin {s, "cnt_ml_events", v}
  BY DEF Left, Fired, Classified
<1> QED
  BY <1>1, <1>2, <1>3

(* The record a message leaves, beside what it counts.                     *)
Silent(hits) ==
  /\ result'.order = NoOrder
  /\ "cnt_orders_tx" \notin hits
  /\ cfg.cfg_reject_report =>
       ("cnt_ml_events" \in hits <=> "cnt_order_overflow" \in hits)

Refused(hits) ==
  /\ cfg.cfg_reject_report
  /\ result'.order.msg_type = ORDER_MSG_REJECT /\ result'.order.reject_reason \in Gate
  /\ "cnt_ml_events" \in hits
  /\ "cnt_orders_tx" \notin hits /\ "cnt_order_overflow" \notin hits

Ordered(hits) ==
  /\ result'.order.msg_type = ORDER_MSG_NEW /\ result'.order.reject_reason = 0
  /\ "cnt_ml_events" \in hits
  /\ "cnt_orders_tx" \in hits /\ "cnt_order_overflow" \notin hits

Emits(hits) == Silent(hits) \/ Refused(hits) \/ Ordered(hits)

LEMMA UntrackedSilent ==
  ASSUME NEW hits, hits \cap Tracked = {}, result' = NoResult PROVE Emits(hits)
<1>1. \A c \in Left \cup {"cnt_ml_events"} : c \in Tracked
  BY DEF Tracked
<1> QED
  BY <1>1 DEF Left, Emits, Silent, NoResult

LEMMA SignalCounts ==
  ASSUME GoldenTypeOK, process_message
  PROVE  \E hits, again :
           /\ Increment(hits, again, Gap(Head(pending)))
           /\ "cnt_msgs_rx" \in hits /\ "cnt_frames_rx" \notin hits
           /\ again \subseteq Refusals(Gate)
           /\ Outcome(hits, again)
           /\ Emits(hits)
<1> DEFINE msg == Head(pending)
           now == MessageCycle
           b == BookAfter(msg, now)
           side == SignalSide(msg, b)
           Goal(hits, again) ==
             /\ Increment(hits, again, Gap(msg))
             /\ "cnt_msgs_rx" \in hits /\ "cnt_frames_rx" \notin hits
             /\ again \subseteq Refusals(Gate)
             /\ Outcome(hits, again)
             /\ Emits(hits)
<1>1. b \in Book
  BY InHand DEF process_message
<1>2. ASSUME Discard(msg) PROVE \E hits, again : Goal(hits, again)
  <2> DEFINE late == IF IsDup(msg) THEN {"cnt_seq_dup"} ELSE {}
             hits == {"cnt_msgs_rx", DropCounter(msg)} \cup late
  <2>1. Increment(hits, {}, Gap(msg))
    BY <1>2 DEF Discard
  <2>2. hits \cap Tracked = {} /\ "cnt_frames_rx" \notin hits
    BY DropUntracked
  <2>3. Emits(hits)
    <3> HIDE DEF hits
    <3> QED BY <1>2, <2>2, UntrackedSilent DEF Discard
  <2>4. Goal(hits, {})
    BY <2>1, <2>2, <2>3 DEF Outcome
  <2> HIDE DEF hits, Goal
  <2> QED
    BY <2>4
<1>3. ASSUME Observe(msg) PROVE \E hits, again : Goal(hits, again)
  <2> DEFINE hits == BookHits(msg, b)
  <2>1. ~Conflict(msg, b)
    BY <1>1, RulesExclude DEF Conflict, GoldenTypeOK
  <2>2. Increment(hits, {}, Gap(msg))
    <3>1. hits \cup (IF Conflict(msg, b) THEN {"err_signal_conflict"} ELSE {}) = hits
      BY <2>1
    <3> QED
      BY <1>3, <3>1 DEF Observe
  <2>3. hits \cap Tracked = {} /\ "cnt_msgs_rx" \in hits /\ "cnt_frames_rx" \notin hits
    BY BookUntracked
  <2> HIDE DEF hits
  <2>4. Emits(hits)
    BY <1>3, <2>3, UntrackedSilent DEF Observe
  <2>5. Goal(hits, {})
    BY <2>2, <2>3, <2>4 DEF Outcome
  <2> HIDE DEF Goal
  <2> QED
    BY <2>5
<1>4. ASSUME NEW adverse \in BOOLEAN, Refuse(msg, adverse)
      PROVE  \E hits, again : Goal(hits, again)
  <2> DEFINE gates == GatesFired(msg, b, side, now, adverse)
             more == Refusals(gates)
             hits == BookHits(msg, b) \cup SignalHits(side, adverse) \cup more
             again == Refusals(gates \cap {GATE_ML})
  <2>1. gates \in SUBSET Gate /\ gates # {}
    BY <1>4 DEF Refuse, GatesFired
  <2>2. Increment(hits, again, Gap(msg))
    BY <1>4 DEF Refuse, Refusals
  <2>0. IF cfg.cfg_reject_report
        THEN /\ result'.order.msg_type = ORDER_MSG_REJECT
             /\ result'.order.reject_reason \in Gate
        ELSE result'.order = NoOrder
    BY <1>4, <2>1, LowestType DEF Refuse, Record
  <2> HIDE DEF gates
  <2>3. more \in SUBSET Tracked /\ again \subseteq Refusals(Gate)
    BY <2>1 DEF Refusals, Tracked
  <2> HIDE DEF b, side, msg
  <2>4. Signalled(hits, more) /\ "cnt_msgs_rx" \in hits /\ "cnt_frames_rx" \notin hits
    BY <2>3, SignalTracked, BookUntracked
  <2>5. Outcome(hits, again)
    BY <2>1, <2>4 DEF Outcome
  <2>6. Emits(hits)
    <3>1. Left \cap more = {}
      BY <2>1, RefusalNames DEF Refusals
    <3> HIDE DEF hits, more
    <3>2. "cnt_ml_events" \in hits /\ Left \cap hits = {}
      BY <2>4, <3>1, SignalledLeaves
    <3> QED
      BY <2>0, <3>2 DEF Left, Emits, Silent, Refused
  <2>7. Goal(hits, again)
    BY <2>2, <2>3, <2>4, <2>5, <2>6
  <2> HIDE DEF hits, again, Goal
  <2> QED
    BY <2>7
<1>5. ASSUME NEW adverse \in BOOLEAN, Overflow(msg, adverse)
      PROVE  \E hits, again : Goal(hits, again)
  <2> DEFINE more == {"cnt_order_overflow"}
             hits == BookHits(msg, b) \cup SignalHits(side, adverse) \cup more
  <2>1. Increment(hits, {}, Gap(msg))
    BY <1>5 DEF Overflow
  <2>2. more \in SUBSET Tracked /\ "cnt_order_overflow" \in Left
    BY DEF Tracked, Left
  <2> HIDE DEF b, side, msg
  <2>3. Signalled(hits, more) /\ "cnt_msgs_rx" \in hits /\ "cnt_frames_rx" \notin hits
    BY <2>2, SignalTracked, BookUntracked
  <2>4. Outcome(hits, {})
    BY <2>2, <2>3 DEF Outcome
  <2>5. Emits(hits)
    <3>1. result'.order = NoOrder
      BY <1>5 DEF Overflow
    <3> HIDE DEF hits
    <3>2. "cnt_ml_events" \in hits /\ \A c \in Left : c \in hits <=> c \in more
      BY <2>3, SignalledLeaves
    <3> QED
      BY <3>1, <3>2 DEF Left, Emits, Silent
  <2>6. Goal(hits, {})
    BY <2>1, <2>3, <2>4, <2>5
  <2> HIDE DEF hits, Goal
  <2> QED
    BY <2>6
<1>6. ASSUME NEW adverse \in BOOLEAN, Trade(msg, adverse)
      PROVE  \E hits, again : Goal(hits, again)
  <2> DEFINE more == {"cnt_orders_tx"}
             hits == BookHits(msg, b) \cup SignalHits(side, adverse) \cup more
  <2>1. Increment(hits, {}, Gap(msg))
    BY <1>6 DEF Trade
  <2>2. more \in SUBSET Tracked /\ "cnt_orders_tx" \in Left
    BY DEF Tracked, Left
  <2> HIDE DEF b, side, msg
  <2>3. Signalled(hits, more) /\ "cnt_msgs_rx" \in hits /\ "cnt_frames_rx" \notin hits
    BY <2>2, SignalTracked, BookUntracked
  <2>4. Outcome(hits, {})
    BY <2>2, <2>3 DEF Outcome
  <2>5. Emits(hits)
    <3>1. result'.order.msg_type = ORDER_MSG_NEW /\ result'.order.reject_reason = 0
      BY <1>6 DEF Trade, Record
    <3> HIDE DEF hits
    <3>2. "cnt_ml_events" \in hits /\ \A c \in Left : c \in hits <=> c \in more
      BY <2>3, SignalledLeaves
    <3> QED
      BY <3>1, <3>2 DEF Left, Emits, Ordered
  <2>6. Goal(hits, {})
    BY <2>1, <2>3, <2>4, <2>5
  <2> HIDE DEF hits, Goal
  <2> QED
    BY <2>6
<1> QED
  BY <1>2, <1>3, <1>4, <1>5, <1>6 DEF process_message

-----------------------------------------------------------------------------
(* The generator's walk. *)

Generated == {NORMAL, CROSSED, GAPS, MALFORMED, BURST, TRIGGER}

(* Traffic's numbers differ by at most d from one to the next.             *)
Climbs(t, d) ==
  /\ d \in Nat \ {0}
  /\ \A step \in Steps[t] : step \in Int /\ step <= d
  /\ d * MaxCalls[t] + 3 <= WordMod

(* g messages after the start; a bid may be forced over the ask.           *)
Strolled(bid, ask, g) ==
  /\ bid \in [FeedSymbols -> Int] /\ ask \in [FeedSymbols -> Int]
  /\ \A s \in FeedSymbols :
       /\ 10010 - 3 * g <= ask[s] /\ ask[s] <= 10010 + 3 * g
       /\ 10000 - 3 * g <= bid[s] /\ bid[s] <= 10030 + 3 * g

GenInv ==
  /\ scenario \in Scenarios
  /\ generated \in 0 .. Limit
  /\ seq \in 1 .. 1 + 6 * generated
  /\ Strolled(bid_price, ask_price, generated)
  /\ yielded # NoFrame => yielded.payload.messages \in Seq(WireMessage)

LEMMA LimitType ==
  ASSUME scenario \in Scenarios PROVE Limit \in Nat
BY FeedGenAssumption DEF Limit

LEMMA RoomFacts ==
  ASSUME scenario \in Scenarios \ Traffic
  PROVE  /\ Limit \in Nat /\ WordMod \in Nat
         /\ 3 * Limit <= 10000 /\ 10030 + 3 * Limit < WordMod /\ 6 * Limit + 2 <= WordMod
         /\ Drift[scenario] \subseteq -3 .. 3 /\ Qty[scenario] \subseteq 1 .. 200
BY LimitType, FeedGenAssumption, BenchAssumption, RoomAssumption DEF Limit

LEMMA TrafficFacts ==
  ASSUME scenario \in Scenarios, scenario \in Traffic
  PROVE  /\ MaxCalls[scenario] \in 0 .. CounterMax
         /\ \E d : Climbs(scenario, d)
         /\ \A content \in Content[scenario], n \in 0 .. WordMod - 2 :
              Numbered(content, n) \in WireMessage
<1>1. \E d : Climbs(scenario, d)
  <2>1. PICK d \in 1 .. WordMod :
          /\ \A step \in Steps[scenario] : step <= d
          /\ d * MaxCalls[scenario] + 3 <= WordMod
    BY RoomAssumption
  <2>2. d \in Nat \ {0}
    BY <2>1, BenchAssumption
  <2>3. Steps[scenario] \subseteq Int
    BY RoomAssumption
  <2> QED
    BY <2>1, <2>2, <2>3 DEF Climbs
<1>2. ASSUME NEW content \in Content[scenario], NEW n \in 0 .. WordMod - 2
      PROVE  Numbered(content, n) \in WireMessage
  <2>1. Numbered(content, 0) \in WireMessage
    BY RoomAssumption
  <2>2. Numbered(content, n) = [Numbered(content, 0) EXCEPT !.seq_num = n]
    BY DEF Numbered
  <2> QED
    BY <2>1, <2>2 DEF WireMessage
<1>3. MaxCalls[scenario] \in 0 .. CounterMax
  BY RoomAssumption
<1> QED
  BY <1>1, <1>2, <1>3

LEMMA MsgFits ==
  ASSUME FeedSymbols \subseteq Symbol, NEW type \in {QUOTE, UNDEFINED},
         NEW symbol \in FeedSymbols, NEW side \in {BID, ASK},
         NEW price \in 0 .. WordMod - 1, NEW qty \in 0 .. WordMod - 1,
         NEW number \in 0 .. WordMod - 2
  PROVE  Msg(type, symbol, side, price, qty, number) \in WireMessage
<1>1. type \in 0 .. 255 /\ side \in 0 .. 255 /\ symbol \in Symbol
  BY DEF QUOTE, UNDEFINED, BID, ASK
<1> QED
  BY <1>1 DEF Msg, WireMessage

LEMMA SnapshotFits ==
  ASSUME NEW m \in WireMessage, NEW b \in BOOLEAN
  PROVE  [m EXCEPT !.snapshot = b] \in WireMessage
BY DEF WireMessage

(* One step of the walk, and the price it quotes. *)
LEMMA WalkStep ==
  ASSUME NEW g \in Nat, Strolled(bid_price, ask_price, g), NEW symbol \in FeedSymbols,
         NEW side \in {BID, ASK}, NEW drift \in -3 .. 3, Walk(symbol, side, drift)
  PROVE  /\ Strolled(bid_price', ask_price', g + 1)
         /\ LET price == (IF side = BID THEN bid_price[symbol] ELSE ask_price[symbol]) + drift
            IN price \in Int /\ 10000 - 3 * (g + 1) <= price /\ price <= 10030 + 3 * (g + 1)
<1>1. /\ bid_price \in [FeedSymbols -> Int] /\ ask_price \in [FeedSymbols -> Int]
      /\ \A s \in FeedSymbols :
           /\ 10010 - 3 * g <= ask_price[s] /\ ask_price[s] <= 10010 + 3 * g
           /\ 10000 - 3 * g <= bid_price[s] /\ bid_price[s] <= 10030 + 3 * g
  BY DEF Strolled
<1>2. /\ bid_price' \in [FeedSymbols -> Int] /\ ask_price' \in [FeedSymbols -> Int]
      /\ \A s \in FeedSymbols :
           /\ bid_price'[s] = bid_price[s] \/ bid_price'[s] = bid_price[s] + drift
           /\ ask_price'[s] = ask_price[s] \/ ask_price'[s] = ask_price[s] + drift
  BY <1>1 DEF Walk
<1>3. \A s \in FeedSymbols :
        /\ 10010 - 3 * (g + 1) <= ask_price'[s] /\ ask_price'[s] <= 10010 + 3 * (g + 1)
        /\ 10000 - 3 * (g + 1) <= bid_price'[s] /\ bid_price'[s] <= 10030 + 3 * (g + 1)
  BY <1>1, <1>2
<1> QED
  BY <1>1, <1>2, <1>3 DEF Strolled

(* What a step of one frame of a scenario of the generator does. *)
Ready == GenInv /\ scenario \in Scenarios \ Traffic /\ generated < Limit

(* A quote fits if its number does. *)
LEMMA QuoteFits ==
  ASSUME Ready, NEW symbol \in FeedSymbols, NEW side \in {BID, ASK},
         NEW drift \in Drift[scenario], NEW qty \in Qty[scenario], NEW number \in Nat,
         number <= 6 * Limit, Walk(symbol, side, drift)
  PROVE  /\ Strolled(bid_price', ask_price', generated + 1)
         /\ \A reserved \in BOOLEAN :
              [Quote(symbol, side, drift, qty, number) EXCEPT !.reserved = reserved]
                \in WireMessage
         /\ Quote(symbol, side, drift, qty, number) \in WireMessage
<1> DEFINE price == (IF side = BID THEN bid_price[symbol] ELSE ask_price[symbol]) + drift
           msg == Quote(symbol, side, drift, qty, number)
<1>1. /\ Limit \in Nat /\ WordMod \in Nat
      /\ 3 * Limit <= 10000 /\ 10030 + 3 * Limit < WordMod /\ 6 * Limit + 2 <= WordMod
      /\ Drift[scenario] \subseteq -3 .. 3 /\ Qty[scenario] \subseteq 1 .. 200
  BY RoomFacts DEF Ready
<1>2. generated \in Nat /\ generated + 1 <= Limit /\ Strolled(bid_price, ask_price, generated)
  BY <1>1 DEF Ready, GenInv
<1>3. drift \in -3 .. 3 /\ qty \in 1 .. 200
  BY <1>1
<1>4. /\ Strolled(bid_price', ask_price', generated + 1)
      /\ price \in Int /\ 10000 - 3 * (generated + 1) <= price
      /\ price <= 10030 + 3 * (generated + 1)
  BY <1>2, <1>3, WalkStep
<1>5. msg = Msg(QUOTE, symbol, side, price, qty, number)
  BY DEF Quote
<1> HIDE DEF price
<1>6. price \in 0 .. WordMod - 1
  BY <1>1, <1>2, <1>4
<1>7. qty \in 0 .. WordMod - 1 /\ number \in 0 .. WordMod - 2
  BY <1>1, <1>3
<1>8. FeedSymbols \subseteq Symbol
  BY RoomAssumption
<1>9. Msg(QUOTE, symbol, side, price, qty, number) \in WireMessage
  BY <1>6, <1>7, <1>8, MsgFits
<1>10. \A reserved \in BOOLEAN : [msg EXCEPT !.reserved = reserved] \in WireMessage
  BY <1>5, <1>9 DEF WireMessage
<1> QED
  BY <1>4, <1>5, <1>9, <1>10

(* A frame yielded keeps the invariant if its parts do. *)
Sound(messages, n) ==
  /\ n \in Nat \ {0} /\ generated + n <= Limit
  /\ messages \in Seq(WireMessage)
  /\ Strolled(bid_price', ask_price', generated + n)
  /\ seq' \in Nat /\ seq <= seq' /\ seq' <= seq + 6 * n

Produced == GenInv' /\ yielded' # NoFrame

LEMMA YieldKeeps ==
  ASSUME Ready, NEW messages, NEW n, Sound(messages, n),
         NEW ragged \in BOOLEAN, NEW kind \in {FILLER, FORCED, DUPLICATE},
         NEW symbol \in FeedSymbols, Yield(messages, ragged, kind, symbol, n)
  PROVE  Produced
<1> USE DEF Sound
<1>1. Limit \in Nat /\ Limit' = Limit /\ scenario' = scenario
  BY LimitType DEF Ready, Yield, Limit
<1>2. /\ scenario \in Scenarios /\ generated \in 0 .. Limit
      /\ seq \in 1 .. 1 + 6 * generated
  BY DEF Ready, GenInv
<1>3. generated' = generated + n /\ yielded'.payload.messages = messages
  BY DEF Yield
<1>4. generated' \in 0 .. Limit' /\ seq' \in 1 .. 1 + 6 * generated'
  BY <1>1, <1>2, <1>3
<1>5. GenInv'
  BY <1>1, <1>2, <1>3, <1>4 DEF GenInv
<1>6. yielded' # NoFrame
  <2>1. yielded' \in Frame
    BY DEF Yield, Frame
  <2> QED
    BY <2>1, TriggerAssumption
<1> QED
  BY <1>5, <1>6 DEF Produced

LEMMA OneMessage ==
  ASSUME NEW m \in WireMessage PROVE <<m>> \in Seq(WireMessage)
OBVIOUS

(* The numbers that are left. *)
LEMMA ReadyFacts ==
  ASSUME Ready
  PROVE  /\ Limit \in Nat /\ generated \in Nat /\ generated + 1 <= Limit
         /\ seq \in Nat \ {0} /\ seq <= 1 + 6 * generated
         /\ seq + 5 <= 6 * Limit
<1>1. Limit \in Nat
  BY LimitType DEF Ready
<1> QED
  BY <1>1 DEF Ready, GenInv

LEMMA FreshKeeps ==
  ASSUME Ready, NEW kind \in {FILLER, FORCED, DUPLICATE}, Fresh(kind) PROVE Produced
<1>1. PICK symbol \in FeedSymbols, side \in {BID, ASK},
          drift \in Drift[scenario], qty \in Qty[scenario] :
        /\ Walk(symbol, side, drift)
        /\ seq' = seq + 1
        /\ Yield(<<Quote(symbol, side, drift, qty, seq)>>, FALSE, kind, symbol, 1)
  BY DEF Fresh
<1>2. seq \in Nat /\ seq <= 6 * Limit /\ generated + 1 <= Limit
  BY ReadyFacts
<1>3. /\ Strolled(bid_price', ask_price', generated + 1)
      /\ Quote(symbol, side, drift, qty, seq) \in WireMessage
  BY <1>1, <1>2, QuoteFits
<1>4. <<Quote(symbol, side, drift, qty, seq)>> \in Seq(WireMessage)
  BY <1>3, OneMessage
<1>5. seq' \in Nat /\ seq <= seq' /\ seq' <= seq + 6 * 1
  BY <1>1, <1>2
<1>6. Sound(<<Quote(symbol, side, drift, qty, seq)>>, 1)
  BY <1>2, <1>3, <1>4, <1>5 DEF Sound
<1> QED
  BY <1>1, <1>6, YieldKeeps

(* Where a bid may be forced to. *)
Near(price) == 10000 - 3 * generated <= price /\ price <= 10030 + 3 * generated

LEMMA ForcedFits ==
  ASSUME Ready, NEW symbol \in FeedSymbols, NEW price \in Int, NEW qty \in 1 .. 500,
         Near(price)
  PROVE  Msg(QUOTE, symbol, BID, price, qty, seq) \in WireMessage
<1>1. /\ Limit \in Nat /\ WordMod \in Nat
      /\ 3 * Limit <= 10000 /\ 10030 + 3 * Limit < WordMod /\ 6 * Limit + 2 <= WordMod
  BY RoomFacts DEF Ready
<1>2. /\ seq \in Nat \ {0} /\ seq <= 6 * Limit
      /\ generated \in Nat /\ generated + 1 <= Limit
  BY ReadyFacts
<1>3. /\ price \in 0 .. WordMod - 1 /\ qty \in 0 .. WordMod - 1 /\ seq \in 0 .. WordMod - 2
  BY <1>1, <1>2 DEF Near
<1>4. FeedSymbols \subseteq Symbol
  BY RoomAssumption
<1> QED
  BY <1>3, <1>4, MsgFits

LEMMA ForcedKeeps ==
  ASSUME Ready, NEW symbol \in FeedSymbols, NEW price \in Int, NEW qty \in 1 .. 500,
         Near(price), ForcedBid(symbol, price, qty)
  PROVE  Produced
<1>1. /\ bid_price' = [bid_price EXCEPT ![symbol] = price] /\ ask_price' = ask_price
      /\ seq' = seq + 1
      /\ Yield(<<Msg(QUOTE, symbol, BID, price, qty, seq)>>, FALSE, FORCED, symbol, 1)
  BY DEF ForcedBid
<1>2. /\ seq \in Nat \ {0} /\ seq <= 6 * Limit
      /\ generated \in Nat /\ generated + 1 <= Limit
  BY ReadyFacts
<1>3. Strolled(bid_price', ask_price', generated + 1)
  <2>1. Strolled(bid_price, ask_price, generated)
    BY DEF Ready, GenInv
  <2> QED
    BY <1>1, <1>2, <2>1 DEF Strolled, Near
<1>4. Msg(QUOTE, symbol, BID, price, qty, seq) \in WireMessage
  BY ForcedFits
<1>5. <<Msg(QUOTE, symbol, BID, price, qty, seq)>> \in Seq(WireMessage)
  BY <1>4, OneMessage
<1>6. seq' \in Nat /\ seq <= seq' /\ seq' <= seq + 6 * 1
  BY <1>1, <1>2
<1>7. Sound(<<Msg(QUOTE, symbol, BID, price, qty, seq)>>, 1)
  BY <1>2, <1>3, <1>5, <1>6 DEF Sound
<1> QED
  BY <1>1, <1>7, YieldKeeps

(* A quote of the walk, with a number that is left, keeps the invariant    *)
(* however it is damaged.                                                  *)
Onward(symbol, side, drift, qty, number) ==
  /\ symbol \in FeedSymbols /\ side \in {BID, ASK}
  /\ drift \in Drift[scenario] /\ qty \in Qty[scenario]
  /\ number \in Nat /\ number <= seq + 5
  /\ Walk(symbol, side, drift)
  /\ seq' \in Nat /\ seq <= seq' /\ seq' <= seq + 6

LEMMA QuotedSound ==
  ASSUME Ready, NEW symbol, NEW side, NEW drift, NEW qty, NEW number,
         Onward(symbol, side, drift, qty, number), NEW reserved \in BOOLEAN
  PROVE  /\ Sound(<<[Quote(symbol, side, drift, qty, number)
                       EXCEPT !.reserved = reserved]>>, 1)
         /\ Sound(<<Quote(symbol, side, drift, qty, number)>>, 1)
         /\ Sound(<<>>, 1)
<1> DEFINE msg == Quote(symbol, side, drift, qty, number)
<1>1. generated + 1 <= Limit /\ seq \in Nat /\ seq + 5 <= 6 * Limit /\ Limit \in Nat
  BY ReadyFacts
<1>2. /\ symbol \in FeedSymbols /\ side \in {BID, ASK}
      /\ drift \in Drift[scenario] /\ qty \in Qty[scenario]
      /\ number \in Nat /\ number <= seq + 5
      /\ Walk(symbol, side, drift)
      /\ seq' \in Nat /\ seq <= seq' /\ seq' <= seq + 6
  BY DEF Onward
<1>3. number <= 6 * Limit
  BY <1>1, <1>2
<1>4. /\ Strolled(bid_price', ask_price', generated + 1)
      /\ [msg EXCEPT !.reserved = reserved] \in WireMessage
      /\ msg \in WireMessage
  BY <1>2, <1>3, QuoteFits
<1> HIDE DEF msg
<1>5. /\ <<[msg EXCEPT !.reserved = reserved]>> \in Seq(WireMessage)
      /\ <<msg>> \in Seq(WireMessage) /\ <<>> \in Seq(WireMessage)
  BY <1>4, OneMessage
<1>6. seq' <= seq + 6 * 1
  BY <1>2
<1>7. /\ Sound(<<[msg EXCEPT !.reserved = reserved]>>, 1)
      /\ Sound(<<msg>>, 1) /\ Sound(<<>>, 1)
  BY <1>1, <1>2, <1>4, <1>5, <1>6 DEF Sound
<1> QED
  BY <1>7 DEF msg

LEMMA GapsKeeps ==
  ASSUME Ready, Gaps PROVE Produced
<1>1. CASE generated = 0 \/ generated % 4 # 0
  BY <1>1, FreshKeeps DEF Gaps
<1>2. CASE ~(generated = 0 \/ generated % 4 # 0)
  <2>1. PICK symbol \in FeedSymbols, side \in {BID, ASK},
             drift \in Drift[scenario], qty \in Qty[scenario] :
            /\ Walk(symbol, side, drift)
            /\ IF generated % 8 = 0
               THEN \E jump \in Jump :
                      /\ seq' = seq + jump + 1
                      /\ Yield(<<Quote(symbol, side, drift, qty, seq + jump)>>,
                               FALSE, FILLER, symbol, 1)
               ELSE \E back \in Back :
                      /\ Yield(<<Quote(symbol, side, drift, qty, Older(back))>>, FALSE,
                               DUPLICATE, symbol, 1)
                      /\ UNCHANGED seq
    BY <1>2 DEF Gaps
  <2>2. seq \in Nat \ {0}
    BY ReadyFacts
  <2>3. ASSUME NEW jump \in Jump, seq' = seq + jump + 1,
               Yield(<<Quote(symbol, side, drift, qty, seq + jump)>>, FALSE, FILLER, symbol, 1)
        PROVE  Produced
    <3>1. jump \in 2 .. 5
      BY FeedGenAssumption
    <3>2. Onward(symbol, side, drift, qty, seq + jump)
      BY <2>1, <2>2, <2>3, <3>1 DEF Onward
    <3> QED
      BY <2>3, <3>2, QuotedSound, YieldKeeps
  <2>4. ASSUME NEW back \in Back, UNCHANGED seq,
               Yield(<<Quote(symbol, side, drift, qty, Older(back))>>, FALSE, DUPLICATE,
                     symbol, 1)
        PROVE  Produced
    <3>1. back \in 1 .. 3
      BY FeedGenAssumption
    <3>2. Onward(symbol, side, drift, qty, Older(back))
      BY <2>1, <2>2, <2>4, <3>1 DEF Onward, Older
    <3> QED
      BY <2>4, <3>2, QuotedSound, YieldKeeps
  <2> QED
    BY <2>1, <2>3, <2>4
<1> QED
  BY <1>1, <1>2

LEMMA MalformedKeeps ==
  ASSUME Ready, Malformed PROVE Produced
<1>1. seq' = seq + 1
  BY DEF Malformed
<1>2. /\ seq \in Nat \ {0} /\ seq <= 6 * Limit /\ Limit \in Nat
      /\ generated \in Nat /\ generated + 1 <= Limit
  BY ReadyFacts
<1>3. ASSUME NEW symbol \in FeedSymbols, NEW side \in {BID, ASK},
             NEW drift \in Drift[scenario], NEW qty \in Qty[scenario],
             Walk(symbol, side, drift)
      PROVE  Onward(symbol, side, drift, qty, seq)
  BY <1>1, <1>2, <1>3 DEF Onward
<1>4. CASE generated % 3 = 0
  <2>1. PICK symbol \in FeedSymbols, drift \in Drift[scenario], qty \in Qty[scenario] :
          Walk(symbol, BID, drift) /\ Yield(<<>>, TRUE, FILLER, symbol, 1)
    <3>1. ~(generated % 3 = 1)
      BY <1>4
    <3> QED
      BY <1>4, <3>1, Zenon DEF Malformed
  <2> QED
    BY <1>3, <2>1, QuotedSound, YieldKeeps
<1>5. CASE generated % 3 = 1
  <2>1. PICK symbol \in FeedSymbols :
          /\ Yield(<<Msg(UNDEFINED, symbol, BID, 1, 1, seq)>>, FALSE, FILLER, symbol, 1)
          /\ UNCHANGED <<bid_price, ask_price>>
    <3>1. ~(generated % 3 = 0)
      BY <1>5
    <3> QED
      BY <1>5, <3>1, Zenon DEF Malformed
  <2>2. Strolled(bid_price', ask_price', generated + 1)
    <3>1. Strolled(bid_price, ask_price, generated)
      BY DEF Ready, GenInv
    <3> QED
      BY <1>2, <2>1, <3>1 DEF Strolled
  <2>3. <<Msg(UNDEFINED, symbol, BID, 1, 1, seq)>> \in Seq(WireMessage)
    <3>1. 1 \in 0 .. WordMod - 1 /\ seq \in 0 .. WordMod - 2
      BY <1>2, RoomFacts DEF Ready
    <3>2. FeedSymbols \subseteq Symbol
      BY RoomAssumption
    <3> QED
      BY <3>1, <3>2, MsgFits, OneMessage
  <2>4. Sound(<<Msg(UNDEFINED, symbol, BID, 1, 1, seq)>>, 1)
    BY <1>1, <1>2, <2>2, <2>3 DEF Sound
  <2> QED
    BY <2>1, <2>4, YieldKeeps
<1>6. CASE generated % 3 # 0 /\ generated % 3 # 1
  <2>1. PICK symbol \in FeedSymbols, drift \in Drift[scenario], qty \in Qty[scenario] :
          /\ Walk(symbol, ASK, drift)
          /\ Yield(<<[Quote(symbol, ASK, drift, qty, seq) EXCEPT !.reserved = TRUE]>>,
                   FALSE, FILLER, symbol, 1)
    BY <1>6 DEF Malformed
  <2> QED
    BY <1>3, <2>1, QuotedSound, YieldKeeps
<1> QED
  BY <1>4, <1>5, <1>6

LEMMA CrossedKeeps ==
  ASSUME Ready, Crossed PROVE Produced
<1>1. CASE generated % 3 = 0
  <2>1. PICK symbol \in FeedSymbols, by \in CrossBy, qty \in Qty[scenario] \cap 1 .. 100 :
          ForcedBid(symbol, ask_price[symbol] + by, qty)
    BY <1>1 DEF Crossed
  <2>2. by \in 1 .. 20 /\ generated \in Nat
    BY FeedGenAssumption, ReadyFacts
  <2>3. ask_price[symbol] + by \in Int /\ Near(ask_price[symbol] + by)
    BY <2>2 DEF Ready, GenInv, Strolled, Near
  <2>4. qty \in 1 .. 500
    OBVIOUS
  <2> QED
    BY <2>1, <2>3, <2>4, ForcedKeeps
<1>2. CASE generated % 3 # 0
  BY <1>2, FreshKeeps DEF Crossed
<1> QED
  BY <1>1, <1>2

LEMMA TriggerKeeps ==
  ASSUME Ready, Trigger PROVE Produced
<1>1. CASE generated % 3 = 0
  <2>1. PICK symbol \in FeedSymbols, skew \in Skew :
          ForcedBid(symbol, ask_price[symbol] - skew, SKEWED_QTY)
    BY <1>1 DEF Trigger
  <2>2. skew \in 5 .. 10 /\ generated \in Nat
    BY FeedGenAssumption, ReadyFacts
  <2>3. ask_price[symbol] - skew \in Int /\ Near(ask_price[symbol] - skew)
    BY <2>2 DEF Ready, GenInv, Strolled, Near
  <2>4. SKEWED_QTY \in 1 .. 500
    BY DEF SKEWED_QTY
  <2> QED
    BY <2>1, <2>3, <2>4, ForcedKeeps
<1>2. CASE generated % 3 # 0
  BY <1>2, FreshKeeps DEF Trigger
<1> QED
  BY <1>1, <1>2

(* Some of the first k steps of a burst move a price by at most 3 * k.     *)
LEMMA BurstMoves ==
  ASSUME NEW n \in Nat, NEW pick, \A j \in 1 .. n : pick[j].drift \in -3 .. 3,
         NEW k \in 1 .. n, NEW S \in SUBSET (1 .. k)
  PROVE  LET moved == SumFunctionOnSet([j \in 1 .. k |-> pick[j].drift], S)
         IN moved \in Int /\ moved <= 3 * k /\ -(3 * k) <= moved
<1> DEFINE a == [j \in 1 .. k |-> pick[j].drift]
<1>1. IsFiniteSet(1 .. k) /\ Cardinality(1 .. k) = k
  BY FS_Interval
<1>2. IsFiniteSet(S) /\ Cardinality(S) <= k
  BY <1>1, FS_Subset
<1>3. \A j \in S : a[j] \in -3 .. 3
  <2>1. \A j \in S : j \in 1 .. k /\ j \in 1 .. n
    OBVIOUS
  <2> QED
    BY <2>1
<1> HIDE DEF a
<1>4. /\ Sum(a, S) \in Int /\ Cardinality(S) \in Nat
      /\ Sum(a, S) <= 3 * Cardinality(S) /\ -(3 * Cardinality(S)) <= Sum(a, S)
  BY <1>2, <1>3, SumWithin
<1>5. Sum(a, S) \in Int /\ Sum(a, S) <= 3 * k /\ -(3 * k) <= Sum(a, S)
  BY <1>2, <1>4
<1> QED
  BY <1>5 DEF Sum, a

(* A price n messages later. *)
LEMMA StrolledBy ==
  ASSUME NEW g \in Nat, NEW n \in Nat, Strolled(bid_price, ask_price, g),
         NEW bid \in [FeedSymbols -> Int], NEW ask \in [FeedSymbols -> Int],
         \A s \in FeedSymbols : /\ bid_price[s] - 3 * n <= bid[s]
                                /\ bid[s] <= bid_price[s] + 3 * n
                                /\ ask_price[s] - 3 * n <= ask[s]
                                /\ ask[s] <= ask_price[s] + 3 * n
  PROVE  Strolled(bid, ask, g + n)
BY DEF Strolled

LEMMA BurstKeeps ==
  ASSUME Ready, Burst PROVE Produced
<1> DEFINE n == IF Limit - generated < BurstSize THEN Limit - generated ELSE BurstSize
           Side(pick, symbol, side, k) ==
             {j \in 1 .. k : pick[j].symbol = symbol /\ pick[j].side = side}
           moved(pick, symbol, side, k) ==
             SumFunctionOnSet([j \in 1 .. k |-> pick[j].drift], Side(pick, symbol, side, k))
           message(pick, snapshot, k) ==
             [Quote(pick[k].symbol, pick[k].side,
                    moved(pick, pick[k].symbol, pick[k].side, k), pick[k].qty, seq + k - 1)
                EXCEPT !.snapshot = snapshot /\ k = n]
<1>1. scenario = BURST
  BY DEF Burst, Turn
<1>2. /\ Limit \in Nat /\ generated \in Nat /\ generated + 1 <= Limit
      /\ seq \in Nat \ {0} /\ seq <= 1 + 6 * generated
  BY ReadyFacts
<1>3. n \in Nat \ {0} /\ generated + n <= Limit
  BY <1>2, FeedGenAssumption
<1>4. /\ WordMod \in Nat
      /\ 3 * Limit <= 10000 /\ 10030 + 3 * Limit < WordMod /\ 6 * Limit + 2 <= WordMod
  BY RoomFacts DEF Ready
<1>5. Drift[BURST] \subseteq -3 .. 3 /\ Qty[BURST] \subseteq 1 .. 200
  <2>1. Drift[scenario] \subseteq -3 .. 3 /\ Qty[scenario] \subseteq 1 .. 200
    BY RoomFacts DEF Ready
  <2> QED
    BY <1>1, <2>1
<1>6. PICK pick \in [1 .. n -> [symbol : FeedSymbols, side : {BID, ASK},
                                drift : Drift[BURST], qty : Qty[BURST]]],
           snapshot \in BOOLEAN :
        /\ bid_price' = [s \in FeedSymbols |-> bid_price[s] + moved(pick, s, BID, n)]
        /\ ask_price' = [s \in FeedSymbols |-> ask_price[s] + moved(pick, s, ASK, n)]
        /\ seq' = seq + n
        /\ Yield([k \in 1 .. n |-> message(pick, snapshot, k)], FALSE, FILLER,
                 pick[n].symbol, n)
  BY Zenon DEF Burst
<1> HIDE DEF n
<1>7. ASSUME NEW k \in 1 .. n
      PROVE  /\ pick[k].symbol \in FeedSymbols /\ pick[k].side \in {BID, ASK}
             /\ pick[k].drift \in -3 .. 3 /\ pick[k].qty \in 1 .. 200
  <2>1. pick[k] \in [symbol : FeedSymbols, side : {BID, ASK},
                     drift : Drift[BURST], qty : Qty[BURST]]
    BY <1>6
  <2>2. /\ pick[k].symbol \in FeedSymbols /\ pick[k].side \in {BID, ASK}
        /\ pick[k].drift \in Drift[BURST] /\ pick[k].qty \in Qty[BURST]
    BY <2>1
  <2>3. pick[k].drift \in -3 .. 3
    BY <1>5, <2>2, Zenon
  <2>4. pick[k].qty \in 1 .. 200
    BY <1>5, <2>2, Zenon
  <2> QED
    BY <2>2, <2>3, <2>4
<1>8. ASSUME NEW k \in 1 .. n, NEW symbol, NEW side
      PROVE  /\ moved(pick, symbol, side, k) \in Int
             /\ moved(pick, symbol, side, k) <= 3 * k
             /\ -(3 * k) <= moved(pick, symbol, side, k)
  <2>1. Side(pick, symbol, side, k) \in SUBSET (1 .. k)
    OBVIOUS
  <2> HIDE DEF Side
  <2>2. n \in Nat /\ \A j \in 1 .. n : pick[j].drift \in -3 .. 3
    BY <1>3, <1>7
  <2> QED
    BY <2>1, <2>2, BurstMoves
<1> HIDE DEF moved
<1>9. Strolled(bid_price, ask_price, generated)
  BY DEF Ready, GenInv
<1>10. Strolled(bid_price', ask_price', generated + n)
  <2>1. \A s \in FeedSymbols : bid_price[s] \in Int /\ ask_price[s] \in Int
    BY <1>9 DEF Strolled
  <2>2. \A s \in FeedSymbols :
          /\ moved(pick, s, BID, n) \in Int /\ moved(pick, s, BID, n) <= 3 * n
          /\ -(3 * n) <= moved(pick, s, BID, n)
          /\ moved(pick, s, ASK, n) \in Int /\ moved(pick, s, ASK, n) <= 3 * n
          /\ -(3 * n) <= moved(pick, s, ASK, n)
    BY <1>3, <1>8
  <2>3. bid_price' \in [FeedSymbols -> Int] /\ ask_price' \in [FeedSymbols -> Int]
    BY <1>6, <2>1, <2>2
  <2>4. \A s \in FeedSymbols : /\ bid_price[s] - 3 * n <= bid_price'[s]
                               /\ bid_price'[s] <= bid_price[s] + 3 * n
                               /\ ask_price[s] - 3 * n <= ask_price'[s]
                               /\ ask_price'[s] <= ask_price[s] + 3 * n
    BY <1>3, <1>6, <2>1, <2>2
  <2> QED
    BY <1>2, <1>3, <1>9, <2>3, <2>4, StrolledBy
<1>11. ASSUME NEW k \in 1 .. n PROVE message(pick, snapshot, k) \in WireMessage
  <2> DEFINE side == pick[k].side
             symbol == pick[k].symbol
             old == IF side = BID THEN bid_price[symbol] ELSE ask_price[symbol]
             price == old + moved(pick, symbol, side, k)
  <2>1. /\ old \in Int /\ 10000 - 3 * generated <= old /\ old <= 10030 + 3 * generated
    BY <1>2, <1>7, <1>9 DEF Strolled
  <2>2. price \in Int /\ old - 3 * k <= price /\ price <= old + 3 * k
    <3> HIDE DEF old
    <3> QED BY <1>8, <2>1
  <2>3. k \in Nat /\ k <= n /\ n \in Nat
    BY <1>3
  <2> HIDE DEF price, old
  <2>4. price \in 0 .. WordMod - 1
    BY <1>2, <1>3, <1>4, <2>1, <2>2, <2>3
  <2>5. seq + k - 1 \in 0 .. WordMod - 2
    BY <1>2, <1>3, <1>4, <2>3
  <2>6. pick[k].qty \in 0 .. WordMod - 1 /\ symbol \in FeedSymbols /\ side \in {BID, ASK}
    <3>1. 1 .. 200 \subseteq 0 .. WordMod - 1
      <4>1. WordMod \in Nat /\ 200 < WordMod
        BY <1>2, <1>4
      <4> QED
        BY <4>1
    <3> QED
      BY <1>7, <3>1, Zenon
  <2>7. FeedSymbols \subseteq Symbol
    BY RoomAssumption
  <2> HIDE DEF side, symbol
  <2>8. Msg(QUOTE, symbol, side, price, pick[k].qty, seq + k - 1) \in WireMessage
    BY <2>4, <2>5, <2>6, <2>7, MsgFits
  <2>9. message(pick, snapshot, k)
          = [Msg(QUOTE, symbol, side, price, pick[k].qty, seq + k - 1)
               EXCEPT !.snapshot = snapshot /\ k = n]
    BY DEF Quote, price, old, side, symbol
  <2>10. (snapshot /\ k = n) \in BOOLEAN
    OBVIOUS
  <2> HIDE DEF message
  <2> QED
    BY <2>8, <2>9, <2>10, SnapshotFits
<1> HIDE DEF message
<1>12. [k \in 1 .. n |-> message(pick, snapshot, k)] \in Seq(WireMessage)
  BY <1>3, <1>11
<1>13. seq' \in Nat /\ seq <= seq' /\ seq' <= seq + 6 * n
  BY <1>2, <1>3, <1>6
<1>14. Sound([k \in 1 .. n |-> message(pick, snapshot, k)], n)
  BY <1>3, <1>10, <1>12, <1>13 DEF Sound
<1>15. pick[n].symbol \in FeedSymbols
  <2>1. n \in 1 .. n
    BY <1>3
  <2> QED
    BY <1>7, <2>1
<1> QED
  BY <1>6, <1>14, <1>15, YieldKeeps

LEMMA NormalKeeps ==
  ASSUME Ready, Normal PROVE Produced
BY FreshKeeps DEF Normal

LEMMA GenStep ==
  ASSUME scenario \in Scenarios \ Traffic, GenInv, iter_scenario PROVE Produced
<1>1. generated < Limit
  <2>1. CASE Normal BY <2>1 DEF Normal, Turn
  <2>2. CASE Crossed BY <2>2 DEF Crossed, Turn
  <2>3. CASE Gaps BY <2>3 DEF Gaps, Turn
  <2>4. CASE Malformed BY <2>4 DEF Malformed, Turn
  <2>5. CASE Burst BY <2>5 DEF Burst, Turn
  <2>6. CASE Trigger BY <2>6 DEF Trigger, Turn
  <2> QED
    BY <2>1, <2>2, <2>3, <2>4, <2>5, <2>6 DEF iter_scenario
<1>2. Ready
  BY <1>1 DEF Ready
<1> QED
  BY <1>2, NormalKeeps, CrossedKeeps, GapsKeeps, MalformedKeeps, BurstKeeps, TriggerKeeps
  DEF iter_scenario

-----------------------------------------------------------------------------
(* Traffic's numbers. *)

Frames == counters["cnt_frames_rx"]

(* After f frames no number is further than f steps of d away. *)
Reach(n, d, f) == n <= d * f + 1

TrafficInv ==
  /\ yielded = NoFrame
  /\ Frames <= MaxCalls[scenario]
  /\ \A d : Climbs(scenario, d) =>
       /\ \A n \in heard : Reach(n, d, Frames)
       /\ \A i \in DOMAIN pending : Reach(pending[i].seq_num, d, Frames)

LEMMA ReachGrows ==
  ASSUME NEW d \in Nat, NEW f \in Nat, NEW n \in Int, Reach(n, d, f)
  PROVE  Reach(n, d, f + 1)
<1>1. d * f \in Nat /\ d * (f + 1) = d * f + d
  OBVIOUS
<1> QED
  BY <1>1 DEF Reach

LEMMA ReachSteps ==
  ASSUME NEW d \in Nat, NEW f \in Nat, NEW n \in Int, NEW step \in Int, step <= d,
         Reach(n, d, f)
  PROVE  Larger(1, n + step) \in Nat /\ Reach(Larger(1, n + step), d, f + 1)
<1>1. d * f \in Nat /\ d * (f + 1) = d * f + d
  OBVIOUS
<1>2. n <= d * f + 1
  BY DEF Reach
<1> DEFINE r == d * f
<1>3. n + step <= r + d + 1 /\ 1 <= r + d + 1
  BY <1>1, <1>2
<1> QED
  BY <1>1, <1>3 DEF Reach, Larger

LEMMA ReachFits ==
  ASSUME NEW d \in Nat, NEW f \in Nat, NEW m \in Nat, f <= m, d * m + 3 <= WordMod,
         NEW n \in Nat, Reach(n, d, f)
  PROVE  n \in 0 .. WordMod - 2
<1>1. d * m \in Nat /\ d * f \in Nat /\ d * f <= d * m
  <2>1. PICK k \in Nat : m = f + k
    <3>1. m = f + (m - f) /\ m - f \in Nat
      OBVIOUS
    <3> QED
      BY <3>1
  <2>2. d * m = d * f + d * k /\ d * k \in Nat /\ d * f \in Nat
    BY <2>1
  <2> QED
    BY <2>2
<1>2. n <= d * f + 1
  BY DEF Reach
<1> QED
  BY <1>1, <1>2, BenchAssumption

(* The frames the bench counts. *)
LEMMA FrameCounted ==
  ASSUME GoldenTypeOK, NEW payload, NEW cycle, NEW fcs_ok,
         process_frame(payload, cycle, fcs_ok)
  PROVE  Frames' = Lesser(CounterMax, Frames + 1)
<1> DEFINE hits == {"cnt_frames_rx"}
                     \cup (IF ~fcs_ok THEN {"err_fcs"}
                           ELSE IF BadLength(payload) THEN {"err_frame_len"} ELSE {})
<1>1. Increment(hits, {}, 0)
  BY DEF process_frame
<1>2. "cnt_frames_rx" \in hits
  OBVIOUS
<1>3. "cnt_frames_rx" \in Counter
  BY DEF Counter
<1> HIDE DEF hits
<1>4. Frames' = Lesser(CounterMax, Frames + 1 + 0 + 0)
  BY <1>1, <1>2, <1>3, IncrementType DEF One, GoldenTypeOK, Frames
<1>5. Frames \in Nat
  BY <1>3 DEF GoldenTypeOK, Frames
<1> QED
  BY <1>4, <1>5

LEMMA FramesKept ==
  ASSUME GoldenTypeOK, process_message PROVE Frames' = Frames
<1>1. PICK hits, again :
        /\ Increment(hits, again, Gap(Head(pending)))
        /\ "cnt_frames_rx" \notin hits /\ again \subseteq Refusals(Gate)
  BY SignalCounts
<1>2. "cnt_frames_rx" \notin again
  BY <1>1 DEF Refusals, Gate, GATE_NAME
<1>3. Gap(Head(pending)) \in Nat
  BY InHand DEF process_message
<1>4. "cnt_frames_rx" \in Counter /\ "cnt_frames_rx" # "cnt_seq_gap"
  BY DEF Counter
<1>5. Frames' = Lesser(CounterMax, Frames + 0 + 0 + 0)
  <2>1. /\ counters \in [Counter -> 0 .. CounterMax]
        /\ Increment(hits, again, Gap(Head(pending)))
    BY <1>1 DEF GoldenTypeOK
  <2>2. \A c \in Counter :
          counters'[c] =
            Lesser(CounterMax, counters[c] + One(c \in hits) + One(c \in again)
                                 + (IF c = "cnt_seq_gap" THEN Gap(Head(pending)) ELSE 0))
    BY <1>3, <2>1, IncrementType
  <2> QED
    BY <1>1, <1>2, <1>4, <2>2 DEF One, Frames
<1>6. Frames \in 0 .. CounterMax
  BY <1>4 DEF GoldenTypeOK, Frames
<1> QED
  BY <1>5, <1>6, GoldenAssumption DEF Lesser

FitInv ==
  /\ scenario \in Scenarios
  /\ Fits
  /\ scenario \in Traffic => TrafficInv
  /\ scenario \notin Traffic => GenInv

LEMMA GenKept ==
  ASSUME GenInv, UNCHANGED <<scenario, generated, seq, bid_price, ask_price>>,
         yielded' = yielded \/ yielded' = NoFrame
  PROVE  GenInv'
BY DEF GenInv, Limit, Strolled

LEMMA FrameFits ==
  ASSUME Fits, NEW payload, NEW cycle, NEW fcs_ok, payload.messages \in Seq(WireMessage),
         process_frame(payload, cycle, fcs_ok)
  PROVE  Fits'
<1>1. pending' = payload.messages \/ pending' = <<>>
  BY DEF process_frame
<1>2. pending' \in Seq(WireMessage)
  <2>1. <<>> \in Seq(WireMessage)
    OBVIOUS
  <2> QED
    BY <1>1, <2>1, Zenon
<1> QED
  BY <1>2 DEF Fits, WireMessage

(* The generator makes no traffic. *)
LEMMA GenerateChosen ==
  ASSUME FitInv, Generate PROVE scenario \in Scenarios \ Traffic
<1>1. iter_scenario
  BY DEF Generate
<1>2. scenario \in Generated
  <2>1. CASE Normal BY <2>1 DEF Normal, Turn, Generated
  <2>2. CASE Crossed BY <2>2 DEF Crossed, Turn, Generated
  <2>3. CASE Gaps BY <2>3 DEF Gaps, Turn, Generated
  <2>4. CASE Malformed BY <2>4 DEF Malformed, Turn, Generated
  <2>5. CASE Burst BY <2>5 DEF Burst, Turn, Generated
  <2>6. CASE Trigger BY <2>6 DEF Trigger, Turn, Generated
  <2> QED
    BY <1>1, <2>1, <2>2, <2>3, <2>4, <2>5, <2>6 DEF iter_scenario
<1> QED
  BY <1>2, RoomAssumption DEF Generated, FitInv

LEMMA GenerateFits ==
  ASSUME FitInv, Generate PROVE FitInv'
<1>1. iter_scenario /\ UNCHANGED goldenVars
  BY DEF Generate
<1>2. scenario \in Scenarios \ Traffic
  BY GenerateChosen
<1>3. GenInv'
  BY <1>1, <1>2, GenStep DEF FitInv, Produced
<1>4. Fits'
  BY <1>1 DEF FitInv, Fits, goldenVars, WireMessage
<1>5. scenario' = scenario
  BY ScenarioKept DEF Next
<1> QED
  BY <1>2, <1>3, <1>4, <1>5 DEF FitInv

LEMMA FeedFits ==
  ASSUME FitInv, Feed PROVE FitInv'
<1>1. /\ yielded # NoFrame /\ yielded' = NoFrame
      /\ UNCHANGED <<scenario, generated, seq, bid_price, ask_price>>
  BY DEF Feed, Take, stateVars
<1>2. GenInv /\ scenario \notin Traffic
  BY <1>1 DEF FitInv, TrafficInv
<1>3. yielded.payload.messages \in Seq(WireMessage)
  BY <1>1, <1>2 DEF GenInv
<1>4. Fits'
  BY <1>3, FrameFits DEF Feed, FitInv
<1>5. GenInv'
  BY <1>1, <1>2, GenKept
<1> QED
  BY <1>1, <1>2, <1>4, <1>5 DEF FitInv

LEMMA MessageFits ==
  ASSUME FitInv, GoldenTypeOK, HeardInv, ProcessNext PROVE FitInv'
<1> DEFINE msg == Head(pending)
<1>1. /\ process_message /\ SequenceHistory(msg)
      /\ UNCHANGED <<scenario, generated, seq, bid_price, ask_price, yielded>>
  BY DEF ProcessNext, genVars, stateVars
<1>2. pending # <<>> /\ pending' = Tail(pending) /\ pending \in Seq(WireMessage)
  BY <1>1 DEF process_message, FitInv, Fits
<1>3. Fits'
  <2>1. Tail(pending) \in Seq(WireMessage)
    BY <1>2, HeadTailProperties
  <2> QED
    BY <1>2, <2>1 DEF Fits, WireMessage
<1>4. ASSUME scenario \in Traffic PROVE TrafficInv'
  <2>1. TrafficInv /\ Frames' = Frames
    BY <1>1, <1>4, FramesKept DEF FitInv
  <2>2. heard' \subseteq heard \cup {msg.seq_num}
    BY <1>1 DEF SequenceHistory
  <2>3. 1 \in DOMAIN pending /\ msg = pending[1]
    BY <1>2
  <2>4. \A i \in DOMAIN pending' : i + 1 \in DOMAIN pending /\ pending'[i] = pending[i + 1]
    BY <1>2
  <2>5. ASSUME NEW d, Climbs(scenario, d)
        PROVE  /\ \A n \in heard' : Reach(n, d, Frames)
               /\ \A i \in DOMAIN pending' : Reach(pending'[i].seq_num, d, Frames)
    <3>1. /\ \A n \in heard : Reach(n, d, Frames)
          /\ \A i \in DOMAIN pending : Reach(pending[i].seq_num, d, Frames)
      BY <2>1, <2>5 DEF TrafficInv
    <3> QED
      BY <2>2, <2>3, <2>4, <3>1
  <2>6. yielded' = NoFrame /\ Frames <= MaxCalls[scenario]
    BY <1>1, <2>1 DEF TrafficInv
  <2> QED
    BY <1>1, <2>1, <2>5, <2>6 DEF TrafficInv
<1>5. ASSUME GenInv PROVE GenInv'
  BY <1>1, <1>5, GenKept
<1> QED
  BY <1>1, <1>3, <1>4, <1>5 DEF FitInv

LEMMA ReachNone ==
  ASSUME NEW d \in Nat, NEW f \in Nat PROVE Reach(-1, d, f)
<1>1. d * f \in Nat
  OBVIOUS
<1> QED
  BY <1>1 DEF Reach

Reached(messages) ==
  \A d : Climbs(scenario, d) =>
    \A i \in DOMAIN messages : Reach(messages[i].seq_num, d, Frames + 1)

LEMMA CallFits ==
  ASSUME FitInv, GoldenTypeOK, HeardInv,
         NEW messages, NEW ragged, NEW fcs_ok, CallFrame(messages, ragged, fcs_ok),
         pending' \in Seq(WireMessage), Reached(pending')
  PROVE  FitInv'
<1>1. /\ scenario \in Traffic /\ Frames < MaxCalls[scenario]
      /\ UNCHANGED <<scenario, yielded, heard>>
  BY DEF CallFrame, Frames, genVars
<1>2. scenario \in Scenarios /\ TrafficInv
  BY <1>1 DEF FitInv
<1>3. MaxCalls[scenario] \in 0 .. CounterMax
  BY <1>1, <1>2, TrafficFacts
<1>4. Frames \in Nat
  <2>1. "cnt_frames_rx" \in Counter
    BY DEF Counter
  <2> QED
    BY <2>1 DEF GoldenTypeOK, Frames
<1>5. Frames' = Frames + 1
  <2>1. Frames' = Lesser(CounterMax, Frames + 1)
    BY FrameCounted DEF CallFrame
  <2> QED
    BY <1>1, <1>3, <1>4, <2>1, GoldenAssumption DEF Lesser
<1>6. ASSUME NEW d, Climbs(scenario, d)
      PROVE  /\ \A n \in heard : Reach(n, d, Frames + 1)
             /\ \A i \in DOMAIN pending' : Reach(pending'[i].seq_num, d, Frames + 1)
  <2>1. \A n \in heard : n \in Int /\ Reach(n, d, Frames)
    BY <1>2, <1>6 DEF TrafficInv, HeardInv
  <2>2. d \in Nat
    BY <1>6 DEF Climbs
  <2>3. \A n \in heard : Reach(n, d, Frames + 1)
    BY <1>4, <2>1, <2>2, ReachGrows
  <2>4. \A i \in DOMAIN pending' : Reach(pending'[i].seq_num, d, Frames + 1)
    BY <1>6 DEF Reached
  <2> QED
    BY <2>3, <2>4
<1>7. yielded' = NoFrame
  BY <1>1, <1>2 DEF TrafficInv
<1>8. Frames' <= MaxCalls[scenario]'
  BY <1>1, <1>3, <1>4, <1>5
<1>9. TrafficInv'
  BY <1>1, <1>5, <1>6, <1>7, <1>8 DEF TrafficInv
<1>10. Fits'
  BY DEF Fits, WireMessage
<1> QED
  BY <1>1, <1>2, <1>9, <1>10 DEF FitInv

LEMMA AnyMessageFits ==
  ASSUME FitInv, GoldenTypeOK, HeardInv, AnyMessage PROVE FitInv'
<1>1. PICK content \in Content[scenario], step \in Steps[scenario] :
        CallFrame(<<Numbered(content, Larger(1, Highest + step))>>, FALSE, TRUE)
  BY DEF AnyMessage
<1> DEFINE n == Larger(1, Highest + step)
           msg == Numbered(content, n)
<1>2. scenario \in Traffic /\ scenario \in Scenarios /\ TrafficInv
  BY DEF AnyMessage, FitInv
<1>3. /\ MaxCalls[scenario] \in Nat /\ \E d : Climbs(scenario, d)
      /\ \A k \in 0 .. WordMod - 2 : Numbered(content, k) \in WireMessage
  BY <1>2, TrafficFacts, GoldenAssumption
<1>4. Frames \in Nat /\ Frames + 1 <= MaxCalls[scenario]
  <2>1. "cnt_frames_rx" \in Counter
    BY DEF Counter
  <2>2. Frames \in Nat
    BY <2>1 DEF GoldenTypeOK, Frames
  <2>3. Frames < MaxCalls[scenario]
    BY <1>1 DEF CallFrame, Frames
  <2> QED
    BY <1>3, <2>2, <2>3
<1>5. ASSUME NEW d, Climbs(scenario, d)
      PROVE  n \in Nat /\ Reach(n, d, Frames + 1)
  <2>1. d \in Nat /\ step \in Int /\ step <= d
    BY <1>5 DEF Climbs
  <2>2. Highest \in Int /\ Reach(Highest, d, Frames)
    <3>1. CASE heard = {}
      <4>1. Highest = -1
        BY <3>1, HighestIs
      <4> QED
        BY <1>4, <2>1, <4>1, ReachNone
    <3>2. CASE heard # {}
      <4>1. Highest \in heard /\ Highest \in Int
        BY <3>2, HighestIs
      <4> QED
        BY <1>2, <1>5, <4>1 DEF TrafficInv
    <3> QED
      BY <3>1, <3>2
  <2> QED
    BY <1>4, <2>1, <2>2, ReachSteps
<1> HIDE DEF n
<1>6. n \in 0 .. WordMod - 2
  <2>1. PICK d : Climbs(scenario, d)
    BY <1>3
  <2>2. n \in Nat /\ Reach(n, d, Frames + 1)
    BY <1>5, <2>1
  <2>3. d \in Nat /\ d * MaxCalls[scenario] + 3 <= WordMod
    BY <2>1 DEF Climbs
  <2>4. Frames + 1 \in Nat
    BY <1>4
  <2> QED
    BY <1>3, <1>4, <2>2, <2>3, <2>4, ReachFits
<1>7. msg \in WireMessage /\ msg.seq_num = n
  BY <1>3, <1>6 DEF Numbered
<1> HIDE DEF msg
<1>8. pending' = <<msg>> \/ pending' = <<>>
  BY <1>1 DEF CallFrame, process_frame, n, msg
<1>9. pending' \in Seq(WireMessage)
  <2>1. <<msg>> \in Seq(WireMessage) /\ <<>> \in Seq(WireMessage)
    BY <1>7, OneMessage
  <2> QED
    BY <1>8, <2>1, Zenon
<1>10. Reached(pending')
  <2>1. \A i \in DOMAIN pending' : pending'[i].seq_num = n
    BY <1>7, <1>8
  <2> QED
    BY <1>5, <2>1 DEF Reached
<1> QED
  BY <1>1, <1>9, <1>10, CallFits

LEMMA BadFrameFits ==
  ASSUME FitInv, GoldenTypeOK, HeardInv, AnyBadFrame PROVE FitInv'
<1>1. ASSUME NEW messages, NEW ragged, NEW fcs_ok, CallFrame(messages, ragged, fcs_ok),
             messages = <<>> \/ ragged \/ ~fcs_ok
      PROVE  FitInv'
  <2>1. pending' = <<>>
    <3>1. CASE messages = <<>>
      BY <1>1, <3>1 DEF CallFrame, process_frame
    <3>2. CASE ragged \/ ~fcs_ok
      BY <1>1, <3>2 DEF CallFrame, process_frame, BadLength
    <3> QED
      BY <1>1, <3>1, <3>2
  <2>2. pending' \in Seq(WireMessage)
    BY <2>1
  <2>3. Reached(pending')
    BY <2>1 DEF Reached
  <2> QED
    BY <1>1, <2>2, <2>3, CallFits
<1>2. PICK messages :
        \/ CallFrame(<<>>, FALSE, TRUE)
        \/ CallFrame(messages, TRUE, TRUE)
        \/ CallFrame(messages, FALSE, FALSE)
  BY DEF AnyBadFrame
<1> QED
  BY <1>1, <1>2

(* Whatever is done besides. *)
LEMMA OtherFits ==
  ASSUME FitInv,
         UNCHANGED <<scenario, generated, seq, bid_price, ask_price, yielded,
                     pending, heard, counters>>
  PROVE  FitInv'
<1>1. Fits'
  BY DEF FitInv, Fits, WireMessage
<1>2. GenInv => GenInv'
  BY GenKept
<1>3. TrafficInv => TrafficInv'
  BY DEF TrafficInv, Frames
<1> QED
  BY <1>1, <1>2, <1>3 DEF FitInv

LEMMA FitStep ==
  ASSUME FitInv, GoldenTypeOK, HeardInv, [Next]_vars PROVE FitInv'
<1>1. CASE Generate
  BY <1>1, GenerateFits
<1>2. CASE Feed
  BY <1>2, FeedFits
<1>3. CASE AnyMessage
  BY <1>3, AnyMessageFits
<1>4. CASE AnyBadFrame
  BY <1>4, BadFrameFits
<1>5. CASE ProcessNext
  BY <1>5, MessageFits
<1>6. CASE ControlCalls
  BY <1>6, OtherFits DEF ControlCalls, assert_kill_switch, clear_kill_switch,
     clear_seq_gap, ControlCall, genVars, stateVars
<1>7. CASE Stray \/ Receiver \/ UNCHANGED vars
  BY <1>7, OtherFits DEF Stray, Receiver, vars, genVars, stateVars, goldenVars, historyVars
<1> QED
  BY <1>1, <1>2, <1>3, <1>4, <1>5, <1>6, <1>7 DEF Next

LEMMA FitInit ==
  ASSUME Init PROVE FitInv
<1>1. /\ scenario \in Scenarios /\ generated = 0 /\ seq = 1 /\ yielded = NoFrame
      /\ bid_price = [s \in FeedSymbols |-> 10000]
      /\ ask_price = [s \in FeedSymbols |-> 10010]
      /\ pending = <<>> /\ heard = {}
  BY DEF Init, GenInit, GoldenInit
<1>2. Fits
  BY <1>1 DEF Fits
<1>3. GenInv
  <2>1. Strolled(bid_price, ask_price, 0)
    BY <1>1 DEF Strolled
  <2>2. Limit \in Nat
    BY <1>1, LimitType
  <2> QED
    BY <1>1, <2>1, <2>2 DEF GenInv
<1>4. scenario \in Traffic => TrafficInv
  <2>1. Frames = 0
    BY DEF Init, GoldenInit, Frames, Counter
  <2>2. scenario \in Traffic => 0 <= MaxCalls[scenario]
    BY <1>1, TrafficFacts
  <2> QED
    BY <1>1, <2>1, <2>2 DEF TrafficInv
<1> QED
  BY <1>1, <1>2, <1>3, <1>4 DEF FitInv

(* All of it together is inductive. *)
LEMMA BenchSafe == Spec => [](GoldenTypeOK /\ HeardInv /\ FitInv)
<1> DEFINE Inv == GoldenTypeOK /\ HeardInv /\ FitInv
<1>1. Init => Inv
  BY FitInit, InitType, HeardInit DEF Init
<1>2. Inv /\ [Next]_vars => Inv'
  <2> SUFFICES ASSUME GoldenTypeOK, HeardInv, FitInv, [Next]_vars PROVE Inv'
    OBVIOUS
  <2>1. FitInv' /\ HeardInv'
    BY FitStep, HeardStep
  <2>2. Fits' /\ scenario \in Scenarios
    BY <2>1 DEF FitInv
  <2>3. GoldenTypeOK'
    BY <2>2, GoldenStep, GoldenTypeStep
  <2> QED
    BY <2>1, <2>3
<1> QED
  BY <1>1, <1>2, PTL DEF Spec

(***************************************************************************)
(* Every message the model ever has in hand fits its sixteen bytes: no     *)
(* price walks below zero or out of its word, and no number out of its     *)
(* own, whatever the scenario draws (FeedState.quote, iter_scenario), as   *)
(* long as the words have room for the frames asked for.                   *)
(***************************************************************************)
THEOREM FitsSafe == Spec => []Fits
<1>1. FitInv => Fits
  BY DEF FitInv
<1> QED
  BY <1>1, BenchSafe, PTL

(***************************************************************************)
(* Whatever is done on the bench, to the model it is a call, of a frame it *)
(* may be handed.  The promises proved of the model hold on the bench      *)
(* (IngressBalance, ThrottleHolds, PositionWithinLimit, NoSignalConflict   *)
(* and SignalBalance).                                                     *)
(***************************************************************************)
THEOREM BenchIsGolden == Spec => GoldenSpec
<1>1. Init => GoldenInit
  BY DEF Init
<1>2. GoldenTypeOK /\ FitInv /\ FitInv' /\ [Next]_vars => [GoldenNext]_goldenVars
  BY GoldenStep DEF FitInv
<1> QED
  BY <1>1, <1>2, BenchSafe, PTL DEF Spec, GoldenSpec

-----------------------------------------------------------------------------
(* The rest of the types. *)

WalkType ==
  /\ generated \in 0 .. Limit /\ seq \in Nat
  /\ bid_price \in [FeedSymbols -> Nat] /\ ask_price \in [FeedSymbols -> Nat]

RxType == session \in {LISTENING, SUMMARY, RAISED} /\ received \in Nat /\ lost \in Nat

MonType == rtl_expected \in 0 .. WordMod - 1 /\ rtl_gap \in BOOLEAN /\ resync \in Nat

LEMMA WalkTyped ==
  ASSUME GenInv, scenario \in Scenarios \ Traffic PROVE WalkType
<1>1. /\ Limit \in Nat /\ 3 * Limit <= 10000
      /\ generated \in 0 .. Limit /\ seq \in 1 .. 1 + 6 * generated
  BY RoomFacts DEF GenInv
<1>2. /\ bid_price \in [FeedSymbols -> Int] /\ ask_price \in [FeedSymbols -> Int]
      /\ \A s \in FeedSymbols : /\ 10010 - 3 * generated <= ask_price[s]
                                /\ 10000 - 3 * generated <= bid_price[s]
  BY DEF GenInv, Strolled
<1>3. \A s \in FeedSymbols : bid_price[s] \in Nat /\ ask_price[s] \in Nat
  BY <1>1, <1>2
<1>4. bid_price \in [FeedSymbols -> Nat] /\ ask_price \in [FeedSymbols -> Nat]
  BY <1>2, <1>3
<1> QED
  BY <1>1, <1>4 DEF WalkType

LEMMA WalkTypeStep ==
  ASSUME FitInv, FitInv', WalkType, [Next]_vars PROVE WalkType'
<1>1. scenario' = scenario
  BY ScenarioKept
<1>2. CASE scenario \notin Traffic
  <2>1. GenInv' /\ (scenario \in Scenarios \ Traffic)'
    BY <1>1, <1>2 DEF FitInv
  <2>2. (GenInv /\ scenario \in Scenarios \ Traffic => WalkType)'
    BY WalkTyped, PTL
  <2> QED
    BY <2>1, <2>2
<1>3. CASE UNCHANGED <<generated, seq, bid_price, ask_price>>
  BY <1>1, <1>3 DEF WalkType, Limit
<1>4. CASE Generate
  BY <1>2, <1>4, GenerateChosen
<1>5. CASE ~Generate
  BY <1>3, <1>5 DEF Next, Feed, Take, AnyMessage, AnyBadFrame, CallFrame, ProcessNext,
     ControlCalls, Stray, Receiver, vars, genVars, stateVars
<1> QED
  BY <1>4, <1>5

LEMMA RxTypeStep ==
  ASSUME RxType, [Next]_vars PROVE RxType'
<1>1. CASE Receiver
  BY <1>1 DEF Receiver, Read, Skip, BadLine, Finish, Interrupt, RxType
<1>2. CASE ProcessNext
  BY <1>2 DEF ProcessNext, Emit, RxType
<1>3. CASE UNCHANGED <<session, received, lost>>
  BY <1>3 DEF RxType
<1> QED
  BY <1>1, <1>2, <1>3 DEF Next, Generate, Feed, AnyMessage, AnyBadFrame, CallFrame,
     ControlCalls, Stray, vars, rxVars

LEMMA MonTypeStep ==
  ASSUME GoldenTypeOK, HeardInv, MonType, [Next]_vars PROVE MonType'
<1>1. CASE ProcessNext
  <2> DEFINE msg == Head(pending)
  <2>1. process_message /\ Mon!SeqStep(SeqIn(msg)) /\ SequenceHistory(msg)
    BY <1>1 DEF ProcessNext, RtlMessage
  <2>2. msg.seq_num \in Nat
    BY <2>1, InHand DEF process_message, Message
  <2>3. Highest \in Int /\ Highest >= -1
    BY HighestIs
  <2> HIDE DEF msg
  <2>4. resync' \in Nat
    BY <2>1, <2>2, <2>3 DEF SequenceHistory, MonType
  <2>5. rtl_expected' \in 0 .. WordMod - 1
    <3>1. (msg.seq_num + 1) % WordMod \in 0 .. WordMod - 1
      BY <2>2, BenchAssumption
    <3> QED
      BY <2>1, <3>1 DEF Mon!SeqStep, Mon!ExpectedStep, SeqIn, MonType
  <2>6. rtl_gap' \in BOOLEAN
    BY <2>1 DEF Mon!SeqStep, Mon!GapStep
  <2> QED
    BY <2>4, <2>5, <2>6 DEF MonType
<1>2. ASSUME NEW clear, RtlQuiet(clear) PROVE rtl_expected' = rtl_expected /\ rtl_gap' \in BOOLEAN
  BY <1>2 DEF RtlQuiet, Mon!SeqStep, Mon!ExpectedStep, Mon!GapStep
<1>3. Highest + 1 \in Nat
  BY HighestIs
<1>4. CASE FrameTaken \/ KillSwitched
  BY <1>2, <1>4 DEF FrameTaken, KillSwitched, Untouched, MonType
<1>5. CASE GapCleared
  BY <1>2, <1>3, <1>5 DEF GapCleared, MonType
<1>6. CASE Elsewhere
  BY <1>6 DEF Elsewhere, rtlVars, historyVars, MonType
<1> QED
  BY <1>1, <1>4, <1>5, <1>6, StepKinds

(***************************************************************************)
(* The types of the whole bench, the messages' and the generator's prices  *)
(* among them.                                                             *)
(***************************************************************************)
THEOREM TypeSafe == Spec => []TypeOK
<1> DEFINE Inv == WalkType /\ RxType /\ MonType
<1>1. Init => Inv
  <2> SUFFICES ASSUME Init PROVE Inv
    OBVIOUS
  <2>1. WalkType
    <3>1. Limit \in Nat
      BY LimitType DEF Init, GenInit
    <3> QED
      BY <3>1 DEF Init, GenInit, WalkType
  <2>2. RxType
    BY DEF Init, RxInit, RxType
  <2>3. MonType
    <3>1. rtl_expected = 0 /\ rtl_gap = FALSE /\ resync = 0
      BY DEF Init, Mon!SeqReset
    <3>2. 0 \in 0 .. WordMod - 1 /\ 0 \in Nat
      BY BenchAssumption
    <3> QED
      BY <3>1, <3>2 DEF MonType
  <2> QED
    BY <2>1, <2>2, <2>3
<1>2. GoldenTypeOK /\ HeardInv /\ FitInv /\ FitInv' /\ Inv /\ [Next]_vars => Inv'
  BY WalkTypeStep, RxTypeStep, MonTypeStep
<1>3. GoldenTypeOK /\ HeardInv /\ FitInv /\ Inv => TypeOK
  BY DEF FitInv, HeardInv, WalkType, RxType, MonType, TypeOK
<1> QED
  BY <1>1, <1>2, <1>3, BenchSafe, PTL DEF Spec

-----------------------------------------------------------------------------
(* The ledger. *)

LEMMA TradeOrder ==
  ASSUME NEW msg, NEW adverse, Trade(msg, adverse)
  PROVE  /\ result'.order.msg_type = ORDER_MSG_NEW
         /\ result'.order.symbol_id = msg.symbol_id
         /\ result'.order.side = SignalSide(msg, BookAfter(msg, MessageCycle))
         /\ result'.order.quantity = ReducedQty(adverse)
BY DEF Trade, Record

LEMMA LedgerStep ==
  ASSUME LedgerIsNet, [Next]_vars PROVE LedgerIsNet'
<1>1. CASE ProcessNext
  <2>1. process_message /\ OrderHistory
    BY <1>1 DEF ProcessNext
  <2>2. ASSUME NEW adverse \in BOOLEAN, Trade(Head(pending), adverse)
        PROVE  LedgerIsNet'
    <3>1. net' = [net EXCEPT ![result'.order.symbol_id]
                         = @ + Signed(result'.order.side, result'.order.quantity)]
      BY <2>1, <2>2, TradeOrder DEF OrderHistory
    <3> QED
      BY <2>2, <3>1, TradeOrder DEF Trade, LedgerIsNet
  <2>3. CASE NoTrade(MessageCycle) /\ result'.order.msg_type # ORDER_MSG_NEW
    BY <2>1, <2>3 DEF NoTrade, OrderHistory, LedgerIsNet
  <2> QED
    BY <2>1, <2>2, <2>3, TradeOrNot
<1>2. CASE FrameTaken
  BY <1>2 DEF FrameTaken, TakesFrame, Untouched, process_frame, LedgerIsNet
<1>3. CASE KillSwitched \/ GapCleared
  BY <1>3 DEF KillSwitched, GapCleared, Untouched, assert_kill_switch,
              clear_kill_switch, clear_seq_gap, ControlCall, LedgerIsNet
<1>4. CASE Elsewhere
  BY <1>4 DEF Elsewhere, goldenVars, historyVars, LedgerIsNet
<1> QED
  BY <1>1, <1>2, <1>3, <1>4, StepKinds

(***************************************************************************)
(* The position is the sum of the orders that left, with the quantities    *)
(* they left with, whatever was reduced, refused or dropped (D16).         *)
(***************************************************************************)
THEOREM LedgerSafe == Spec => []LedgerIsNet
<1>1. Init => LedgerIsNet
  BY DEF Init, GoldenInit, LedgerIsNet
<1> QED
  BY <1>1, LedgerStep, PTL DEF Spec

-----------------------------------------------------------------------------
(* The bucket. *)

(* Every step that is not a message leaves the clock and the bucket alone. *)
Paused == UNCHANGED <<cfg, paceVars, eager, sends>> /\ ~result'.dropped

LEMMA PausedSteps ==
  ASSUME [Next]_vars
  PROVE  \/ ProcessNext
         \/ Paused
         \/ UNCHANGED <<cfg, paceVars, eager, sends, result>>
<1>1. CASE FrameTaken
  BY <1>1 DEF FrameTaken, TakesFrame, Untouched, process_frame, NoResult, Paused
<1>2. CASE KillSwitched \/ GapCleared
  <2>1. ControlCall
    BY <1>2 DEF KillSwitched, GapCleared, assert_kill_switch, clear_kill_switch,
                clear_seq_gap
  <2>2. UNCHANGED <<eager, sends>>
    BY <1>2 DEF KillSwitched, GapCleared, Untouched
  <2>3. UNCHANGED <<cfg, paceVars>> /\ result' = NoResult
    BY <2>1 DEF ControlCall
  <2> QED
    BY <2>2, <2>3 DEF NoResult, Paused
<1>3. CASE Elsewhere
  BY <1>3 DEF Elsewhere, goldenVars, historyVars
<1> QED
  BY <1>1, <1>2, <1>3, StepKinds

(* The last credit is the last period's end on the clock. *)
RefillInv ==
  /\ last_refill_cycle = (current_cycle \div cfg.token_refill_cycles)
                           * cfg.token_refill_cycles
  /\ token_bucket = eager

LEMMA DivSub ==
  ASSUME NEW a \in Nat, NEW q \in Nat, NEW p \in Nat \ {0}, q * p <= a
  PROVE  (a - q * p) \div p = a \div p - q
OBVIOUS

LEMMA DivLess ==
  ASSUME NEW a \in Nat, NEW q \in Nat, NEW p \in Nat \ {0}, a <= q * p, q <= a \div p
  PROVE  a \div p = q
OBVIOUS

LEMMA DivGrows ==
  ASSUME NEW a \in Nat, NEW b \in Nat, NEW p \in Nat \ {0}, a <= b
  PROVE  a \div p <= b \div p
OBVIOUS

LEMMA RefillStep ==
  ASSUME GoldenTypeOK, RefillInv, [Next]_vars PROVE RefillInv'
<1> DEFINE P == cfg.token_refill_cycles
           now == MessageCycle
           cur == current_cycle \div P
           nxt == now \div P
<1>1. CASE ProcessNext
  <2>1. process_message /\ OrderHistory /\ cfg' = cfg
    BY <1>1 DEF ProcessNext, process_message
  <2>2. /\ current_cycle' = now /\ last_refill_cycle' = LastRefillAt(now)
    BY <2>1, TradeOrNot DEF Arrive
  <2>3. P \in Nat \ {0} /\ cfg.token_max \in Nat
    BY ConfigFacts DEF GoldenTypeOK
  <2>4. /\ now \in Nat /\ now >= current_cycle /\ Refills(now) \in Nat
        /\ current_cycle \in Nat /\ token_bucket \in 0 .. cfg.token_max
    BY <2>1, InHand DEF process_message, GoldenTypeOK
  <2>5. /\ cur \in Nat /\ nxt \in Nat /\ cur * P <= current_cycle /\ nxt * P <= now
    BY <2>3, <2>4, Quotient
  <2>6. cur <= nxt
    BY <2>3, <2>4, DivGrows
  <2>7. last_refill_cycle = cur * P
    BY DEF RefillInv
  <2> HIDE DEF cur, nxt, P
  <2>8. Refills(now) = nxt - cur
    <3>1. CASE now <= last_refill_cycle
      <4>1. now <= cur * P
        BY <2>7, <3>1
      <4>2. nxt = cur
        BY <2>3, <2>4, <2>5, <2>6, <4>1, DivLess DEF nxt
      <4> QED
        BY <2>5, <3>1, <4>2 DEF Refills
    <3>2. CASE ~(now <= last_refill_cycle)
      <4>1. Refills(now) = (now - cur * P) \div P
        BY <2>7, <3>2 DEF Refills, P
      <4>2. cur * P <= now
        BY <2>3, <2>4, <2>5, <2>7, <3>2
      <4>3. (now - cur * P) \div P = now \div P - cur
        BY <2>3, <2>4, <2>5, <4>2, DivSub
      <4> QED
        BY <4>1, <4>3 DEF nxt
    <3> QED
      BY <3>1, <3>2
  <2>9. last_refill_cycle' = nxt * P
    <3>1. last_refill_cycle' = cur * P + (nxt - cur) * P
      BY <2>2, <2>7, <2>8 DEF LastRefillAt, P
    <3>2. (cur + (nxt - cur)) * P = cur * P + (nxt - cur) * P
      BY <2>3, <2>5, Distribute
    <3>3. cur + (nxt - cur) = nxt
      BY <2>5
    <3> QED
      BY <3>1, <3>2, <3>3
  <2>10. PeriodEnds = Refills(now)
    BY <2>2, <2>8 DEF PeriodEnds, nxt, cur, P
  <2>11. TokensAt(now) = Lesser(cfg.token_max, eager + PeriodEnds)
    BY <2>3, <2>4, <2>10 DEF TokensAt, Lesser, RefillInv
  <2>12. TokensAt(now) \in Int
    BY <2>1, InHand DEF process_message
  <2>13. token_bucket' = eager'
    <3>1. ASSUME NEW adverse \in BOOLEAN, Trade(Head(pending), adverse)
          PROVE  token_bucket' = eager'
      BY <2>1, <2>11, <3>1, TradeOrder DEF Trade, OrderHistory, One
    <3>2. CASE NoTrade(now) /\ result'.order.msg_type # ORDER_MSG_NEW
      BY <2>1, <2>11, <2>12, <3>2 DEF NoTrade, OrderHistory, One
    <3> QED
      BY <2>1, <3>1, <3>2, TradeOrNot
  <2> QED
    BY <2>1, <2>2, <2>9, <2>13 DEF RefillInv, nxt, P
<1>2. CASE UNCHANGED <<cfg, paceVars, eager>>
  BY <1>2 DEF paceVars, RefillInv
<1> QED
  BY <1>1, <1>2, PausedSteps DEF Paused

(***************************************************************************)
(* Crediting refill periods only when a message comes loses none and       *)
(* credits none twice: the bucket is always the one a timer would have     *)
(* filled, for every period, every bucket and every pace of the feed.      *)
(***************************************************************************)
THEOREM RefillSafe == Spec => []RefillExact
<1>1. Init => RefillInv
  <2> SUFFICES ASSUME Init PROVE RefillInv
    OBVIOUS
  <2>1. /\ current_cycle = 0 /\ last_refill_cycle = 0 /\ token_bucket = eager
        /\ cfg \in Configs
    BY DEF Init, GoldenInit
  <2>2. cfg.token_refill_cycles \in Nat \ {0}
    BY <2>1, ConfigFacts
  <2>3. 0 \div cfg.token_refill_cycles = 0
    BY <2>2
  <2> QED
    BY <2>1, <2>2, <2>3 DEF RefillInv
<1>2. GoldenTypeOK /\ RefillInv /\ [Next]_vars => RefillInv'
  BY RefillStep
<1>3. RefillInv => RefillExact
  BY DEF RefillInv, RefillExact
<1> QED
  BY <1>1, <1>2, <1>3, BenchSafe, PTL DEF Spec

-----------------------------------------------------------------------------
(* The transmit slots. *)

(* sends are the last orders, oldest first, and the slots are the end of   *)
(* them: those whose frames are still on their way.                        *)
SlotInv ==
  /\ sends \in Seq(Nat) /\ Len(sends) <= 2
  /\ \A i \in DOMAIN sends : sends[i] <= current_cycle
  /\ Len(sends) = 2 => sends[1] <= sends[2]
  /\ Len(tx_busy_until) <= Len(sends)
  /\ \A i \in 1 .. Len(tx_busy_until) :
       /\ tx_busy_until[i] =
            sends[Len(sends) - Len(tx_busy_until) + i] + ORDER_TX_CYCLES
       /\ tx_busy_until[i] > current_cycle
  /\ \A i \in 1 .. Len(sends) - Len(tx_busy_until) :
       sends[i] + ORDER_TX_CYCLES <= current_cycle
  /\ result.dropped => Len(tx_busy_until) = 2

(* Frames leave from the front, in the order of their ends. *)
LEMMA SlotsLeave ==
  ASSUME tx_busy_until \in Seq(Nat), Len(tx_busy_until) <= 2,
         Len(tx_busy_until) = 2 => tx_busy_until[1] <= tx_busy_until[2],
         NEW now \in Nat
  PROVE  \E d \in 0 .. Len(tx_busy_until) :
           /\ TxBusyAt(now) = SubSeq(tx_busy_until, d + 1, Len(tx_busy_until))
           /\ \A i \in 1 .. d : tx_busy_until[i] <= now
           /\ \A i \in d + 1 .. Len(tx_busy_until) : tx_busy_until[i] > now
<1> DEFINE n == Len(tx_busy_until)
           gone == {i \in 1 .. n : tx_busy_until[i] <= now}
           first == {i \in 1 .. n : \A j \in 1 .. i : j \in gone}
<1>1. TxBusyAt(now) = SubSeq(tx_busy_until, Cardinality(first) + 1, n)
  BY DEF TxBusyAt
<1>2. n \in Nat /\ n <= 2 /\ \A i \in 1 .. n : tx_busy_until[i] \in Nat
  OBVIOUS
<1>3. \E d \in 0 .. n : /\ first = 1 .. d
                        /\ \A i \in 1 .. d : tx_busy_until[i] <= now
                        /\ \A i \in d + 1 .. n : tx_busy_until[i] > now
  <2>1. first = {i \in 1 .. n : \A j \in 1 .. i : tx_busy_until[j] <= now}
    OBVIOUS
  <2> HIDE DEF first
  <2>2. CASE n = 0
    <3>1. first = 1 .. 0
      BY <2>1, <2>2
    <3> QED BY <2>2, <3>1
  <2>3. CASE n = 1
    <3>1. CASE tx_busy_until[1] <= now
      <4>1. first = 1 .. 1 BY <2>1, <2>3, <3>1
      <4> QED BY <2>3, <3>1, <4>1
    <3>2. CASE ~(tx_busy_until[1] <= now)
      <4>1. first = 1 .. 0 BY <2>1, <2>3, <3>2
      <4> QED BY <1>2, <2>3, <3>2, <4>1
    <3> QED BY <3>1, <3>2
  <2>4. CASE n = 2
    <3>1. CASE tx_busy_until[2] <= now
      <4>1. tx_busy_until[1] <= now BY <1>2, <2>4, <3>1
      <4>2. first = 1 .. 2 BY <2>1, <2>4, <3>1, <4>1
      <4> QED BY <2>4, <3>1, <4>1, <4>2
    <3>2. CASE tx_busy_until[1] <= now /\ ~(tx_busy_until[2] <= now)
      <4>1. first = 1 .. 1 BY <2>1, <2>4, <3>2
      <4> QED BY <1>2, <2>4, <3>2, <4>1
    <3>3. CASE ~(tx_busy_until[1] <= now)
      <4>1. ~(tx_busy_until[2] <= now) BY <1>2, <2>4, <3>3
      <4>2. first = 1 .. 0 BY <2>1, <2>4, <3>3
      <4> QED BY <1>2, <2>4, <3>3, <4>1, <4>2
    <3> QED BY <3>1, <3>2, <3>3
  <2>5. n = 0 \/ n = 1 \/ n = 2
    <3> HIDE DEF n
    <3> QED
      BY <1>2
  <2> QED
    BY <2>2, <2>3, <2>4, <2>5
<1> HIDE DEF first, gone
<1>4. PICK d \in 0 .. n : /\ first = 1 .. d
                          /\ \A i \in 1 .. d : tx_busy_until[i] <= now
                          /\ \A i \in d + 1 .. n : tx_busy_until[i] > now
  BY <1>3
<1>5. Cardinality(1 .. d) = d
  <2>1. d \in Nat
    BY <1>2, <1>4
  <2>2. Cardinality(1 .. d) = IF 1 > d THEN 0 ELSE d - 1 + 1
    BY <2>1, FS_Interval
  <2> QED
    BY <2>1, <2>2
<1> QED
  BY <1>1, <1>4, <1>5

(* The slots after the frames that have ended by now have left. *)
SlotsAt(slots, now) ==
  /\ slots \in Seq(Nat) /\ Len(slots) <= Len(sends)
  /\ \A i \in 1 .. Len(slots) :
       /\ slots[i] = sends[Len(sends) - Len(slots) + i] + ORDER_TX_CYCLES
       /\ slots[i] > now
  /\ \A i \in 1 .. Len(sends) - Len(slots) : sends[i] + ORDER_TX_CYCLES <= now

LEMMA SlotsAtNow ==
  ASSUME GoldenTypeOK, SlotInv, NEW now \in Nat, now >= current_cycle
  PROVE  SlotsAt(TxBusyAt(now), now)
<1> DEFINE tx == tx_busy_until
           n == Len(tx)
           m == Len(sends)
<1>1. /\ tx \in Seq(Nat) /\ n \in Nat /\ m \in Nat /\ m <= 2 /\ n <= m
      /\ \A i \in 1 .. n : tx[i] = sends[m - n + i] + ORDER_TX_CYCLES
      /\ \A i \in 1 .. m - n : sends[i] + ORDER_TX_CYCLES <= current_cycle
      /\ \A i \in 1 .. m : sends[i] \in Nat
      /\ current_cycle \in Nat /\ ORDER_TX_CYCLES \in Nat
  BY GoldenAssumption DEF GoldenTypeOK, SlotInv
<1>2. n = 2 => tx[1] <= tx[2]
  <2> SUFFICES ASSUME n = 2 PROVE tx[1] <= tx[2]
    OBVIOUS
  <2>4. m = 2 => sends[1] <= sends[2]
    BY DEF SlotInv
  <2> HIDE DEF n, m, tx
  <2>1. m = 2 /\ sends[1] \in Nat /\ sends[2] \in Nat
    BY <1>1
  <2>2. sends[1] <= sends[2]
    BY <2>1, <2>4
  <2>3. tx[1] = sends[1] + ORDER_TX_CYCLES /\ tx[2] = sends[2] + ORDER_TX_CYCLES
    <3>1. 1 \in 1 .. n /\ 2 \in 1 .. n /\ m - n + 1 = 1 /\ m - n + 2 = 2
      BY <2>1
    <3> QED
      BY <1>1, <3>1
  <2> QED
    BY <1>1, <2>1, <2>2, <2>3
<1>3. PICK d \in 0 .. n :
        /\ TxBusyAt(now) = SubSeq(tx, d + 1, n)
        /\ \A i \in 1 .. d : tx[i] <= now
        /\ \A i \in d + 1 .. n : tx[i] > now
  <2>1. Len(tx_busy_until) <= 2
    BY <1>1
  <2> QED
    BY <1>1, <1>2, <2>1, SlotsLeave
<1> DEFINE rest == SubSeq(tx, d + 1, n)
<1>4. /\ rest \in Seq(Nat) /\ Len(rest) = n - d
      /\ \A i \in 1 .. n - d : rest[i] = tx[d + i]
  BY <1>1
<1> HIDE DEF rest, n, m
<1>5. Len(rest) \in Nat /\ Len(rest) <= m
  BY <1>1, <1>4
<1>6. ASSUME NEW i \in 1 .. Len(rest)
      PROVE  rest[i] = sends[m - Len(rest) + i] + ORDER_TX_CYCLES /\ rest[i] > now
  <2>1. i \in 1 .. n - d /\ d + i \in 1 .. n /\ d + i \in d + 1 .. n
    BY <1>1, <1>4
  <2>2. m - n + (d + i) = m - Len(rest) + i
    BY <1>1, <1>4, <2>1
  <2> QED
    BY <1>1, <1>3, <1>4, <2>1, <2>2
<1>7. ASSUME NEW i \in 1 .. m - Len(rest)
      PROVE  sends[i] + ORDER_TX_CYCLES <= now
  <2>1. CASE i <= m - n
    <3>1. i \in 1 .. m - n /\ i \in 1 .. m
      BY <1>1, <1>4, <2>1
    <3> QED
      BY <1>1, <3>1
  <2>2. CASE i > m - n
    <3> DEFINE j == i - (m - n)
    <3>1. j \in 1 .. d /\ j \in 1 .. n /\ m - n + j = i
      BY <1>1, <1>4, <2>2
    <3>2. tx[j] = sends[i] + ORDER_TX_CYCLES /\ tx[j] <= now
      BY <1>1, <1>3, <3>1
    <3> QED
      BY <3>2
  <2> QED
    BY <1>1, <1>4, <2>1, <2>2
<1> QED
  BY <1>1, <1>3, <1>4, <1>5, <1>6, <1>7 DEF SlotsAt, rest, m

LEMMA SlotStep ==
  ASSUME GoldenTypeOK, SlotInv, [Next]_vars PROVE SlotInv'
<1> DEFINE now == MessageCycle
           rest == TxBusyAt(now)
           n == Len(rest)
           m == Len(sends)
<1>1. CASE ProcessNext
  <2>1. process_message /\ OrderHistory
    BY <1>1 DEF ProcessNext
  <2>2. current_cycle' = now
    BY <2>1, TradeOrNot DEF Arrive
  <2>3. now \in Nat /\ now >= current_cycle
    BY <2>1, InHand DEF process_message
  <2>4. SlotsAt(rest, now)
    BY <2>3, SlotsAtNow
  <2>5. /\ m \in Nat /\ m <= 2 /\ sends \in Seq(Nat)
        /\ \A i \in 1 .. m : sends[i] \in Nat /\ sends[i] <= now
        /\ m = 2 => sends[1] <= sends[2]
        /\ current_cycle \in Nat /\ ORDER_TX_CYCLES \in Nat \ {0}
    BY <2>3, GoldenAssumption DEF SlotInv, GoldenTypeOK
  <2>6. /\ rest \in Seq(Nat) /\ n \in Nat /\ n <= m
        /\ \A i \in 1 .. n : rest[i] = sends[m - n + i] + ORDER_TX_CYCLES /\ rest[i] > now
        /\ \A i \in 1 .. m - n : sends[i] + ORDER_TX_CYCLES <= now
    BY <2>4 DEF SlotsAt
  <2>7. ASSUME NEW adverse \in BOOLEAN, Trade(Head(pending), adverse)
        PROVE  SlotInv'
    <3>1. /\ tx_busy_until' = Append(rest, now + ORDER_TX_CYCLES)
          /\ n < 2 /\ result'.dropped = FALSE
      BY <2>7 DEF Trade
    <3>2. sends' = IF m = 2 THEN <<sends[2], now>> ELSE Append(sends, now)
      BY <2>1, <2>2, <2>7, TradeOrder DEF OrderHistory
    <3> HIDE DEF rest
    <3>3. /\ Len(tx_busy_until') = n + 1
          /\ \A i \in 1 .. n : tx_busy_until'[i] = rest[i]
          /\ tx_busy_until'[n + 1] = now + ORDER_TX_CYCLES
      BY <2>3, <2>5, <2>6, <3>1
    <3> HIDE DEF n
    <3>4. CASE m = 2
      <4>1. sends' = <<sends[2], now>>
        BY <3>2, <3>4
      <4>2. /\ sends' \in Seq(Nat) /\ Len(sends') = 2
            /\ sends'[1] = sends[2] /\ sends'[2] = now
        BY <2>3, <2>5, <3>4, <4>1
      <4>3. CASE n = 0
        <5>1. /\ Len(tx_busy_until') = 1
              /\ tx_busy_until'[1] = sends'[2] + ORDER_TX_CYCLES
              /\ sends'[1] + ORDER_TX_CYCLES <= now
          BY <2>6, <3>3, <3>4, <4>2, <4>3
        <5>2. /\ DOMAIN sends' = 1 .. 2 /\ sends'[1] <= sends'[2]
              /\ \A i \in 1 .. 2 : sends'[i] <= current_cycle'
          BY <2>2, <2>3, <2>5, <3>4, <4>2
        <5>3. \A i \in 1 .. 1 : /\ tx_busy_until'[i] = sends'[2 - 1 + i] + ORDER_TX_CYCLES
                               /\ tx_busy_until'[i] > current_cycle'
          BY <2>2, <2>3, <2>5, <4>2, <5>1
        <5>4. \A i \in 1 .. 2 - 1 : sends'[i] + ORDER_TX_CYCLES <= current_cycle'
          BY <2>2, <2>3, <2>5, <4>2, <5>1
        <5> QED
          BY <3>1, <4>2, <5>1, <5>2, <5>3, <5>4 DEF SlotInv
      <4>4. CASE n = 1
        <5>1. /\ Len(tx_busy_until') = 2
              /\ tx_busy_until'[1] = sends'[1] + ORDER_TX_CYCLES
              /\ tx_busy_until'[2] = sends'[2] + ORDER_TX_CYCLES
              /\ tx_busy_until'[1] > now
          BY <2>6, <3>3, <3>4, <4>2, <4>4
        <5>2. /\ DOMAIN sends' = 1 .. 2 /\ sends'[1] <= sends'[2]
              /\ \A i \in 1 .. 2 : sends'[i] <= current_cycle'
          BY <2>2, <2>3, <2>5, <3>4, <4>2
        <5>3. \A i \in 1 .. 2 : /\ tx_busy_until'[i] = sends'[2 - 2 + i] + ORDER_TX_CYCLES
                               /\ tx_busy_until'[i] > current_cycle'
          BY <2>2, <2>3, <2>5, <4>2, <5>1
        <5>4. \A i \in 1 .. 2 - 2 : sends'[i] + ORDER_TX_CYCLES <= current_cycle'
          BY <2>2, <2>3, <2>5, <4>2, <5>1
        <5> QED
          BY <3>1, <4>2, <5>1, <5>2, <5>3, <5>4 DEF SlotInv
      <4> QED
        BY <2>6, <3>1, <4>3, <4>4
    <3>5. CASE m # 2
      <4>1. sends' = Append(sends, now)
        BY <3>2, <3>5
      <4> HIDE DEF m
      <4>2. /\ sends' \in Seq(Nat) /\ Len(sends') = m + 1
            /\ \A i \in 1 .. m : sends'[i] = sends[i]
            /\ sends'[m + 1] = now
        BY <2>3, <2>5, <4>1 DEF m
      <4>3. m = 0 \/ m = 1
        BY <2>5, <3>5
      <4>4. ASSUME NEW i \in 1 .. n + 1
            PROVE  /\ tx_busy_until'[i] = sends'[(m + 1) - (n + 1) + i] + ORDER_TX_CYCLES
                   /\ tx_busy_until'[i] > now
        <5>1. CASE i = n + 1
          <6>1. (m + 1) - (n + 1) + i = m + 1
            BY <2>5, <2>6, <5>1
          <6> QED
            BY <2>3, <2>5, <3>3, <4>2, <5>1, <6>1
        <5>2. CASE i # n + 1
          <6>1. i \in 1 .. n /\ (m + 1) - (n + 1) + i = m - n + i /\ m - n + i \in 1 .. m
            BY <2>5, <2>6, <5>2
          <6> QED
            BY <2>6, <3>3, <4>2, <6>1
        <5> QED
          BY <5>1, <5>2
      <4>5. ASSUME NEW i \in 1 .. (m + 1) - (n + 1)
            PROVE  sends'[i] + ORDER_TX_CYCLES <= now
        <5>1. i \in 1 .. m - n /\ i \in 1 .. m
          BY <2>5, <2>6
        <5> QED
          BY <2>6, <4>2, <5>1
      <4>6. ASSUME NEW i \in 1 .. m + 1 PROVE sends'[i] <= now
        BY <2>3, <2>5, <4>2
      <4>7. m + 1 = 2 => sends'[1] <= sends'[2]
        BY <2>5, <4>2
      <4>8. n + 1 <= m + 1 /\ m + 1 <= 2
        BY <2>5, <2>6, <4>3
      <4>9. DOMAIN sends' = 1 .. m + 1
        BY <4>2
      <4> QED
        BY <2>2, <3>1, <3>3, <4>2, <4>4, <4>5, <4>6, <4>7, <4>8, <4>9 DEF SlotInv
    <3> QED
      BY <3>4, <3>5
  <2>8. CASE /\ NoTrade(now) /\ result'.order.msg_type # ORDER_MSG_NEW
             /\ result'.dropped => n >= 2
    <3>1. tx_busy_until' = rest /\ sends' = sends
      BY <2>1, <2>8 DEF NoTrade, OrderHistory
    <3>2. result'.dropped => n >= 2
      BY <2>8
    <3> HIDE DEF rest
    <3>3. n >= 2 => n = 2
      <4> HIDE DEF n, m
      <4> QED
        BY <2>5, <2>6
    <3> QED
      BY <2>2, <2>5, <2>6, <3>1, <3>2, <3>3 DEF SlotInv
  <2> QED
    BY <2>1, <2>7, <2>8, TradeOrNot
<1>2. CASE Paused
  BY <1>2 DEF Paused, paceVars, SlotInv
<1>3. CASE UNCHANGED <<cfg, paceVars, eager, sends, result>>
  BY <1>3 DEF paceVars, SlotInv
<1> QED
  BY <1>1, <1>2, <1>3, PausedSteps

LEMMA SlotsCounted ==
  ASSUME GoldenTypeOK, SlotInv PROVE SlotsAreOrders
<1> DEFINE n == Len(tx_busy_until)
           m == Len(sends)
<1>1. /\ m \in Nat /\ n \in Nat /\ n <= m
      /\ \A i \in 1 .. n : /\ tx_busy_until[i] = sends[m - n + i] + ORDER_TX_CYCLES
                           /\ tx_busy_until[i] > current_cycle
      /\ \A i \in 1 .. m - n : sends[i] + ORDER_TX_CYCLES <= current_cycle
      /\ \A i \in 1 .. m : sends[i] \in Nat
      /\ current_cycle \in Nat /\ ORDER_TX_CYCLES \in Nat
      /\ DOMAIN sends = 1 .. m
  BY GoldenAssumption DEF SlotInv, GoldenTypeOK
<1> HIDE DEF n, m
<1>2. OnTheWire = m - n + 1 .. m
  <2>1. ASSUME NEW i \in 1 .. m
        PROVE  sends[i] + ORDER_TX_CYCLES > current_cycle <=> i >= m - n + 1
    <3>1. CASE i >= m - n + 1
      <4> DEFINE j == i - (m - n)
      <4>1. j \in 1 .. n /\ m - n + j = i
        BY <1>1, <3>1
      <4> QED
        BY <1>1, <3>1, <4>1
    <3>2. CASE ~(i >= m - n + 1)
      <4>1. i \in 1 .. m - n
        BY <1>1, <3>2
      <4> QED
        BY <1>1, <3>2, <4>1
    <3> QED
      BY <3>1, <3>2
  <2>2. m - n + 1 .. m \subseteq 1 .. m
    BY <1>1
  <2> QED
    BY <1>1, <2>1, <2>2 DEF OnTheWire
<1>3. Cardinality(OnTheWire) = n
  <2> DEFINE a == m - n + 1
  <2>1. a \in Int /\ m \in Int /\ m - a + 1 = n /\ (a > m => n = 0)
    BY <1>1
  <2> HIDE DEF a
  <2>2. Cardinality(a .. m) = IF a > m THEN 0 ELSE m - a + 1
    BY <2>1, FS_Interval
  <2> QED
    BY <1>2, <2>1, <2>2 DEF a
<1> QED
  BY <1>1, <1>3 DEF SlotsAreOrders, SlotInv, n, m

(***************************************************************************)
(* The transmit slots the model keeps are exactly the orders still on the  *)
(* wire, and an accepted order is dropped only when two of them are, for   *)
(* every frame time (spec 7.5).                                            *)
(***************************************************************************)
THEOREM SlotsSafe == Spec => []SlotsAreOrders
<1>1. Init => SlotInv
  <2> SUFFICES ASSUME Init PROVE SlotInv
    OBVIOUS
  <2>1. sends = <<>> /\ tx_busy_until = <<>> /\ result.dropped = FALSE
    BY DEF Init, GoldenInit, NoResult
  <2>2. Len(sends) = 0 /\ Len(tx_busy_until) = 0 /\ DOMAIN sends = {} /\ sends \in Seq(Nat)
    BY <2>1
  <2> QED
    BY <2>1, <2>2 DEF SlotInv
<1>2. GoldenTypeOK /\ SlotInv /\ [Next]_vars => SlotInv'
  BY SlotStep
<1>3. GoldenTypeOK /\ SlotInv => SlotsAreOrders
  BY SlotsCounted
<1> QED
  BY <1>1, <1>2, <1>3, BenchSafe, PTL DEF Spec

-----------------------------------------------------------------------------
(* The age of the book. *)

FreshInv ==
  /\ touched \in [Symbol -> Nat]
  /\ \A s \in Symbol : touched[s] = books[s].last_update_cycle
  /\ OrdersOnFreshBooks

LEMMA BookStamped ==
  ASSUME books \in [Symbol -> Book], NEW msg \in Message, NEW now \in Nat
  PROVE  BookAfter(msg, now).last_update_cycle = now
<1> DEFINE b == books[msg.symbol_id]
<1>1. b \in Book
  BY DEF Message
<1>2. Quoted(b, msg) \in Book
  BY <1>1 DEF Quoted, Book, Message
<1>3. Cleared(b) \in Book
  BY <1>1 DEF Cleared, Book
<1> QED
  BY <1>1, <1>2, <1>3 DEF BookAfter, Book

(* A message is usable for the model when it confirms the book for the     *)
(* history, and only then does it change a book.                           *)
LEMMA FreshStep ==
  ASSUME GoldenTypeOK, HeardInv, FreshInv, [Next]_vars PROVE FreshInv'
<1>1. CASE ProcessNext
  <2> DEFINE msg == Head(pending)
             now == MessageCycle
             b == BookAfter(msg, now)
             s == msg.symbol_id
  <2>1. process_message /\ BookHistory(msg) /\ cfg' = cfg
    BY <1>1 DEF ProcessNext, process_message
  <2>2. /\ msg \in Message /\ s \in Symbol /\ now \in Nat /\ b \in Book
    BY <2>1, InHand DEF process_message, Message
  <2>3. current_cycle' = now
    BY <2>1, TradeOrNot DEF Arrive
  <2>4. Usable(msg) <=> /\ msg.msg_type \in VALID_MSG_TYPES /\ ~msg.reserved
                        /\ s \in watched_symbols
                        /\ s \in watched_symbols /\ msg.seq_num > Highest
    BY <2>2, InTime DEF Usable
  <2>5. touched' = IF Usable(msg) THEN [touched EXCEPT ![s] = now] ELSE touched
    BY <2>1, <2>3, <2>4 DEF BookHistory
  <2>6. books' = IF Usable(msg) THEN [books EXCEPT ![s] = b] ELSE books
    BY <2>1 DEF process_message, Discard, Observe, Refuse, Overflow, Trade, Apply
  <2>7. b.last_update_cycle = now
    BY <2>2, BookStamped DEF GoldenTypeOK
  <2>8. books \in [Symbol -> Book]
    BY DEF GoldenTypeOK
  <2>9. OrdersOnFreshBooks'
    <3>1. ASSUME NEW adverse \in BOOLEAN, Trade(msg, adverse)
          PROVE  silence' <= cfg'.max_age
      <4>1. silence' = now - touched[s]
        BY <2>1, <2>3 DEF BookHistory
      <4>2. ~Stale(msg, now)
        <5>1. 5 \in Gate
          BY DEF Gate
        <5> QED
          BY <3>1, <5>1 DEF Trade, GatesFired, GATE_STALE
      <4>3. ~(now - touched[s] > cfg.max_age)
        BY <2>2, <4>2 DEF Stale, FreshInv
      <4>4. touched[s] \in Nat /\ cfg.max_age \in Nat
        BY <2>2, ConfigFacts DEF FreshInv, GoldenTypeOK
      <4> QED
        BY <2>1, <2>2, <4>1, <4>3, <4>4
    <3> QED
      BY <2>1, <3>1, TradeOrNot DEF OrdersOnFreshBooks
  <2> HIDE DEF msg, now, b, s
  <2>10. touched' \in [Symbol -> Nat]
    BY <2>2, <2>5 DEF FreshInv
  <2>11. \A r \in Symbol : touched'[r] = books'[r].last_update_cycle
    BY <2>2, <2>5, <2>6, <2>7, <2>8 DEF FreshInv
  <2> QED
    BY <2>9, <2>10, <2>11 DEF FreshInv
<1>2. CASE Unnumbered
  BY <1>2 DEF Unnumbered, FreshInv, OrdersOnFreshBooks
<1>3. CASE UNCHANGED <<cfg, heard, expected_seq, books, touched, result, silence,
                       seq_gap, resync, counters>>
  BY <1>3 DEF FreshInv, OrdersOnFreshBooks
<1> QED
  BY <1>1, <1>2, <1>3, UnnumberedSteps

(***************************************************************************)
(* An order goes out only on a book confirmed within max_age before its    *)
(* message, by a message in time for a watched symbol (D17).               *)
(***************************************************************************)
THEOREM FreshSafe == Spec => []OrdersOnFreshBooks
<1>1. Init => FreshInv
  BY DEF Init, GoldenInit, NewBook, NoResult, NoOrder, ORDER_MSG_NEW, FreshInv,
         OrdersOnFreshBooks
<1>2. GoldenTypeOK /\ HeardInv /\ FreshInv /\ [Next]_vars => FreshInv'
  BY FreshStep
<1>3. FreshInv => OrdersOnFreshBooks
  BY DEF FreshInv
<1> QED
  BY <1>1, <1>2, <1>3, BenchSafe, PTL DEF Spec

-----------------------------------------------------------------------------
(* The gaps. *)

(* Only the missing messages add to their counter. *)
LEMMA GapCounted ==
  ASSUME GoldenTypeOK, process_message
  PROVE  counters'["cnt_seq_gap"]
           = Lesser(CounterMax, counters["cnt_seq_gap"] + Gap(Head(pending)))
<1> DEFINE msg == Head(pending)
           now == MessageCycle
           b == BookAfter(msg, now)
           side == SignalSide(msg, b)
           c == "cnt_seq_gap"
<1>1. Gap(msg) \in Nat /\ c \in Counter /\ counters[c] \in Nat
  BY InHand DEF process_message, Counter, GoldenTypeOK
<1>2. ASSUME NEW hits, NEW again, Increment(hits, again, Gap(msg)),
             c \notin hits, c \notin again
      PROVE  counters'[c] = Lesser(CounterMax, counters[c] + Gap(msg))
  <2>1. counters'[c] = Lesser(CounterMax, counters[c] + 0 + 0 + Gap(msg))
    BY <1>1, <1>2, IncrementType DEF One, GoldenTypeOK
  <2> QED
    BY <1>1, <2>1
<1>3. ASSUME NEW g \in Gate PROVE GATE_NAME[g] # c
  <2>1. g \in {1, 2, 3, 4, 5, 6, 7, 8, 9}
    BY DEF Gate
  <2> QED
    BY <2>1 DEF GATE_NAME
<1>4. /\ c \notin BookHits(msg, b)
      /\ \A adverse : c \notin SignalHits(side, adverse)
  BY DEF BookHits, SignalHits
<1>5. c \notin {"cnt_msgs_rx", DropCounter(msg)}
                 \cup (IF IsDup(msg) THEN {"cnt_seq_dup"} ELSE {})
  BY DropCounts DEF DropCounter
<1> HIDE DEF c
<1>6. CASE Discard(msg)
  <2> DEFINE hits == {"cnt_msgs_rx", DropCounter(msg)}
                       \cup (IF IsDup(msg) THEN {"cnt_seq_dup"} ELSE {})
  <2>1. Increment(hits, {}, Gap(msg))
    BY <1>6 DEF Discard
  <2> HIDE DEF hits
  <2> QED
    BY <1>2, <1>5, <2>1 DEF hits, c
<1>7. CASE Observe(msg)
  <2> DEFINE hits == BookHits(msg, b)
                       \cup (IF Conflict(msg, b) THEN {"err_signal_conflict"} ELSE {})
  <2>1. Increment(hits, {}, Gap(msg)) /\ c \notin hits
    BY <1>4, <1>7 DEF Observe, c
  <2> HIDE DEF hits
  <2> QED
    BY <1>2, <2>1 DEF c
<1>8. ASSUME NEW adverse \in BOOLEAN, Refuse(msg, adverse)
      PROVE  counters'[c] = Lesser(CounterMax, counters[c] + Gap(msg))
  <2> DEFINE gates == GatesFired(msg, b, side, now, adverse)
             hits == BookHits(msg, b) \cup SignalHits(side, adverse)
                       \cup {GATE_NAME[g] : g \in gates}
             again == {GATE_NAME[g] : g \in gates \cap {GATE_ML}}
  <2>1. gates \subseteq Gate
    BY DEF GatesFired
  <2>2. Increment(hits, again, Gap(msg))
    BY <1>8 DEF Refuse
  <2> HIDE DEF gates
  <2>3. c \notin hits /\ c \notin again
    BY <1>3, <1>4, <2>1
  <2> HIDE DEF hits, again
  <2> QED
    BY <1>2, <2>2, <2>3
<1>9. ASSUME NEW adverse \in BOOLEAN, Overflow(msg, adverse)
      PROVE  counters'[c] = Lesser(CounterMax, counters[c] + Gap(msg))
  <2> DEFINE hits == BookHits(msg, b) \cup SignalHits(side, adverse)
                       \cup {"cnt_order_overflow"}
  <2>1. Increment(hits, {}, Gap(msg)) /\ c \notin hits
    BY <1>4, <1>9 DEF Overflow, c
  <2> HIDE DEF hits
  <2> QED
    BY <1>2, <2>1
<1>10. ASSUME NEW adverse \in BOOLEAN, Trade(msg, adverse)
       PROVE  counters'[c] = Lesser(CounterMax, counters[c] + Gap(msg))
  <2> DEFINE hits == BookHits(msg, b) \cup SignalHits(side, adverse)
                       \cup {"cnt_orders_tx"}
  <2>1. Increment(hits, {}, Gap(msg)) /\ c \notin hits
    BY <1>4, <1>10 DEF Trade, c
  <2> HIDE DEF hits
  <2> QED
    BY <1>2, <2>1
<1> QED
  BY <1>6, <1>7, <1>8, <1>9, <1>10 DEF process_message, c

(* What is missing between two numbers. *)
Missing(first, last) == (first .. last) \ heard

GapInv ==
  /\ resync \in Nat
  /\ heard = {} => ~seq_gap /\ counters["cnt_seq_gap"] = 0
  /\ heard # {} =>
       /\ resync <= Highest + 1
       /\ seq_gap <=> ~(resync .. Highest \subseteq heard)
       /\ \E first \in heard :
            /\ \A k \in heard : first <= k
            /\ counters["cnt_seq_gap"] = Lesser(CounterMax, Cardinality(Missing(first, Highest)))

(* A number beyond the highest leaves the ones between missing. *)
LEMMA MissingGrows ==
  ASSUME NEW H \in Nat, NEW S \in SUBSET Nat, \A k \in S : k <= H,
         NEW first \in Nat, first <= H, NEW n \in Nat, n > H
  PROVE  /\ Cardinality((first .. H) \ S) \in Nat
         /\ Cardinality((first .. n) \ (S \cup {n}))
              = Cardinality((first .. H) \ S) + (n - H - 1)
<1> DEFINE A == (first .. H) \ S
           lo == H + 1
           hi == n - 1
           B == lo .. hi
<1>1. (first .. n) \ (S \cup {n}) = A \cup B
  OBVIOUS
<1>2. A \cap B = {}
  OBVIOUS
<1>3. lo \in Int /\ hi \in Int /\ hi - lo + 1 = n - H - 1 /\ (lo > hi => n - H - 1 = 0)
  OBVIOUS
<1>4. IsFiniteSet(first .. H) /\ A \subseteq first .. H
  BY FS_Interval
<1> HIDE DEF A
<1>5. IsFiniteSet(A) /\ Cardinality(A) \in Nat
  BY <1>4, FS_Subset, FS_CardinalityType
<1> HIDE DEF lo, hi
<1>6. IsFiniteSet(B) /\ Cardinality(B) = IF lo > hi THEN 0 ELSE hi - lo + 1
  BY <1>3, FS_Interval
<1> HIDE DEF B
<1>7. Cardinality(A \cup B) = Cardinality(A) + Cardinality(B) - Cardinality({})
  BY <1>2, <1>5, <1>6, FS_Union
<1>8. Cardinality({}) = 0
  BY FS_EmptySet
<1>9. Cardinality(B) = n - H - 1
  BY <1>3, <1>6
<1>10. Cardinality(A \cup B) = Cardinality(A) + (n - H - 1)
  BY <1>5, <1>7, <1>8, <1>9
<1> QED
  BY <1>1, <1>5, <1>10 DEF A

LEMMA Saturates ==
  ASSUME NEW M \in Nat, NEW c \in Nat, NEW g \in Nat
  PROVE  Lesser(M, Lesser(M, c) + g) = Lesser(M, c + g)
BY DEF Lesser

(* The flag, when message k comes in time or not. *)
LEMMA FlagMoves ==
  ASSUME NEW H \in Nat, NEW S \in SUBSET Nat, \A j \in S : j <= H,
         NEW r \in Nat, r <= H + 1, NEW k \in Nat, k > H
  PROVE  (r .. k \subseteq S \cup {k}) <=> (r .. H \subseteq S) /\ k = H + 1
<1>1. ASSUME r .. k \subseteq S \cup {k} PROVE (r .. H \subseteq S) /\ k = H + 1
  <2>1. ASSUME k # H + 1 PROVE FALSE
    <3>1. H + 1 \in r .. k /\ H + 1 # k /\ H + 1 \notin S
      BY <2>1
    <3> QED
      BY <1>1, <3>1
  <2>2. ASSUME NEW j \in r .. H PROVE j \in S
    <3>1. j \in r .. k /\ j # k
      OBVIOUS
    <3> QED
      BY <1>1, <3>1
  <2> QED
    BY <2>1, <2>2
<1>2. ASSUME r .. H \subseteq S, k = H + 1 PROVE r .. k \subseteq S \cup {k}
  <2>1. ASSUME NEW j \in r .. k PROVE j \in S \cup {k}
    <3>1. j = k \/ j \in r .. H
      BY <1>2
    <3> QED
      BY <1>2, <3>1
  <2> QED
    BY <2>1
<1> QED
  BY <1>1, <1>2

LEMMA HighestNext ==
  ASSUME GoldenTypeOK', HeardInv', heard' # {}
  PROVE  Highest' \in Nat /\ Highest' \in heard' /\ \A k \in heard' : k <= Highest'
<1>1. expected_seq' \in Nat
  BY DEF HeardInv, GoldenTypeOK
<1>2. expected_seq' - 1 \in heard' /\ expected_seq' - 1 \in Nat
      /\ \A k \in heard' : k <= expected_seq' - 1
  BY DEF HeardInv
<1>3. \A n \in heard' : (\A k \in heard' : k <= n) => n = expected_seq' - 1
  BY <1>2 DEF HeardInv
<1>4. Highest' = CHOOSE n \in heard' : \A k \in heard' : k <= n
  BY DEF Highest
<1>5. Highest' = expected_seq' - 1
  BY <1>2, <1>3, <1>4
<1> QED
  BY <1>2, <1>5

LEMMA GapMessage ==
  ASSUME GoldenTypeOK, HeardInv, HeardInv', GoldenTypeOK', GapInv, ProcessNext
  PROVE  GapInv'
<1> DEFINE msg == Head(pending)
           k == msg.seq_num
           H == Highest
           cnt == counters["cnt_seq_gap"]
           cntN == counters'["cnt_seq_gap"]
<1>1. process_message /\ SequenceHistory(msg)
  BY DEF ProcessNext
<1>2. msg \in Message /\ k \in Nat /\ msg.snapshot \in BOOLEAN
  BY <1>1, InHand DEF process_message, Message
<1>3. /\ heard' = IF k > H THEN heard \cup {k} ELSE heard
      /\ resync' = IF heard = {} THEN k
                   ELSE IF msg.snapshot THEN 1 + IF k > H THEN k ELSE H
                   ELSE resync
  BY <1>1 DEF SequenceHistory
<1>4. seq_gap' = (~msg.snapshot /\ (seq_gap \/ Gap(msg) > 0))
  BY <1>1, TradeOrNot DEF Arrive, TrackSequence, GapAfter
<1>5. cntN = Lesser(CounterMax, cnt + Gap(msg)) /\ cnt \in 0 .. CounterMax
  BY <1>1, GapCounted DEF GoldenTypeOK, Counter
<1>6. /\ heard = {} => Gap(msg) = 0
      /\ heard # {} => Gap(msg) = IF k > H THEN k - H - 1 ELSE 0
  BY <1>2, InTime
<1>7. heard \subseteq Nat /\ CounterMax \in Nat /\ resync \in Nat
  BY GoldenAssumption DEF HeardInv, GapInv
<1> DEFINE HN == Highest'
<1>8. heard' # {} => HN \in Nat /\ HN \in heard' /\ \A j \in heard' : j <= HN
  BY HighestNext
<1>9. CASE heard = {}
  <2>1. H = -1
    BY <1>9, HighestIs
  <2>2. heard' = {k} /\ resync' = k /\ seq_gap = FALSE /\ cnt = 0
    BY <1>2, <1>3, <1>9, <2>1 DEF GapInv
  <2>3. HN = k
    BY <1>8, <2>2
  <2>4. seq_gap' = FALSE /\ cntN = 0
    <3>1. Gap(msg) = 0
      BY <1>6, <1>9
    <3>2. ~(Gap(msg) > 0)
      BY <3>1
    <3>3. cntN = Lesser(CounterMax, 0 + 0)
      BY <1>5, <2>2, <3>1
    <3>4. cntN = 0
      BY <1>7, <3>3 DEF Lesser
    <3> QED
      BY <1>4, <2>2, <3>2, <3>4, Zenon
  <2>5. (k .. HN) \ heard' = {}
    BY <1>2, <2>2, <2>3 DEF Missing
  <2>6. Lesser(CounterMax, Cardinality({})) = 0
    BY <1>7, FS_EmptySet DEF Lesser
  <2>7. (resync' .. HN \subseteq heard')
    BY <1>2, <2>2, <2>3
  <2>8. resync' \in Nat /\ resync' <= HN + 1
    BY <1>2, <2>2, <2>3
  <2> HIDE DEF k, HN
  <2> QED
    <3>1. heard' # {}
      BY <2>2
    <3>2. \E f \in heard' : /\ \A j \in heard' : f <= j
                           /\ cntN = Lesser(CounterMax, Cardinality((f .. HN) \ heard'))
      BY <1>2, <2>2, <2>4, <2>5, <2>6
    <3> HIDE DEF cnt
    <3> QED
      BY <3>1, <3>2, <2>4, <2>7, <2>8 DEF GapInv, HN, Missing, cntN
<1>10. CASE heard # {} /\ k > H
  <2>1. /\ H \in Nat /\ H \in heard /\ \A j \in heard : j <= H
        /\ resync <= H + 1 /\ (seq_gap <=> ~(resync .. H \subseteq heard))
    BY <1>10, HighestIs DEF GapInv
  <2>2. PICK first \in heard :
          /\ \A j \in heard : first <= j
          /\ cnt = Lesser(CounterMax, Cardinality(Missing(first, H)))
    BY <1>10 DEF GapInv
  <2>3. heard' = heard \cup {k} /\ Gap(msg) = k - H - 1
    BY <1>3, <1>6, <1>10
  <2> HIDE DEF msg, k, H
  <2>4. HN = k
    BY <1>2, <1>7, <1>8, <1>10, <2>1, <2>3
  <2>5. first \in Nat /\ first <= H
    BY <1>7, <2>1, <2>2
  <2>6. /\ Cardinality((first .. H) \ heard) \in Nat
        /\ Cardinality((first .. k) \ (heard \cup {k}))
             = Cardinality((first .. H) \ heard) + (k - H - 1)
    BY <1>2, <1>7, <1>10, <2>1, <2>5, MissingGrows
  <2>7. cntN = Lesser(CounterMax, Cardinality((first .. HN) \ heard'))
    <3>1. (first .. HN) \ heard' = (first .. k) \ (heard \cup {k})
      BY <2>3, <2>4 DEF Missing
    <3>2. cntN = Lesser(CounterMax, Lesser(CounterMax, Cardinality((first .. H) \ heard)) + (k - H - 1))
      BY <1>5, <2>2, <2>3 DEF Missing
    <3>3. k - H - 1 \in Nat
      BY <1>2, <1>10, <2>1
    <3> QED
      <4> DEFINE c == Cardinality((first .. H) \ heard)
                 g == k - H - 1
      <4>1. c \in Nat /\ g \in Nat
        BY <2>6, <3>3
      <4>2. cntN = Lesser(CounterMax, Lesser(CounterMax, c) + g)
        BY <3>2
      <4>3. Cardinality((first .. HN) \ heard') = c + g
        BY <2>6, <3>1
      <4> HIDE DEF c, g, cntN, HN
      <4> QED
        BY <1>7, <4>1, <4>2, <4>3, Saturates
  <2>8. first \in heard' /\ \A j \in heard' : first <= j
    BY <1>2, <1>10, <2>1, <2>2, <2>3, <2>5
  <2>9. resync' \in Nat /\ resync' <= HN + 1
    BY <1>2, <1>3, <1>7, <1>10, <2>1, <2>4
  <2>10. seq_gap' <=> ~(resync' .. HN \subseteq heard')
    <3>1. CASE msg.snapshot
      <4>1. resync' = 1 + k /\ ~seq_gap'
        BY <1>3, <1>4, <1>10, <3>1
      <4>2. resync' .. HN = {}
        BY <1>2, <2>4, <4>1
      <4> QED
        BY <4>1, <4>2
    <3>2. CASE ~msg.snapshot
      <4>1. resync' = resync /\ (seq_gap' <=> seq_gap \/ k - H - 1 > 0)
        BY <1>3, <1>4, <1>10, <2>3, <3>2
      <4>2. (resync .. k \subseteq heard \cup {k}) <=> (resync .. H \subseteq heard) /\ k = H + 1
        BY <1>2, <1>7, <1>10, <2>1, FlagMoves
      <4>3. k - H - 1 > 0 <=> k # H + 1
        BY <1>2, <1>10, <2>1
      <4> QED
        BY <2>1, <2>3, <2>4, <4>1, <4>2, <4>3
    <3> QED
      BY <3>1, <3>2
  <2> QED
    <3>1. heard' # {}
      BY <2>8
    <3>2. \E f \in heard' : /\ \A j \in heard' : f <= j
                           /\ cntN = Lesser(CounterMax, Cardinality((f .. HN) \ heard'))
      BY <2>7, <2>8
    <3> HIDE DEF cnt
    <3> QED
      BY <3>1, <3>2, <2>9, <2>10 DEF GapInv, HN, Missing, cntN
<1>11. CASE heard # {} /\ ~(k > H)
  <2>1. /\ H \in Nat /\ resync <= H + 1 /\ (seq_gap <=> ~(resync .. H \subseteq heard))
    BY <1>11, HighestIs DEF GapInv
  <2>2. PICK first \in heard :
          /\ \A j \in heard : first <= j
          /\ cnt = Lesser(CounterMax, Cardinality(Missing(first, H)))
    BY <1>11 DEF GapInv
  <2>3. heard' = heard /\ Gap(msg) = 0
    BY <1>3, <1>6, <1>11
  <2>4. HN = H
    BY <2>3 DEF Highest
  <2> HIDE DEF msg, k, H
  <2>5. cntN = cnt
    BY <1>5, <1>7, <2>3 DEF Lesser
  <2>6. (first .. HN) \ heard' = Missing(first, H)
    BY <2>3, <2>4 DEF Missing
  <2>7. resync' \in Nat /\ resync' <= HN + 1
    BY <1>3, <1>7, <1>11, <2>1, <2>4
  <2>8. seq_gap' <=> ~(resync' .. HN \subseteq heard')
    <3>1. CASE msg.snapshot
      <4>1. resync' = 1 + H /\ ~seq_gap'
        BY <1>3, <1>4, <1>11, <3>1
      <4>2. resync' .. HN = {}
        BY <2>1, <2>4, <4>1
      <4> QED
        BY <4>1, <4>2
    <3>2. CASE ~msg.snapshot
      <4>1. ~(Gap(msg) > 0)
        BY <2>3
      <4>2. resync' = resync /\ (seq_gap' <=> seq_gap)
        BY <1>3, <1>4, <1>11, <3>2, <4>1
      <4> QED
        BY <2>1, <2>3, <2>4, <4>2
    <3> QED
      BY <3>1, <3>2
  <2> QED
    <3>1. heard' # {}
      BY <1>11, <2>3
    <3>2. \E f \in heard' : /\ \A j \in heard' : f <= j
                           /\ cntN = Lesser(CounterMax, Cardinality((f .. HN) \ heard'))
      BY <2>2, <2>3, <2>5, <2>6
    <3> HIDE DEF cnt
    <3> QED
      BY <3>1, <3>2, <2>7, <2>8 DEF GapInv, HN, Missing, cntN
<1> QED
  BY <1>9, <1>10, <1>11

LEMMA GapStep ==
  ASSUME GoldenTypeOK, HeardInv, HeardInv', GoldenTypeOK', GapInv, [Next]_vars
  PROVE  GapInv'
<1>1. CASE ProcessNext
  BY <1>1, GapMessage
<1>2. CASE UNCHANGED heard /\ UNCHANGED <<seq_gap, resync>>
             /\ counters'["cnt_seq_gap"] = counters["cnt_seq_gap"]
  BY <1>2 DEF GapInv, Highest, Missing
<1>3. CASE /\ UNCHANGED heard /\ ~seq_gap'
           /\ resync' = IF heard = {} THEN resync ELSE Highest + 1
           /\ counters'["cnt_seq_gap"] = counters["cnt_seq_gap"]
  <2>1. Highest' = Highest
    BY <1>3 DEF Highest
  <2>2. CASE heard = {}
    BY <1>3, <2>2 DEF GapInv
  <2>3. CASE heard # {}
    <3>1. Highest \in Nat
      BY <2>3, HighestIs
    <3>2. resync' = Highest + 1 /\ resync' .. Highest' = {}
      BY <1>3, <2>1, <2>3, <3>1
    <3>3. resync' \in Nat /\ resync' <= Highest' + 1
      BY <2>1, <3>1, <3>2
    <3>4. seq_gap' <=> ~(resync' .. Highest' \subseteq heard')
      BY <1>3, <3>2
    <3>5. \E first \in heard' :
            /\ \A k \in heard' : first <= k
            /\ counters'["cnt_seq_gap"]
                 = Lesser(CounterMax, Cardinality((first .. Highest') \ heard'))
      BY <1>3, <2>1, <2>3 DEF GapInv, Missing
    <3> QED
      BY <1>3, <2>3, <3>3, <3>4, <3>5 DEF GapInv, Missing
  <2> QED
    BY <2>2, <2>3
<1> QED
  BY <1>1, <1>2, <1>3, UnnumberedSteps DEF Unnumbered

LEMMA GapTold ==
  ASSUME HeardInv, GapInv PROVE GapsTold
<1> SUFFICES ASSUME heard # {} PROVE GapsTold
  BY DEF GapsTold
<1>1. PICK first \in heard :
        /\ \A k \in heard : first <= k
        /\ counters["cnt_seq_gap"] = Lesser(CounterMax, Cardinality(Missing(first, Highest)))
  BY DEF GapInv
<1>2. \A n \in heard : (\A k \in heard : n <= k) => n = first
  BY <1>1 DEF HeardInv
<1>3. (CHOOSE n \in heard : \A k \in heard : n <= k) = first
  BY <1>1, <1>2
<1> QED
  BY <1>1, <1>3 DEF GapsTold, GapInv, Missing

(***************************************************************************)
(* Whatever the order in which numbers come, repeated, late or skipped,    *)
(* the gap flag is up exactly when a number is missing since the last      *)
(* resynchronization, and the counter tells exactly how many were ever     *)
(* missing: comparing each number with the one expected, as                *)
(* golden_model.py does, loses nothing against remembering them all.       *)
(***************************************************************************)
THEOREM GapsSafe == Spec => []GapsTold
<1>1. Init => GapInv
  <2>1. "cnt_seq_gap" \in Counter
    BY DEF Counter
  <2> QED
    BY <2>1 DEF Init, GoldenInit, GapInv
<1>2. /\ GoldenTypeOK /\ GoldenTypeOK' /\ HeardInv /\ HeardInv' /\ GapInv /\ [Next]_vars
      => GapInv'
  BY GapStep
<1>3. HeardInv /\ GapInv => GapsTold
  BY GapTold
<1> QED
  BY <1>1, <1>2, <1>3, BenchSafe, PTL DEF Spec

-----------------------------------------------------------------------------
(* The engine's feed modules beside the model. *)

Watching(c) == {i \in 1 .. Lesser(c.num_symbols, Len(c.symbols)) : c.symbol_en[i]}

(* The engine has a slot for every symbol the model watches, and no two    *)
(* slots watch the same one ("a misconfiguration", symbol_filter.v:35);    *)
(* IMB_SHIFT has two bits.                                                 *)
EngineFits ==
  \A c \in Configs :
    /\ c.symbols \in Seq(Nat) /\ c.symbol_en \in Seq(BOOLEAN)
    /\ c.imb \in {1, 2, 4, 8}
    /\ \A i \in Watching(c) : i - 1 \in Slot /\ c.symbols[i] \in Symbol
    /\ \A i, j \in Watching(c) : c.symbols[i] = c.symbols[j] => i = j

RtlQuote == [price : 0 .. WordMod - 1, qty : 0 .. WordMod - 1, valid : BOOLEAN]

EngineInv ==
  /\ EngineAgrees
  /\ rtl_seen_first \in BOOLEAN /\ rtl_gap \in BOOLEAN
  /\ rtl_bid \in [Slot -> RtlQuote]
  /\ rtl_ask \in [Slot -> RtlQuote]

LEMMA ModSmall ==
  ASSUME NEW m \in Nat \ {0}, NEW x \in 0 .. m - 1
  PROVE  x % m = x
OBVIOUS

LEMMA SlotsWatch ==
  ASSUME EngineFits, cfg \in Configs
  PROVE  /\ \A s \in Slot : rtlCfg.symbol_en[s] <=> s + 1 \in Watching(cfg)
         /\ \A s \in Slot : rtlCfg.symbol_en[s] => rtlCfg.symbol[s] = cfg.symbols[s + 1]
<1> DEFINE n == Len(cfg.symbols)
<1>1. n \in Nat /\ DOMAIN cfg.symbols = 1 .. n
  BY DEF EngineFits
<1>2. cfg.num_symbols \in Nat
  BY ConfigAssumption
<1>3. ASSUME NEW s \in Slot
      PROVE  /\ rtlCfg.symbol_en[s] <=> s + 1 \in Watching(cfg)
             /\ rtlCfg.symbol_en[s] => rtlCfg.symbol[s] = cfg.symbols[s + 1]
  <2>1. s \in Nat
    BY BenchAssumption
  <2> HIDE DEF n
  <2>2. s + 1 \in 1 .. Lesser(cfg.num_symbols, n) <=> s < cfg.num_symbols /\ s + 1 \in 1 .. n
    BY <1>1, <1>2, <2>1 DEF Lesser
  <2>3. rtlCfg.symbol_en[s]
          = (s < cfg.num_symbols /\ s + 1 \in DOMAIN cfg.symbols /\ cfg.symbol_en[s + 1])
    BY DEF rtlCfg
  <2>4. rtlCfg.symbol[s]
          = IF s < cfg.num_symbols /\ s + 1 \in DOMAIN cfg.symbols
            THEN cfg.symbols[s + 1] ELSE 0
    BY DEF rtlCfg
  <2>5. s + 1 \in Watching(cfg)
          <=> s + 1 \in 1 .. Lesser(cfg.num_symbols, n) /\ cfg.symbol_en[s + 1]
    BY DEF Watching, n
  <2> QED
    BY <1>1, <2>2, <2>3, <2>4, <2>5
<1> QED
  BY <1>3

(* The filter finds a slot for exactly the messages of watched symbols,    *)
(* and never a choice between two.                                         *)
LEMMA FilterAgrees ==
  ASSUME EngineFits, cfg \in Configs, NEW msg
  PROVE  LET in == BookIn(msg)
             s == Tob!filt_slot(in)
         IN  /\ in.valid <=> msg.msg_type \in VALID_MSG_TYPES /\ ~msg.reserved
             /\ s = NoSlot <=> ~(in.valid /\ msg.symbol_id \in watched_symbols)
             /\ s # NoSlot =>
                  /\ s \in Slot /\ rtlCfg.symbol_en[s]
                  /\ rtlCfg.symbol[s] = msg.symbol_id
                  /\ \A r \in Slot : rtlCfg.symbol_en[r]
                                       /\ rtlCfg.symbol[r] = msg.symbol_id => r = s
<1> DEFINE in == BookIn(msg)
           M(r) == rtlCfg.symbol_en[r] /\ rtlCfg.symbol[r] = msg.symbol_id
<1>1. /\ in.valid = (msg.msg_type \in VALID_MSG_TYPES /\ ~msg.reserved)
      /\ in.symbol = msg.symbol_id /\ in.cfg = rtlCfg
  BY DEF BookIn
<1>2. \A r \in Slot : Tob!Matches(r, in) <=> M(r)
  BY <1>1 DEF Tob!Matches
<1>3. watched_symbols = {cfg.symbols[i] : i \in Watching(cfg)}
  BY DEF watched_symbols, Watching
<1>4. ASSUME NEW r \in Slot, NEW q \in Slot, M(r), M(q) PROVE r = q
  <2>1. /\ r + 1 \in Watching(cfg) /\ q + 1 \in Watching(cfg)
        /\ cfg.symbols[r + 1] = cfg.symbols[q + 1]
    BY <1>4, SlotsWatch
  <2>2. r + 1 = q + 1 /\ r \in Nat /\ q \in Nat
    BY <2>1, BenchAssumption DEF EngineFits
  <2> QED
    BY <2>2
<1>5. (\E r \in Slot : M(r)) <=> msg.symbol_id \in watched_symbols
  <2>1. ASSUME NEW r \in Slot, M(r) PROVE msg.symbol_id \in watched_symbols
    BY <1>3, <2>1, SlotsWatch
  <2>2. ASSUME NEW i \in Watching(cfg), msg.symbol_id = cfg.symbols[i]
        PROVE  \E r \in Slot : M(r)
    <3>1. i - 1 \in Slot /\ (i - 1) + 1 = i
      BY DEF EngineFits, Watching
    <3>2. M(i - 1)
      BY <2>2, <3>1, SlotsWatch
    <3> QED
      BY <3>1, <3>2
  <2> QED
    BY <1>3, <2>1, <2>2
<1>6. NoSlot \notin Slot /\ Slot \subseteq Nat
  BY BenchAssumption
<1>7. CASE in.valid /\ \E r \in Slot : M(r)
  <2>1. PICK r \in Slot : M(r)
    BY <1>7
  <2>2. \A q \in Slot : Tob!Matches(q, in) <=> q = r
    BY <1>2, <1>4, <2>1
  <2>3. r <= r
    BY <1>6
  <2>4. Tob!filt_slot(in)
          = CHOOSE q \in Slot : Tob!Matches(q, in)
                                /\ \A p \in Slot : Tob!Matches(p, in) => q <= p
    BY <1>7, <2>1, <2>2 DEF Tob!filt_slot
  <2> HIDE DEF in
  <2>5. Tob!filt_slot(in) = r
    BY <2>2, <2>3, <2>4
  <2> QED
    BY <1>1, <1>4, <1>5, <1>6, <1>7, <2>1, <2>5 DEF in
<1>8. CASE ~(in.valid /\ \E r \in Slot : M(r))
  <2>1. ~(in.valid /\ \E r \in Slot : Tob!Matches(r, in))
    BY <1>2, <1>8
  <2>2. Tob!filt_slot(in) = NoSlot
    BY <2>1 DEF Tob!filt_slot
  <2> QED
    BY <1>1, <1>5, <1>8, <2>2
<1> QED
  BY <1>7, <1>8

(* The monitor's one expected number and the model's. *)
LEMMA NumbersAgree ==
  ASSUME EngineInv, GoldenTypeOK, NEW msg \in WireMessage
  PROVE  /\ Mon!err_seq_dup(SeqIn(msg)) <=> IsDup(msg)
         /\ Mon!SeqStep(SeqIn(msg)) /\ TrackSequence(msg) =>
              /\ rtl_seen_first' = TRUE /\ expected_seq' \in Nat
              /\ expected_seq' # None /\ rtl_expected' = expected_seq'
              /\ rtl_gap' = seq_gap' /\ rtl_gap' \in BOOLEAN
<1> DEFINE k == msg.seq_num
           in == SeqIn(msg)
<1>1. k \in 0 .. WordMod - 2 /\ msg.snapshot \in BOOLEAN /\ WordMod \in Nat \ {0}
  BY BenchAssumption DEF WireMessage
<1>2. /\ in.complete = TRUE /\ in.seq = k /\ in.snapshot = msg.snapshot
      /\ in.seq_gap_clear = FALSE
  BY DEF SeqIn
<1>3. /\ rtl_seen_first <=> expected_seq # None
      /\ expected_seq # None => rtl_expected = expected_seq
      /\ rtl_gap = seq_gap
      /\ rtl_seen_first \in BOOLEAN /\ seq_gap \in BOOLEAN
      /\ expected_seq \in Nat \cup {None} /\ None \notin Int
  BY GoldenAssumption DEF EngineInv, EngineAgrees, GoldenTypeOK
<1> HIDE DEF in
<1>4. Mon!err_seq_dup(in) <=> IsDup(msg)
  BY <1>1, <1>2, <1>3 DEF Mon!err_seq_dup, IsDup, Expected
<1>5. Mon!seq_gap_pulse(in) <=> Gap(msg) > 0
  BY <1>1, <1>2, <1>3 DEF Mon!seq_gap_pulse, Gap, Expected
<1>6. (k + 1) % WordMod = k + 1
  BY <1>1, ModSmall
<1>7. ASSUME Mon!SeqStep(in), TrackSequence(msg)
      PROVE  /\ rtl_seen_first' = TRUE /\ expected_seq' \in Nat
             /\ expected_seq' # None /\ rtl_expected' = expected_seq'
             /\ rtl_gap' = seq_gap' /\ rtl_gap' \in BOOLEAN
  <2>1. /\ rtl_seen_first' = (rtl_seen_first \/ in.complete)
        /\ rtl_expected' = IF in.complete /\ ~Mon!err_seq_dup(in)
                           THEN (k + 1) % WordMod ELSE rtl_expected
        /\ rtl_gap' = (/\ ~in.seq_gap_clear
                       /\ ~(in.complete /\ in.snapshot)
                       /\ rtl_gap \/ Mon!seq_gap_pulse(in))
    BY <1>2, <1>7 DEF Mon!SeqStep, Mon!ExpectedStep, Mon!GapStep
  <2>2. /\ expected_seq' = IF IsDup(msg) THEN expected_seq ELSE k + 1
        /\ seq_gap' = (~msg.snapshot /\ (seq_gap \/ Gap(msg) > 0))
    BY <1>7 DEF TrackSequence, GapAfter
  <2>3. rtl_gap' = seq_gap' /\ rtl_gap' \in BOOLEAN
    BY <1>2, <1>3, <1>5, <2>1, <2>2
  <2>4. IsDup(msg) => expected_seq # None
    BY <1>1, <1>3 DEF IsDup, Expected
  <2>5. k + 1 \in Nat /\ k + 1 # None
    BY <1>1, <1>3
  <2> QED
    BY <1>2, <1>3, <1>4, <1>6, <2>1, <2>2, <2>3, <2>4, <2>5
<1> QED
  BY <1>4, <1>7 DEF in

LEMMA TypeAgrees ==
  ASSUME NEW msg, msg.msg_type \in VALID_MSG_TYPES, ~msg.reserved
  PROVE  /\ BookIn(msg).type = Tob!QUOTE <=> msg.msg_type = MSG_QUOTE
         /\ BookIn(msg).type = Tob!CLEAR <=> msg.msg_type = MSG_CLEAR
<1> DEFINE t == msg.msg_type
<1>1. t \in {1, 2, 3, 255}
  BY DEF VALID_MSG_TYPES, MSG_QUOTE, MSG_TRADE, MSG_CLEAR, MSG_HEARTBEAT
<1>2. BookIn(msg).type = TypeName[t]
  BY DEF BookIn
<1>3. TypeName[t] = CASE t = 1 -> "quote" [] t = 2 -> "trade"
                      [] t = 3 -> "clear" [] t = 255 -> "heartbeat"
  BY DEF TypeName, Tob!QUOTE, Tob!TRADE, Tob!CLEAR, Tob!HEARTBEAT, MSG_QUOTE, MSG_TRADE,
         MSG_CLEAR, MSG_HEARTBEAT, VALID_MSG_TYPES
<1> HIDE DEF t
<1>4. /\ TypeName[t] = "quote" <=> t = 1
      /\ TypeName[t] = "clear" <=> t = 3
  BY <1>1, <1>3
<1> QED
  BY <1>2, <1>4 DEF Tob!QUOTE, Tob!CLEAR, MSG_QUOTE, MSG_CLEAR, t

LEMMA QuoteType ==
  ASSUME NEW in, NEW side, NEW old \in RtlQuote,
         in.price \in 0 .. WordMod - 1, in.qty \in 0 .. WordMod - 1
  PROVE  Tob!Updated(old, side, in) \in RtlQuote
BY DEF Tob!Updated, RtlQuote

(* A usable message changes both books of its symbol the same way. *)
LEMMA BooksAgree ==
  ASSUME EngineInv, GoldenTypeOK, EngineFits, NEW msg \in WireMessage, Usable(msg),
         NEW now \in Nat
  PROVE  LET in == BookIn(msg)
             b == BookAfter(msg, now)
         IN  /\ b \in Book
             /\ Tob!next_bid(in) = [price |-> b.bid_price, qty |-> b.bid_qty,
                                    valid |-> b.bid_valid]
             /\ Tob!next_ask(in) = [price |-> b.ask_price, qty |-> b.ask_qty,
                                    valid |-> b.ask_valid]
             /\ Tob!next_bid(in) \in RtlQuote /\ Tob!next_ask(in) \in RtlQuote
<1> DEFINE in == BookIn(msg)
           s == Tob!filt_slot(in)
           old == books[msg.symbol_id]
           b == BookAfter(msg, now)
           Same == /\ Tob!next_bid(in) = [price |-> b.bid_price, qty |-> b.bid_qty,
                                          valid |-> b.bid_valid]
                   /\ Tob!next_ask(in) = [price |-> b.ask_price, qty |-> b.ask_qty,
                                          valid |-> b.ask_valid]
<1>1. msg.msg_type \in VALID_MSG_TYPES /\ ~msg.reserved /\ msg.symbol_id \in watched_symbols
  BY DEF Usable
<1>2. s \in Slot /\ rtlCfg.symbol_en[s] /\ rtlCfg.symbol[s] = msg.symbol_id
  BY <1>1, FilterAgrees DEF GoldenTypeOK
<1>3. SameBook(s, old)
  BY <1>2 DEF EngineInv, EngineAgrees
<1>4. /\ in.type = Tob!QUOTE <=> msg.msg_type = MSG_QUOTE
      /\ in.type = Tob!CLEAR <=> msg.msg_type = MSG_CLEAR
  BY <1>1, TypeAgrees
<1>5. /\ in.side = IF msg.side = SIDE_BID THEN Tob!BID ELSE Tob!ASK
      /\ in.price = msg.price /\ in.qty = msg.quantity
      /\ msg.price \in 0 .. WordMod - 1 /\ msg.quantity \in 0 .. WordMod - 1
      /\ msg.symbol_id \in Symbol
  BY DEF BookIn, WireMessage
<1>6. rtl_bid[s] \in RtlQuote /\ rtl_ask[s] \in RtlQuote
  BY <1>2 DEF EngineInv
<1>7. old \in Book
  BY <1>5 DEF GoldenTypeOK
<1>8. /\ Tob!next_bid(in) = Tob!Updated(rtl_bid[s], Tob!BID, in)
      /\ Tob!next_ask(in) = Tob!Updated(rtl_ask[s], Tob!ASK, in)
  BY DEF Tob!next_bid, Tob!next_ask
<1> HIDE DEF in, s
<1>9. Tob!next_bid(in) \in RtlQuote /\ Tob!next_ask(in) \in RtlQuote
  BY <1>5, <1>6, <1>8, QuoteType
<1>10. b = [(IF msg.msg_type = MSG_QUOTE THEN Quoted(old, msg)
             ELSE IF msg.msg_type = MSG_CLEAR THEN Cleared(old) ELSE old)
              EXCEPT !.last_update_cycle = now]
  BY DEF BookAfter
<1>11. b \in Book
  <2>1. msg \in Message
    BY BenchAssumption DEF WireMessage, Message
  <2> QED
    BY <2>1, BookType DEF GoldenTypeOK
<1>12. /\ rtl_bid[s].price = old.bid_price /\ rtl_bid[s].qty = old.bid_qty
       /\ rtl_bid[s].valid = old.bid_valid
       /\ rtl_ask[s].price = old.ask_price /\ rtl_ask[s].qty = old.ask_qty
       /\ rtl_ask[s].valid = old.ask_valid
  BY <1>3 DEF SameBook
<1> HIDE DEF b, old
<1>13. ASSUME msg.msg_type = MSG_QUOTE PROVE Same
  <2>1. b = [Quoted(old, msg) EXCEPT !.last_update_cycle = now]
    BY <1>10, <1>13
  <2>2. in.type = Tob!QUOTE
    BY <1>4, <1>13
  <2>3. CASE msg.side = SIDE_BID
    <3>1. in.side = Tob!BID /\ in.side # Tob!ASK
      BY <1>5, <2>3 DEF Tob!BID, Tob!ASK
    <3>2. /\ Tob!next_bid(in) = [price |-> IF in.qty # 0 THEN in.price ELSE rtl_bid[s].price,
                                 qty |-> in.qty, valid |-> in.qty # 0]
          /\ Tob!next_ask(in) = rtl_ask[s]
      BY <1>8, <2>2, <3>1 DEF Tob!Updated, Tob!QUOTE, Tob!CLEAR
    <3>3. b = [old EXCEPT !.bid_price = IF msg.quantity # 0 THEN msg.price ELSE @,
                          !.bid_qty = msg.quantity, !.bid_valid = msg.quantity # 0,
                          !.last_update_cycle = now]
      BY <1>7, <2>1, <2>3 DEF Quoted, Book
    <3>4. /\ b.bid_price = (IF msg.quantity # 0 THEN msg.price ELSE old.bid_price)
          /\ b.bid_qty = msg.quantity /\ b.bid_valid = (msg.quantity # 0)
          /\ b.ask_price = old.ask_price /\ b.ask_qty = old.ask_qty
          /\ b.ask_valid = old.ask_valid
      BY <1>7, <3>3 DEF Book
    <3> QED
      BY <1>3, <1>5, <1>12, <3>2, <3>4 DEF SameBook
  <2>4. CASE msg.side # SIDE_BID
    <3>1. in.side = Tob!ASK /\ in.side # Tob!BID
      BY <1>5, <2>4 DEF Tob!BID, Tob!ASK
    <3>2. /\ Tob!next_ask(in) = [price |-> IF in.qty # 0 THEN in.price ELSE rtl_ask[s].price,
                                 qty |-> in.qty, valid |-> in.qty # 0]
          /\ Tob!next_bid(in) = rtl_bid[s]
      BY <1>8, <2>2, <3>1 DEF Tob!Updated, Tob!QUOTE, Tob!CLEAR
    <3>3. b = [old EXCEPT !.ask_price = IF msg.quantity # 0 THEN msg.price ELSE @,
                          !.ask_qty = msg.quantity, !.ask_valid = msg.quantity # 0,
                          !.last_update_cycle = now]
      BY <1>7, <2>1, <2>4 DEF Quoted, Book
    <3>4. /\ b.ask_price = (IF msg.quantity # 0 THEN msg.price ELSE old.ask_price)
          /\ b.ask_qty = msg.quantity /\ b.ask_valid = (msg.quantity # 0)
          /\ b.bid_price = old.bid_price /\ b.bid_qty = old.bid_qty
          /\ b.bid_valid = old.bid_valid
      BY <1>7, <3>3 DEF Book
    <3> QED
      BY <1>3, <1>5, <1>12, <3>2, <3>4 DEF SameBook
  <2> QED
    BY <2>3, <2>4
<1>14. ASSUME msg.msg_type = MSG_CLEAR PROVE Same
  <2>1. msg.msg_type # MSG_QUOTE /\ in.type = Tob!CLEAR /\ in.type # Tob!QUOTE
    BY <1>4, <1>14 DEF MSG_CLEAR, MSG_QUOTE
  <2>2. b = [old EXCEPT !.bid_valid = FALSE, !.ask_valid = FALSE, !.last_update_cycle = now]
    BY <1>7, <1>10, <1>14, <2>1 DEF Cleared, Book
  <2>3. /\ Tob!next_bid(in) = [rtl_bid[s] EXCEPT !.valid = FALSE]
        /\ Tob!next_ask(in) = [rtl_ask[s] EXCEPT !.valid = FALSE]
    BY <1>8, <2>1 DEF Tob!Updated
  <2>4. /\ b.bid_price = old.bid_price /\ b.bid_qty = old.bid_qty /\ b.bid_valid = FALSE
        /\ b.ask_price = old.ask_price /\ b.ask_qty = old.ask_qty /\ b.ask_valid = FALSE
    BY <1>7, <2>2 DEF Book
  <2>5. /\ Tob!next_bid(in) = [price |-> rtl_bid[s].price, qty |-> rtl_bid[s].qty,
                               valid |-> FALSE]
        /\ Tob!next_ask(in) = [price |-> rtl_ask[s].price, qty |-> rtl_ask[s].qty,
                               valid |-> FALSE]
    BY <1>6, <2>3 DEF RtlQuote
  <2> QED
    BY <1>12, <2>4, <2>5
<1>15. ASSUME msg.msg_type # MSG_QUOTE, msg.msg_type # MSG_CLEAR PROVE Same
  <2>1. b = [old EXCEPT !.last_update_cycle = now]
    BY <1>10, <1>15
  <2>2. Tob!next_bid(in) = rtl_bid[s] /\ Tob!next_ask(in) = rtl_ask[s]
    BY <1>4, <1>8, <1>15 DEF Tob!Updated
  <2>3. /\ b.bid_price = old.bid_price /\ b.bid_qty = old.bid_qty
        /\ b.bid_valid = old.bid_valid
        /\ b.ask_price = old.ask_price /\ b.ask_qty = old.ask_qty
        /\ b.ask_valid = old.ask_valid
    BY <1>7, <2>1 DEF Book
  <2> QED
    BY <1>3, <2>2, <2>3 DEF SameBook
<1> QED
  BY <1>9, <1>11, <1>13, <1>14, <1>15 DEF in, b

LEMMA ShiftedIs ==
  ASSUME NEW q \in 0 .. WordMod - 1, NEW c, c.imb \in {1, 2, 4, 8}
  PROVE  Sig!Shifted(q, c) = q * c.imb
<1> DEFINE x == q * c.imb
<1>1. WordMod \in Nat \ {0} /\ 8 * WordMod \in Nat \ {0}
  BY BenchAssumption
<1>2. x \in 0 .. (8 * WordMod) - 1
  <2>1. CASE c.imb = 1 BY <1>1, <2>1
  <2>2. CASE c.imb = 2 BY <1>1, <2>2
  <2>3. CASE c.imb = 4 BY <1>1, <2>3
  <2>4. CASE c.imb = 8 BY <1>1, <2>4
  <2> QED BY <2>1, <2>2, <2>3, <2>4
<1>3. Sig!Shifted(q, c) = x % (8 * WordMod)
  BY DEF Sig!Shifted
<1> HIDE DEF x
<1>4. x % (8 * WordMod) = x
  BY <1>1, <1>2, ModSmall
<1> QED
  BY <1>3, <1>4 DEF x

(* On the same book the registers' rule, with its widths, is the model's. *)
LEMMA RulesAgree ==
  ASSUME EngineFits, cfg \in Configs, NEW b, NEW in, in.cfg = rtlCfg,
         in.bid = [price |-> b.bid_price, qty |-> b.bid_qty, valid |-> b.bid_valid],
         in.ask = [price |-> b.ask_price, qty |-> b.ask_qty, valid |-> b.ask_valid],
         in.bid \in RtlQuote, in.ask \in RtlQuote,
         in.crossed <=> crossed(b)
  PROVE  (Sig!BuyOk(in) <=> buy_ok(b)) /\ (Sig!SellOk(in) <=> sell_ok(b))
<1>1. /\ in.bid.price = b.bid_price /\ in.bid.qty = b.bid_qty /\ in.bid.valid = b.bid_valid
      /\ in.ask.price = b.ask_price /\ in.ask.qty = b.ask_qty /\ in.ask.valid = b.ask_valid
  OBVIOUS
<1>2. /\ b.bid_price \in 0 .. WordMod - 1 /\ b.bid_qty \in 0 .. WordMod - 1
      /\ b.ask_price \in 0 .. WordMod - 1 /\ b.ask_qty \in 0 .. WordMod - 1
      /\ b.bid_valid \in BOOLEAN /\ b.ask_valid \in BOOLEAN
  BY <1>1 DEF RtlQuote
<1>3. in.cfg.imb = cfg.imb /\ in.cfg.min_spread = cfg.min_spread
      /\ cfg.imb \in {1, 2, 4, 8}
  BY DEF rtlCfg, EngineFits
<1>4. Sig!Shifted(in.ask.qty, in.cfg) = b.ask_qty * cfg.imb
  BY <1>1, <1>2, <1>3, ShiftedIs
<1>5. Sig!Shifted(in.bid.qty, in.cfg) = b.bid_qty * cfg.imb
  BY <1>1, <1>2, <1>3, ShiftedIs
<1>6. Sig!BaseOk(in) <=> Tradable(b)
  <2>1. CASE b.bid_valid /\ b.ask_valid /\ ~crossed(b)
    <3> DEFINE d == b.ask_price - b.bid_price
    <3>1. WordMod \in Nat \ {0} /\ d \in 0 .. WordMod - 1
      BY <1>2, <2>1, BenchAssumption DEF crossed
    <3> HIDE DEF d
    <3>2. d % WordMod = d
      BY <3>1, ModSmall
    <3>3. Sig!SpreadOk(in) <=> d >= cfg.min_spread
      BY <1>1, <1>3, <3>2 DEF Sig!SpreadOk, d
    <3> QED
      BY <1>1, <2>1, <3>3 DEF Sig!BaseOk, Tradable, d
  <2>2. CASE ~(b.bid_valid /\ b.ask_valid /\ ~crossed(b))
    BY <1>1, <2>2 DEF Sig!BaseOk, Tradable
  <2> QED
    BY <2>1, <2>2
<1> QED
  BY <1>1, <1>4, <1>5, <1>6 DEF Sig!BuyOk, Sig!SellOk, buy_ok, sell_ok

LEMMA Applied ==
  ASSUME EngineInv, GoldenTypeOK, EngineFits, NEW msg \in WireMessage
  PROVE  Tob!msg_applied(BookIn(msg)) <=> Usable(msg)
<1>1. BookIn(msg).dup = Mon!err_seq_dup(SeqIn(msg))
  BY DEF BookIn
<1>2. BookIn(msg).dup <=> IsDup(msg)
  BY <1>1, NumbersAgree
<1>3. Tob!filt_slot(BookIn(msg)) # NoSlot
        <=> msg.msg_type \in VALID_MSG_TYPES /\ ~msg.reserved /\ msg.symbol_id \in watched_symbols
  BY FilterAgrees DEF GoldenTypeOK
<1> QED
  BY <1>2, <1>3 DEF Tob!msg_applied, Usable

(* The registered intent and the model's signal, on a usable message. *)
LEMMA SignalAgrees ==
  ASSUME EngineInv, GoldenTypeOK, EngineFits, NEW msg \in WireMessage, Usable(msg),
         NEW now \in Nat, Sig!SignalStep(SigIn(BookIn(msg)))
  PROVE  LET b == BookAfter(msg, now)
             side == SignalSide(msg, b)
         IN  /\ rtl_sig' # NoIntent <=> side # None
             /\ rtl_sig' # NoIntent =>
                  /\ rtl_sig'.side = IF side = SIDE_BID THEN Tob!BID ELSE Tob!ASK
                  /\ rtl_sig'.price = OrderPrice(side, b)
                  /\ rtl_sig'.slot = Tob!filt_slot(BookIn(msg))
<1> DEFINE b == BookAfter(msg, now)
           side == SignalSide(msg, b)
           in == BookIn(msg)
           s == Tob!filt_slot(in)
           w == SigIn(in)
           Same == /\ rtl_sig' # NoIntent <=> side # None
                   /\ rtl_sig' # NoIntent =>
                        /\ rtl_sig'.side = IF side = SIDE_BID THEN Tob!BID ELSE Tob!ASK
                        /\ rtl_sig'.price = OrderPrice(side, b)
                        /\ rtl_sig'.slot = s
<1>1. Tob!msg_applied(in)
  BY Applied
<1>2. /\ in.type = Tob!QUOTE <=> msg.msg_type = MSG_QUOTE
      /\ in.type = Tob!CLEAR <=> msg.msg_type = MSG_CLEAR
  BY TypeAgrees DEF Usable
<1>3. Tob!book_upd_valid(in) <=> msg.msg_type \in {MSG_QUOTE, MSG_CLEAR}
  BY <1>1, <1>2 DEF Tob!book_upd_valid
<1>4. None # SIDE_BID /\ None # SIDE_ASK /\ SIDE_BID # SIDE_ASK
  BY GoldenAssumption DEF SIDE_BID, SIDE_ASK
<1>5. ASSUME ~Tob!book_upd_valid(in) PROVE Same
  <2>1. w = [upd |-> FALSE]
    BY <1>5 DEF SigIn
  <2>2. rtl_sig' = NoIntent
    BY <2>1 DEF Sig!SignalStep
  <2>3. side = None
    BY <1>3, <1>5 DEF SignalSide
  <2> QED
    BY <2>2, <2>3
<1>6. ASSUME Tob!book_upd_valid(in) PROVE Same
  <2>1. /\ w.upd = TRUE /\ w.slot = s /\ w.cfg = rtlCfg
        /\ w.bid = Tob!next_bid(in) /\ w.ask = Tob!next_ask(in)
        /\ w.crossed = Tob!next_crossed(in)
    BY <1>6 DEF SigIn
  <2>2. /\ b \in Book
        /\ w.bid = [price |-> b.bid_price, qty |-> b.bid_qty, valid |-> b.bid_valid]
        /\ w.ask = [price |-> b.ask_price, qty |-> b.ask_qty, valid |-> b.ask_valid]
        /\ w.bid \in RtlQuote /\ w.ask \in RtlQuote
    BY <2>1, BooksAgree
  <2>3. w.crossed <=> crossed(b)
    <3> HIDE DEF w, b, in
    <3>1. w.crossed = (/\ w.bid.valid /\ w.ask.valid /\ w.bid.price >= w.ask.price)
      BY <2>1 DEF Tob!next_crossed, Tob!Crossing
    <3>2. /\ w.bid.valid = b.bid_valid /\ w.ask.valid = b.ask_valid
          /\ w.bid.price = b.bid_price /\ w.ask.price = b.ask_price
      BY <2>2
    <3> QED
      BY <3>1, <3>2 DEF crossed
  <2>4. (Sig!BuyOk(w) <=> buy_ok(b)) /\ (Sig!SellOk(w) <=> sell_ok(b))
    <3> HIDE DEF w, b
    <3>1. cfg \in Configs
      BY DEF GoldenTypeOK
    <3> QED
      BY <2>1, <2>2, <2>3, <3>1, RulesAgree
  <2>5. s \in Slot /\ cfg.order_qty \in Nat /\ w.cfg.order_qty = cfg.order_qty
    <3>1. s \in Slot
      BY <1>1, FilterAgrees DEF Tob!msg_applied, GoldenTypeOK
    <3>2. cfg.order_qty \in Nat
      BY ConfigAssumption DEF GoldenTypeOK
    <3> QED
      BY <2>1, <3>1, <3>2 DEF rtlCfg
  <2>6. /\ w.bid.price = b.bid_price /\ w.ask.price = b.ask_price
        /\ b.bid_price \in Nat /\ b.ask_price \in Nat
    BY <2>2 DEF Book
  <2>7. msg.msg_type \in {MSG_QUOTE, MSG_CLEAR}
    BY <1>3, <1>6
  <2>8. side = IF buy_ok(b) /\ sell_ok(b) THEN None
               ELSE IF buy_ok(b) THEN SIDE_BID ELSE IF sell_ok(b) THEN SIDE_ASK ELSE None
    BY <2>7 DEF SignalSide, Conflict
  <2> HIDE DEF w, b, s, side
  <2>9. rtl_sig' = IF buy_ok(b) /\ sell_ok(b) THEN NoIntent
                   ELSE IF buy_ok(b) THEN Sig!Order(s, "bid", b.ask_price, cfg.order_qty)
                   ELSE IF sell_ok(b) THEN Sig!Order(s, "ask", b.bid_price, cfg.order_qty)
                   ELSE NoIntent
    <3>1. Sig!SignalStep(w)
      BY DEF w
    <3> QED
      BY <2>1, <2>4, <2>5, <2>6, <3>1 DEF Sig!SignalStep, Sig!err_signal_conflict
  <2>10. \A p \in Nat : /\ Sig!Order(s, "bid", p, cfg.order_qty) # NoIntent
                        /\ Sig!Order(s, "ask", p, cfg.order_qty) # NoIntent
    BY <2>5, BenchAssumption DEF Sig!Order, Tob!BID, Tob!ASK
  <2>11. CASE buy_ok(b) /\ ~sell_ok(b)
    <3>1. side = SIDE_BID /\ rtl_sig' = Sig!Order(s, "bid", b.ask_price, cfg.order_qty)
      BY <2>8, <2>9, <2>11
    <3>2. OrderPrice(side, b) = b.ask_price
      BY <3>1 DEF OrderPrice
    <3> QED
      BY <1>4, <2>6, <2>10, <3>1, <3>2 DEF Sig!Order, Tob!BID
  <2>12. CASE ~buy_ok(b) /\ sell_ok(b)
    <3>1. side = SIDE_ASK /\ rtl_sig' = Sig!Order(s, "ask", b.bid_price, cfg.order_qty)
      BY <2>8, <2>9, <2>12
    <3>2. OrderPrice(side, b) = b.bid_price
      BY <1>4, <3>1 DEF OrderPrice
    <3> QED
      BY <1>4, <2>6, <2>10, <3>1, <3>2 DEF Sig!Order, Tob!ASK
  <2>13. CASE buy_ok(b) <=> sell_ok(b)
    BY <2>8, <2>9, <2>13
  <2> QED
    BY <2>11, <2>12, <2>13
<1> QED
  BY <1>5, <1>6

(* What the model makes of a message, by whether it can use it. *)
LEMMA FateIs ==
  ASSUME process_message
  PROVE  LET msg == Head(pending)
             b == BookAfter(msg, MessageCycle)
             side == SignalSide(msg, b)
         IN  /\ ~Usable(msg) => UNCHANGED books /\ result' = NoResult
             /\ Usable(msg) =>
                  /\ books' = [books EXCEPT ![msg.symbol_id] = b]
                  /\ result'.signal = side
                  /\ result'.order # NoOrder =>
                       /\ result'.order.price = OrderPrice(side, b)
                       /\ result'.order.symbol_id = msg.symbol_id
<1> DEFINE msg == Head(pending)
           b == BookAfter(msg, MessageCycle)
           side == SignalSide(msg, b)
           Used == /\ books' = [books EXCEPT ![msg.symbol_id] = b]
                   /\ result'.signal = side
                   /\ result'.order # NoOrder =>
                        /\ result'.order.price = OrderPrice(side, b)
                        /\ result'.order.symbol_id = msg.symbol_id
<1>1. CASE Discard(msg)
  BY <1>1 DEF Discard
<1>2. CASE Observe(msg)
  BY <1>2 DEF Observe, Apply, NoResult
<1>3. ASSUME NEW adverse \in BOOLEAN, Refuse(msg, adverse) PROVE Usable(msg) /\ Used
  BY <1>3 DEF Refuse, Apply, Record
<1>4. ASSUME NEW adverse \in BOOLEAN, Overflow(msg, adverse) PROVE Usable(msg) /\ Used
  BY <1>4 DEF Overflow, Apply
<1>5. ASSUME NEW adverse \in BOOLEAN, Trade(msg, adverse) PROVE Usable(msg) /\ Used
  BY <1>5 DEF Trade, Apply, Record
<1> QED
  BY <1>1, <1>2, <1>3, <1>4, <1>5 DEF process_message

LEMMA EngineMessage ==
  ASSUME EngineInv, GoldenTypeOK, EngineFits, Fits, ProcessNext
  PROVE  EngineInv'
<1> DEFINE msg == Head(pending)
           now == MessageCycle
           b == BookAfter(msg, now)
           side == SignalSide(msg, b)
           in == BookIn(msg)
           s == Tob!filt_slot(in)
<1>1. /\ process_message /\ pending # <<>> /\ cfg' = cfg
      /\ Mon!SeqStep(SeqIn(msg)) /\ Tob!BookStep(in) /\ Sig!SignalStep(SigIn(in))
  BY DEF ProcessNext, process_message, RtlMessage
<1>2. msg \in WireMessage /\ now \in Nat /\ cfg \in Configs
  BY <1>1, InHand, HeadTailProperties DEF Fits, GoldenTypeOK
<1>3. TrackSequence(msg)
  BY <1>1, TradeOrNot DEF Arrive
<1>4. /\ rtl_seen_first' = TRUE /\ expected_seq' # None /\ rtl_expected' = expected_seq'
      /\ rtl_gap' = seq_gap' /\ rtl_gap' \in BOOLEAN
  BY <1>1, <1>2, <1>3, NumbersAgree
<1>5. rtlCfg' = rtlCfg
  BY <1>1 DEF rtlCfg
<1>6. Tob!msg_applied(in) <=> Usable(msg)
  BY <1>2, Applied
<1> DEFINE Books == /\ rtl_bid' \in [Slot -> RtlQuote] /\ rtl_ask' \in [Slot -> RtlQuote]
                    /\ \A r \in Slot : rtlCfg'.symbol_en[r] =>
                         SameBook(r, books[rtlCfg.symbol[r]])'
           Signal == /\ rtl_sig' # NoIntent <=> result'.signal # None
                     /\ rtl_sig' # NoIntent =>
                          /\ rtl_sig'.side = IF result'.signal = SIDE_BID
                                             THEN Tob!BID ELSE Tob!ASK
                          /\ result'.order # NoOrder =>
                               /\ rtl_sig'.price = result'.order.price
                               /\ rtlCfg'.symbol[rtl_sig'.slot] = result'.order.symbol_id
<1>7. CASE ~Usable(msg)
  <2>1. UNCHANGED <<books, rtl_bid, rtl_ask>> /\ result' = NoResult
    BY <1>1, <1>6, <1>7, FateIs DEF Tob!BookStep, Tob!bookVars
  <2>2. Books
    BY <1>5, <2>1 DEF EngineInv, EngineAgrees, SameBook
  <2>3. rtl_sig' = NoIntent
    <3>1. SigIn(in) = [upd |-> FALSE]
      BY <1>6, <1>7 DEF SigIn, Tob!book_upd_valid
    <3> QED
      BY <1>1, <3>1 DEF Sig!SignalStep
  <2>4. Signal
    BY <2>1, <2>3 DEF NoResult
  <2> QED
    BY <1>4, <2>2, <2>4 DEF EngineInv, EngineAgrees
<1>8. CASE Usable(msg)
  <2>1. /\ s \in Slot /\ rtlCfg.symbol_en[s] /\ rtlCfg.symbol[s] = msg.symbol_id
        /\ \A r \in Slot : rtlCfg.symbol_en[r] /\ rtlCfg.symbol[r] = msg.symbol_id => r = s
    BY <1>2, <1>8, FilterAgrees DEF Usable
  <2>2. /\ b \in Book
        /\ Tob!next_bid(in) = [price |-> b.bid_price, qty |-> b.bid_qty, valid |-> b.bid_valid]
        /\ Tob!next_ask(in) = [price |-> b.ask_price, qty |-> b.ask_qty, valid |-> b.ask_valid]
        /\ Tob!next_bid(in) \in RtlQuote /\ Tob!next_ask(in) \in RtlQuote
    BY <1>2, <1>8, BooksAgree
  <2>3. /\ rtl_bid' = [rtl_bid EXCEPT ![s] = Tob!next_bid(in)]
        /\ rtl_ask' = [rtl_ask EXCEPT ![s] = Tob!next_ask(in)]
    BY <1>1, <1>6, <1>8 DEF Tob!BookStep
  <2>4. /\ books' = [books EXCEPT ![msg.symbol_id] = b]
        /\ result'.signal = side
        /\ result'.order # NoOrder => /\ result'.order.price = OrderPrice(side, b)
                                      /\ result'.order.symbol_id = msg.symbol_id
    BY <1>1, <1>8, FateIs
  <2>5. /\ rtl_sig' # NoIntent <=> side # None
        /\ rtl_sig' # NoIntent =>
             /\ rtl_sig'.side = IF side = SIDE_BID THEN Tob!BID ELSE Tob!ASK
             /\ rtl_sig'.price = OrderPrice(side, b)
             /\ rtl_sig'.slot = s
    BY <1>1, <1>2, <1>8, SignalAgrees
  <2> HIDE DEF s, in, b, side, now
  <2>6. Signal
    BY <1>5, <2>1, <2>4, <2>5
  <2>7. ASSUME NEW r \in Slot, rtlCfg'.symbol_en[r]
        PROVE  SameBook(r, books[rtlCfg.symbol[r]])'
    <3>1. rtlCfg.symbol_en[r] /\ rtlCfg.symbol[r] \in Symbol
      <4>1. rtlCfg.symbol_en[r]
        BY <1>5, <2>7
      <4>2. r + 1 \in Watching(cfg) /\ rtlCfg.symbol[r] = cfg.symbols[r + 1]
        BY <1>2, <4>1, SlotsWatch
      <4> QED
        BY <1>2, <4>1, <4>2 DEF EngineFits
    <3>2. CASE r = s
      <4>1. books'[rtlCfg.symbol[r]] = b
        BY <2>1, <2>4, <3>1, <3>2 DEF GoldenTypeOK
      <4>2. rtl_bid'[r] = Tob!next_bid(in) /\ rtl_ask'[r] = Tob!next_ask(in)
        BY <2>1, <2>3, <3>2 DEF EngineInv
      <4> QED
        BY <1>5, <2>2, <4>1, <4>2 DEF SameBook
    <3>3. CASE r # s
      <4>1. rtlCfg.symbol[r] # msg.symbol_id
        BY <2>1, <3>1, <3>3
      <4>2. books'[rtlCfg.symbol[r]] = books[rtlCfg.symbol[r]]
        BY <2>4, <3>1, <4>1 DEF GoldenTypeOK
      <4>3. rtl_bid'[r] = rtl_bid[r] /\ rtl_ask'[r] = rtl_ask[r]
        BY <2>3, <3>3 DEF EngineInv
      <4>4. SameBook(r, books[rtlCfg.symbol[r]])
        BY <3>1 DEF EngineInv, EngineAgrees
      <4> QED
        BY <1>5, <4>2, <4>3, <4>4 DEF SameBook
    <3> QED
      BY <3>2, <3>3
  <2>8. Books
    BY <2>2, <2>3, <2>7 DEF EngineInv
  <2> QED
    BY <1>4, <2>6, <2>8 DEF EngineInv, EngineAgrees
<1> QED
  BY <1>7, <1>8

LEMMA EngineStep ==
  ASSUME EngineInv, GoldenTypeOK, EngineFits, Fits, [Next]_vars
  PROVE  EngineInv'
<1>1. ASSUME NEW clear \in BOOLEAN, RtlQuiet(clear), cfg' = cfg, result' = NoResult,
             UNCHANGED <<books, expected_seq>>,
             seq_gap' = (~clear /\ seq_gap)
      PROVE  EngineInv'
  <2>1. /\ UNCHANGED <<rtl_seen_first, rtl_expected, rtl_bid, rtl_ask>>
        /\ rtl_gap' = (~clear /\ rtl_gap) /\ rtl_sig' = NoIntent
    <3>1. /\ rtl_seen_first' = (rtl_seen_first \/ FALSE)
          /\ rtl_expected' = rtl_expected
          /\ rtl_gap' = (~clear /\ ~FALSE /\ (rtl_gap \/ FALSE))
      BY <1>1 DEF RtlQuiet, Mon!SeqStep, Mon!ExpectedStep, Mon!GapStep, Mon!seq_gap_pulse
    <3>2. UNCHANGED <<rtl_bid, rtl_ask>> /\ rtl_sig' = NoIntent
      BY <1>1 DEF RtlQuiet, Sig!SignalStep
    <3> QED
      BY <3>1, <3>2 DEF EngineInv
  <2>2. rtlCfg' = rtlCfg
    BY <1>1 DEF rtlCfg
  <2>3. rtl_gap' = seq_gap' /\ rtl_gap' \in BOOLEAN
    BY <1>1, <2>1 DEF EngineInv, EngineAgrees
  <2> QED
    BY <1>1, <2>1, <2>2, <2>3 DEF EngineInv, EngineAgrees, SameBook, NoResult
<1>2. CASE ProcessNext
  BY <1>2, EngineMessage
<1>3. CASE FrameTaken
  <2>1. UNCHANGED <<cfg, books, expected_seq, seq_gap>> /\ result' = NoResult
    BY <1>3 DEF FrameTaken, TakesFrame, process_frame, feedVars
  <2>2. seq_gap' = (~FALSE /\ seq_gap)
    BY <2>1 DEF GoldenTypeOK
  <2> QED
    BY <1>1, <1>3, <2>1, <2>2 DEF FrameTaken
<1>4. CASE KillSwitched
  <2>1. UNCHANGED <<cfg, books, expected_seq, seq_gap>> /\ result' = NoResult
    BY <1>4 DEF KillSwitched, assert_kill_switch, clear_kill_switch, ControlCall
  <2>2. seq_gap' = (~FALSE /\ seq_gap)
    BY <2>1 DEF GoldenTypeOK
  <2> QED
    BY <1>1, <1>4, <2>1, <2>2 DEF KillSwitched
<1>5. CASE GapCleared
  <2>1. UNCHANGED <<cfg, books, expected_seq>> /\ result' = NoResult /\ seq_gap' = FALSE
    BY <1>5 DEF GapCleared, clear_seq_gap, ControlCall
  <2>2. seq_gap' = (~TRUE /\ seq_gap)
    BY <2>1
  <2> QED
    BY <1>1, <1>5, <2>1, <2>2 DEF GapCleared
<1>6. CASE Elsewhere
  BY <1>6 DEF Elsewhere, goldenVars, feedVars, rtlVars, EngineInv, EngineAgrees, SameBook,
              rtlCfg
<1> QED
  BY <1>2, <1>3, <1>4, <1>5, <1>6, StepKinds

LEMMA EngineInit ==
  ASSUME EngineFits, Init PROVE EngineInv
<1>1. /\ expected_seq = None /\ rtl_seen_first = FALSE /\ rtl_expected = 0
      /\ rtl_gap = FALSE /\ seq_gap = FALSE
      /\ rtl_sig = NoIntent /\ result.signal = None /\ cfg \in Configs
      /\ books = [s \in Symbol |-> NewBook]
      /\ rtl_bid = [s \in Slot |-> [price |-> 0, qty |-> 0, valid |-> FALSE]]
      /\ rtl_ask = [s \in Slot |-> [price |-> 0, qty |-> 0, valid |-> FALSE]]
  BY DEF Init, GoldenInit, NoResult, Mon!SeqReset, Tob!BookReset, Tob!NoQuote, Sig!SigReset
<1>2. [price |-> 0, qty |-> 0, valid |-> FALSE] \in RtlQuote
  BY BenchAssumption DEF RtlQuote
<1>3. ASSUME NEW s \in Slot, rtlCfg.symbol_en[s] PROVE SameBook(s, books[rtlCfg.symbol[s]])
  <2>1. s + 1 \in Watching(cfg) /\ rtlCfg.symbol[s] = cfg.symbols[s + 1]
    BY <1>1, <1>3, SlotsWatch
  <2>2. rtlCfg.symbol[s] \in Symbol
    BY <1>1, <2>1 DEF EngineFits
  <2>3. books[rtlCfg.symbol[s]] = NewBook
    BY <1>1, <2>2
  <2>4. /\ rtl_bid[s] = [price |-> 0, qty |-> 0, valid |-> FALSE]
        /\ rtl_ask[s] = [price |-> 0, qty |-> 0, valid |-> FALSE]
    BY <1>1
  <2>5. SameBook(s, NewBook)
    BY <2>4 DEF SameBook, NewBook
  <2> QED
    BY <2>3, <2>5
<1> QED
  BY <1>1, <1>2, <1>3 DEF EngineInv, EngineAgrees

(***************************************************************************)
(* seq_monitor.v, symbol_filter.v, tob_engine.v and signal_engine.v agree  *)
(* with golden_model.py after every message, whatever the feed says, loses *)
(* or repeats: the expected number and the gap flag, every watched book,   *)
(* and the signal with its side, price and symbol.  The engine's widths    *)
(* are enough (the 35-bit product, the wrapping spread), as long as no     *)
(* sequence number wraps and every symbol watched has a slot of its own.   *)
(***************************************************************************)
THEOREM EngineSafe ==
  ASSUME EngineFits PROVE Spec => []EngineAgrees
<1>1. Init => EngineInv
  BY EngineInit
<1>2. GoldenTypeOK /\ FitInv /\ EngineInv /\ [Next]_vars => EngineInv'
  BY EngineStep DEF FitInv
<1>3. EngineInv => EngineAgrees
  BY DEF EngineInv
<1> QED
  BY <1>1, <1>2, <1>3, BenchSafe, PTL DEF Spec

-----------------------------------------------------------------------------
(* What becomes of a signal. *)

(* Below saturation a counter is never more than the messages received.    *)
LEMMA TrackedMoves ==
  ASSUME counters \in [Counter -> 0 .. CounterMax], NEW hits, NEW again, NEW gap \in Nat,
         Increment(hits, again, gap), counters["cnt_msgs_rx"] + 1 < CounterMax,
         NEW c \in Counter, c # "cnt_seq_gap", c \notin again,
         counters[c] <= counters["cnt_msgs_rx"]
  PROVE  counters'[c] = counters[c] + One(c \in hits)
<1>1. counters'[c] = Lesser(CounterMax, counters[c] + One(c \in hits) + 0 + 0)
  BY IncrementType DEF One
<1>2. counters[c] \in Nat /\ One(c \in hits) \in {0, 1}
  BY DEF One
<1>3. counters["cnt_msgs_rx"] \in Nat
  BY DEF Counter
<1> QED
  BY <1>1, <1>2, <1>3, GoldenAssumption DEF Lesser

(* The balance, and that no more signals than messages were counted.       *)
SignalsSoFar == counters["cnt_signal_buy"] + counters["cnt_signal_sell"]
RefusedSoFar == SignalsSoFar - counters["cnt_orders_tx"] - counters["cnt_order_overflow"]

SignalInv ==
  counters["cnt_msgs_rx"] < CounterMax =>
    /\ SignalsSoFar <= counters["cnt_msgs_rx"]
    /\ RefusedSoFar >= 0
    /\ \A g \in Gate \ {GATE_ML} : counters[GATE_NAME[g]] <= RefusedSoFar
    /\ RefusedSoFar <= Sum([g \in Gate |-> counters[GATE_NAME[g]]], Gate)
    /\ counters["cnt_ml_events"] = SignalsSoFar
    /\ counters["cnt_ml_adverse"] + counters["cnt_ml_benign"] = SignalsSoFar

LEMMA SignalInvBalance ==
  SignalInv => SignalBalance
<1> DEFINE f == [g \in Gate |-> counters[GATE_NAME[g]]]
<1>1. SumFunction(f) = Sum(f, Gate)
  BY DEF SumFunction, Sum
<1> HIDE DEF f
<1> QED
  BY <1>1 DEF SignalInv, SignalBalance, SignalsSoFar, RefusedSoFar, f

(* The seven counters of a signal's fate, one by one.                      *)
CoreMoves(hits) ==
  \A c \in Fired \cup {"cnt_ml_events"} \cup Classified \cup Left :
    counters'[c] = counters[c] + One(c \in hits)

LEMMA CoreMoved ==
  ASSUME counters \in [Counter -> 0 .. CounterMax], SignalInv,
         NEW hits, NEW again \in SUBSET Refusals(Gate), NEW gap \in Nat,
         Increment(hits, again, gap), counters["cnt_msgs_rx"] + 1 < CounterMax
  PROVE  CoreMoves(hits)
<1> DEFINE Core == Fired \cup {"cnt_ml_events"} \cup Classified \cup Left
<1>1. Core \subseteq Counter /\ "cnt_seq_gap" \notin Core /\ "cnt_msgs_rx" \in Counter
  BY DEF Fired, Classified, Left, Counter
<1>2. Core \cap again = {}
  BY RefusalNames
<1>3. \A c \in Core : counters[c] \in Nat
  BY <1>1
<1>4. counters["cnt_msgs_rx"] \in Nat /\ counters["cnt_msgs_rx"] < CounterMax
  BY <1>1, GoldenAssumption
<1>5. \A c \in Core : counters[c] <= counters["cnt_msgs_rx"]
  <2>1. /\ counters["cnt_signal_buy"] \in Nat /\ counters["cnt_signal_sell"] \in Nat
        /\ counters["cnt_ml_events"] \in Nat /\ counters["cnt_ml_adverse"] \in Nat
        /\ counters["cnt_ml_benign"] \in Nat /\ counters["cnt_orders_tx"] \in Nat
        /\ counters["cnt_order_overflow"] \in Nat
    BY <1>3 DEF Fired, Classified, Left
  <2>2. /\ counters["cnt_signal_buy"] <= counters["cnt_msgs_rx"]
        /\ counters["cnt_signal_sell"] <= counters["cnt_msgs_rx"]
        /\ counters["cnt_ml_events"] <= counters["cnt_msgs_rx"]
        /\ counters["cnt_ml_adverse"] <= counters["cnt_msgs_rx"]
        /\ counters["cnt_ml_benign"] <= counters["cnt_msgs_rx"]
        /\ counters["cnt_orders_tx"] <= counters["cnt_msgs_rx"]
        /\ counters["cnt_order_overflow"] <= counters["cnt_msgs_rx"]
    BY <1>4, <2>1 DEF SignalInv, SignalsSoFar, RefusedSoFar
  <2> QED
    BY <2>2 DEF Fired, Classified, Left
<1> HIDE DEF Core
<1>6. ASSUME NEW c \in Core PROVE counters'[c] = counters[c] + One(c \in hits)
  <2>1. c \in Counter /\ c # "cnt_seq_gap" /\ c \notin again
    BY <1>1, <1>2
  <2> QED
    BY <1>5, <2>1, TrackedMoves
<1> QED
  BY <1>6 DEF CoreMoves, Core

(* Every gate's counter grows by one where the gate fired, and by no more, *)
(* but that of gate ML, which may saturate.                                *)
GateMoves(hits) ==
  /\ \A g \in Gate \ {GATE_ML} :
       counters'[GATE_NAME[g]] = counters[GATE_NAME[g]] + One(GATE_NAME[g] \in hits)
  /\ counters'[GATE_NAME[GATE_ML]] >= counters[GATE_NAME[GATE_ML]]
  /\ \/ GATE_NAME[GATE_ML] \notin hits
     \/ counters'[GATE_NAME[GATE_ML]] > counters[GATE_NAME[GATE_ML]]
     \/ counters'[GATE_NAME[GATE_ML]] = CounterMax

LEMMA GateMoved ==
  ASSUME counters \in [Counter -> 0 .. CounterMax], SignalInv,
         NEW hits, NEW again \in SUBSET Refusals({GATE_ML}), NEW gap \in Nat,
         Increment(hits, again, gap), counters["cnt_msgs_rx"] + 1 < CounterMax
  PROVE  GateMoves(hits)
<1> DEFINE ml == GATE_NAME[GATE_ML]
<1>1. /\ GATE_ML \in Gate
      /\ \A g \in Gate : GATE_NAME[g] \in Counter /\ GATE_NAME[g] # "cnt_seq_gap"
      /\ \A g \in Gate \ {GATE_ML} : GATE_NAME[g] \notin again
  <2>1. GATE_ML \in Gate
    BY DEF GATE_ML, Gate
  <2> QED
    BY <2>1, RefusalNames DEF Refusals
<1>2. ASSUME NEW g \in Gate \ {GATE_ML}
      PROVE  counters'[GATE_NAME[g]] = counters[GATE_NAME[g]] + One(GATE_NAME[g] \in hits)
  <2>1. counters[GATE_NAME[g]] <= RefusedSoFar /\ SignalsSoFar <= counters["cnt_msgs_rx"]
    <3>1. counters["cnt_msgs_rx"] \in Nat
      BY DEF Counter
    <3>2. counters["cnt_msgs_rx"] < CounterMax
      BY <3>1, GoldenAssumption
    <3> QED
      BY <3>2 DEF SignalInv
  <2>2. /\ counters["cnt_signal_buy"] \in Nat /\ counters["cnt_signal_sell"] \in Nat
        /\ counters["cnt_orders_tx"] \in Nat /\ counters["cnt_order_overflow"] \in Nat
        /\ counters["cnt_msgs_rx"] \in Nat /\ counters[GATE_NAME[g]] \in Nat
    BY <1>1 DEF Counter
  <2>3. counters[GATE_NAME[g]] <= counters["cnt_msgs_rx"]
    BY <2>1, <2>2 DEF RefusedSoFar, SignalsSoFar
  <2> QED
    BY <1>1, <2>3, TrackedMoves
<1>3. /\ counters'[ml] = Lesser(CounterMax, counters[ml] + One(ml \in hits)
                                             + One(ml \in again) + 0)
      /\ counters[ml] \in 0 .. CounterMax
  BY <1>1, IncrementType
<1>4. One(ml \in hits) \in {0, 1} /\ One(ml \in again) \in {0, 1}
      /\ (ml \in hits => One(ml \in hits) = 1)
  BY DEF One
<1> HIDE DEF ml
<1>5. /\ counters'[ml] >= counters[ml]
      /\ ml \notin hits \/ counters'[ml] > counters[ml] \/ counters'[ml] = CounterMax
  BY <1>3, <1>4, GoldenAssumption DEF Lesser
<1> QED
  BY <1>2, <1>5 DEF GateMoves, ml

(* k signals more, r of them refused. *)
Delta(hits, k, r) ==
  /\ k \in {0, 1} /\ r \in {0, 1} /\ r <= k
  /\ One("cnt_signal_buy" \in hits) + One("cnt_signal_sell" \in hits) = k
  /\ One("cnt_ml_events" \in hits) = k
  /\ One("cnt_ml_adverse" \in hits) + One("cnt_ml_benign" \in hits) = k
  /\ One("cnt_orders_tx" \in hits) + One("cnt_order_overflow" \in hits) = k - r
  /\ r = 0 <=> hits \cap Refusals(Gate) = {}

LEMMA OutcomeDelta ==
  ASSUME NEW hits, NEW again, Outcome(hits, again)
  PROVE  \E k, r : Delta(hits, k, r)
<1>1. /\ \A c \in {"cnt_signal_buy", "cnt_signal_sell", "cnt_ml_events", "cnt_ml_adverse",
                    "cnt_ml_benign", "cnt_orders_tx", "cnt_order_overflow"} :
             c \in Tracked /\ c \notin Refusals(Gate)
      /\ Refusals(Gate) \subseteq Tracked
  BY RefusalNames DEF Tracked, Fired, Classified, Left
<1>2. CASE hits \cap Tracked = {}
  <2>1. Delta(hits, 0, 0)
    BY <1>1, <1>2 DEF Delta, One
  <2> QED
    BY <2>1
<1>3. ASSUME NEW more, Signalled(hits, more), NEW c \in Left, more = {c}
      PROVE  Delta(hits, 1, 0)
  <2>1. PICK s \in Fired, v \in Classified :
          hits \cap Tracked = {s, "cnt_ml_events", v, c}
    BY <1>3 DEF Signalled
  <2>2. \A x \in Tracked : x \in hits <=> x \in {s, "cnt_ml_events", v, c}
    BY <2>1
  <2>3. s \notin Refusals(Gate) /\ v \notin Refusals(Gate) /\ c \notin Refusals(Gate)
    BY <1>1 DEF Fired, Classified, Left
  <2>4. hits \cap Refusals(Gate) = {}
    BY <1>1, <2>2, <2>3
  <2>5. One("cnt_signal_buy" \in hits) + One("cnt_signal_sell" \in hits) = 1
    BY <1>1, <2>2 DEF Fired, Classified, Left, One
  <2>6. One("cnt_ml_events" \in hits) = 1
    BY <1>1, <2>2 DEF One
  <2>7. One("cnt_ml_adverse" \in hits) + One("cnt_ml_benign" \in hits) = 1
    BY <1>1, <2>2 DEF Fired, Classified, Left, One
  <2>8. One("cnt_orders_tx" \in hits) + One("cnt_order_overflow" \in hits) = 1
    BY <1>1, <2>2 DEF Fired, Classified, Left, One
  <2> QED
    BY <2>4, <2>5, <2>6, <2>7, <2>8 DEF Delta
<1>4. ASSUME NEW G \in SUBSET Gate, G # {}, Signalled(hits, Refusals(G))
      PROVE  Delta(hits, 1, 1)
  <2> DEFINE more == Refusals(G)
  <2>1. more \subseteq Refusals(Gate) /\ more # {}
    BY <1>4 DEF Refusals
  <2>2. PICK s \in Fired, v \in Classified :
          hits \cap Tracked = {s, "cnt_ml_events", v} \cup more
    BY <1>4 DEF Signalled
  <2> HIDE DEF more
  <2>3. \A x \in Tracked : x \in hits <=> x \in {s, "cnt_ml_events", v} \/ x \in more
    BY <2>2
  <2>4. hits \cap Refusals(Gate) # {}
    BY <1>1, <2>1, <2>3
  <2>5. \A x \in Tracked : x \notin Refusals(Gate) =>
          (x \in hits <=> x \in {s, "cnt_ml_events", v})
    BY <2>1, <2>3
  <2>6. One("cnt_signal_buy" \in hits) + One("cnt_signal_sell" \in hits) = 1
    BY <1>1, <2>5 DEF Fired, Classified, One
  <2>7. One("cnt_ml_events" \in hits) = 1
    BY <1>1, <2>5 DEF One
  <2>8. One("cnt_ml_adverse" \in hits) + One("cnt_ml_benign" \in hits) = 1
    BY <1>1, <2>5 DEF Fired, Classified, One
  <2>9. One("cnt_orders_tx" \in hits) + One("cnt_order_overflow" \in hits) = 0
    BY <1>1, <2>5 DEF Fired, Classified, One
  <2> QED
    BY <2>4, <2>6, <2>7, <2>8, <2>9 DEF Delta
<1> QED
  BY <1>2, <1>3, <1>4 DEF Outcome

LEMMA CoreDelta ==
  ASSUME counters \in [Counter -> 0 .. CounterMax], NEW hits, CoreMoves(hits),
         NEW k, NEW r, Delta(hits, k, r)
  PROVE  /\ SignalsSoFar \in Int /\ RefusedSoFar \in Int
         /\ SignalsSoFar' = SignalsSoFar + k
         /\ RefusedSoFar' = RefusedSoFar + r
         /\ counters["cnt_ml_events"]' = counters["cnt_ml_events"] + k
         /\ counters["cnt_ml_adverse"]' + counters["cnt_ml_benign"]'
              = counters["cnt_ml_adverse"] + counters["cnt_ml_benign"] + k
<1>1. /\ counters["cnt_signal_buy"] \in Nat /\ counters["cnt_signal_sell"] \in Nat
      /\ counters["cnt_ml_events"] \in Nat /\ counters["cnt_ml_adverse"] \in Nat
      /\ counters["cnt_ml_benign"] \in Nat /\ counters["cnt_orders_tx"] \in Nat
      /\ counters["cnt_order_overflow"] \in Nat
  BY DEF Counter
<1>2. /\ counters'["cnt_signal_buy"]
            = counters["cnt_signal_buy"] + One("cnt_signal_buy" \in hits)
      /\ counters'["cnt_signal_sell"]
            = counters["cnt_signal_sell"] + One("cnt_signal_sell" \in hits)
      /\ counters'["cnt_ml_events"]
            = counters["cnt_ml_events"] + One("cnt_ml_events" \in hits)
      /\ counters'["cnt_ml_adverse"]
            = counters["cnt_ml_adverse"] + One("cnt_ml_adverse" \in hits)
      /\ counters'["cnt_ml_benign"]
            = counters["cnt_ml_benign"] + One("cnt_ml_benign" \in hits)
      /\ counters'["cnt_orders_tx"]
            = counters["cnt_orders_tx"] + One("cnt_orders_tx" \in hits)
      /\ counters'["cnt_order_overflow"]
            = counters["cnt_order_overflow"] + One("cnt_order_overflow" \in hits)
  BY DEF CoreMoves, Fired, Classified, Left
<1>3. /\ One("cnt_signal_buy" \in hits) \in Nat /\ One("cnt_signal_sell" \in hits) \in Nat
      /\ One("cnt_ml_events" \in hits) \in Nat /\ One("cnt_ml_adverse" \in hits) \in Nat
      /\ One("cnt_ml_benign" \in hits) \in Nat /\ One("cnt_orders_tx" \in hits) \in Nat
      /\ One("cnt_order_overflow" \in hits) \in Nat
  BY DEF One
<1>4. SignalsSoFar \in Int /\ RefusedSoFar \in Int
  BY <1>1 DEF SignalsSoFar, RefusedSoFar
<1>5. k \in Int /\ r \in Int
  BY DEF Delta
<1>6. SignalsSoFar' = SignalsSoFar + k
  BY <1>1, <1>2, <1>3, <1>5 DEF Delta, SignalsSoFar
<1>7. counters'["cnt_orders_tx"] + counters'["cnt_order_overflow"]
        = counters["cnt_orders_tx"] + counters["cnt_order_overflow"] + (k - r)
  BY <1>1, <1>2, <1>3, <1>5 DEF Delta
<1>8. counters'["cnt_orders_tx"] \in Nat /\ counters'["cnt_order_overflow"] \in Nat
  BY <1>1, <1>2, <1>3
<1>9. RefusedSoFar' = RefusedSoFar + r
  <2> DEFINE a == SignalsSoFar
             b == counters["cnt_orders_tx"]
             c == counters["cnt_order_overflow"]
             d == counters'["cnt_orders_tx"]
             e == counters'["cnt_order_overflow"]
  <2>1. RefusedSoFar = a - b - c /\ RefusedSoFar' = (a + k) - d - e
    BY <1>6 DEF RefusedSoFar
  <2>2. a \in Int /\ b \in Int /\ c \in Int /\ d \in Int /\ e \in Int
        /\ d + e = b + c + (k - r)
    BY <1>1, <1>4, <1>7, <1>8
  <2> HIDE DEF a, b, c, d, e
  <2> QED
    BY <1>5, <2>1, <2>2
<1>10. /\ counters'["cnt_ml_events"] = counters["cnt_ml_events"] + k
       /\ counters'["cnt_ml_adverse"] + counters'["cnt_ml_benign"]
            = counters["cnt_ml_adverse"] + counters["cnt_ml_benign"] + k
  BY <1>1, <1>2, <1>3, <1>5 DEF Delta
<1> QED
  BY <1>4, <1>6, <1>9, <1>10

(* The sum over the gates grows with every signal refused, or its term for *)
(* gate ML has saturated and is more than all of them.                     *)
LEMMA GateSumMoves ==
  ASSUME counters \in [Counter -> 0 .. CounterMax],
         counters' \in [Counter -> 0 .. CounterMax], NEW hits, GateMoves(hits),
         NEW k, NEW r, Delta(hits, k, r)
  PROVE  LET sum == Sum([g \in Gate |-> counters[GATE_NAME[g]]], Gate)
         IN /\ sum \in Int /\ sum' \in Int
            /\ sum' >= sum + r \/ sum' >= CounterMax
<1> DEFINE old == [g \in Gate |-> counters[GATE_NAME[g]]]
           new == [g \in Gate |-> counters'[GATE_NAME[g]]]
<1>1. IsFiniteSet(Gate) /\ GATE_ML \in Gate
  <2>1. \A n \in Nat : IsFiniteSet(1 .. n)
    BY FS_Interval
  <2>2. IsFiniteSet(Gate)
    BY <2>1 DEF Gate
  <2>3. GATE_ML \in Gate
    BY DEF Gate, GATE_ML
  <2> QED
    BY <2>2, <2>3
<1>2. \A g \in Gate : GATE_NAME[g] \in Counter
  BY RefusalNames DEF Refusals
<1>3. ASSUME NEW g \in Gate
      PROVE  old[g] \in Nat /\ new[g] \in Nat /\ old[g] <= new[g]
  <2>1. old[g] \in Nat /\ new[g] \in Nat
    BY <1>2
  <2>2. One(GATE_NAME[g] \in hits) \in Nat
    BY DEF One
  <2> QED
    BY <2>1, <2>2 DEF GateMoves
<1>4. ASSUME NEW g \in Gate, GATE_NAME[g] \in hits
      PROVE  old[g] < new[g] \/ (g = GATE_ML /\ new[g] = CounterMax)
  <2>1. old[g] \in Nat
    BY <1>2
  <2> QED
    BY <1>4, <2>1 DEF GateMoves, One
<1> HIDE DEF old, new
<1>5. Sum(old, Gate) \in Int /\ Sum(new, Gate) \in Int
  <2>1. \A g \in Gate : old[g] \in Int /\ new[g] \in Int
    BY <1>3
  <2> QED
    BY <1>1, <2>1, SumInt
<1>6. Sum(old, Gate) <= Sum(new, Gate)
  <2>1. \A g \in Gate : old[g] \in Int /\ new[g] \in Int /\ old[g] <= new[g]
    BY <1>3
  <2> QED
    BY <1>1, <2>1, SumMonotone
<1>7. CASE r = 1
  <2>1. PICK g \in Gate : GATE_NAME[g] \in hits
    BY <1>7 DEF Delta, Refusals
  <2>2. CASE old[g] < new[g]
    <3>1. \A h \in Gate : old[h] \in Int /\ new[h] \in Int /\ old[h] <= new[h]
      BY <1>3
    <3>2. Sum(old, Gate) < Sum(new, Gate)
      BY <1>1, <2>2, <3>1, SumGrows
    <3>3. Sum(new, Gate) >= Sum(old, Gate) + r
      BY <1>5, <1>7, <3>2
    <3> QED
      BY <1>5, <3>3 DEF old, new
  <2>3. CASE new[g] = CounterMax
    <3>1. \A h \in Gate : new[h] \in Nat
      BY <1>3
    <3>2. new[g] <= Sum(new, Gate)
      BY <1>1, <3>1, SumAtLeast
    <3>3. Sum(new, Gate) >= CounterMax
      BY <1>5, <2>3, <3>2, GoldenAssumption
    <3> QED
      BY <1>5, <3>3 DEF old, new
  <2> QED
    BY <1>4, <2>1, <2>2, <2>3
<1>8. CASE r = 0
  <2>1. Sum(new, Gate) >= Sum(old, Gate) + r
    BY <1>5, <1>6, <1>8
  <2> QED
    BY <1>5, <2>1 DEF old, new
<1> QED
  BY <1>7, <1>8 DEF Delta

LEMMA SignalMove ==
  ASSUME counters \in [Counter -> 0 .. CounterMax], SignalInv,
         NEW hits, NEW again \in SUBSET Refusals(Gate), NEW gap \in Nat,
         Increment(hits, again, gap), "cnt_msgs_rx" \in hits, Outcome(hits, again)
  PROVE  SignalInv'
<1> DEFINE rx == counters["cnt_msgs_rx"]
           sum == Sum([g \in Gate |-> counters[GATE_NAME[g]]], Gate)
<1>1. /\ "cnt_msgs_rx" \in Counter /\ rx \in Nat
      /\ "cnt_msgs_rx" # "cnt_seq_gap" /\ "cnt_msgs_rx" \notin again
  BY RefusalNames DEF Counter
<1>2. counters' \in [Counter -> 0 .. CounterMax] /\ rx' \in Nat
  BY <1>1, IncrementType
<1>3. CASE rx + 1 >= CounterMax
  <2>1. rx' = Lesser(CounterMax, rx + 1 + 0 + 0)
    BY <1>1, IncrementType DEF One
  <2>2. rx' = CounterMax
    BY <1>1, <1>3, <2>1, GoldenAssumption DEF Lesser
  <2> QED
    BY <2>2, GoldenAssumption DEF SignalInv
<1>4. CASE rx + 1 < CounterMax
  <2>1. rx' = rx + 1
    BY <1>1, <1>4, TrackedMoves DEF One
  <2>2. again \in SUBSET Refusals({GATE_ML})
    BY DEF Outcome, Refusals
  <2>3. CoreMoves(hits)
    BY <1>4, CoreMoved
  <2>4. GateMoves(hits)
    BY <1>4, <2>2, GateMoved
  <2>5. PICK k, r : Delta(hits, k, r)
    BY OutcomeDelta
  <2>6. /\ SignalsSoFar \in Int /\ RefusedSoFar \in Int
        /\ SignalsSoFar' = SignalsSoFar + k
        /\ RefusedSoFar' = RefusedSoFar + r
        /\ counters["cnt_ml_events"]' = counters["cnt_ml_events"] + k
        /\ counters["cnt_ml_adverse"]' + counters["cnt_ml_benign"]'
             = counters["cnt_ml_adverse"] + counters["cnt_ml_benign"] + k
    BY <2>3, <2>5, CoreDelta
  <2>7. sum \in Int /\ sum' \in Int /\ (sum' >= sum + r \/ sum' >= CounterMax)
    BY <1>2, <2>4, <2>5, GateSumMoves
  <2>8. /\ k \in {0, 1} /\ r \in {0, 1} /\ r <= k
        /\ r = 0 => hits \cap Refusals(Gate) = {}
    BY <2>5 DEF Delta
  <2>9. rx < CounterMax
    BY <1>1, <1>4, GoldenAssumption
  <2>10. /\ SignalsSoFar <= rx /\ RefusedSoFar >= 0
         /\ \A g \in Gate \ {GATE_ML} : counters[GATE_NAME[g]] <= RefusedSoFar
         /\ RefusedSoFar <= sum
         /\ counters["cnt_ml_events"] = SignalsSoFar
         /\ counters["cnt_ml_adverse"] + counters["cnt_ml_benign"] = SignalsSoFar
    BY <2>9 DEF SignalInv
  <2>11. ASSUME NEW g \in Gate \ {GATE_ML}
         PROVE  counters'[GATE_NAME[g]] <= RefusedSoFar'
    <3>1. /\ counters'[GATE_NAME[g]] = counters[GATE_NAME[g]] + One(GATE_NAME[g] \in hits)
          /\ counters[GATE_NAME[g]] <= RefusedSoFar
          /\ counters[GATE_NAME[g]] \in Nat
      BY <2>4, <2>10, RefusalNames DEF GateMoves, Refusals
    <3>2. One(GATE_NAME[g] \in hits) \in {0, 1}
          /\ (r = 0 => One(GATE_NAME[g] \in hits) = 0)
      BY <2>8 DEF One, Refusals
    <3> QED
      BY <2>6, <2>8, <3>1, <3>2
  <2>12. RefusedSoFar' <= SignalsSoFar'
    <3>1. /\ counters'["cnt_orders_tx"] \in Nat /\ counters'["cnt_order_overflow"] \in Nat
          /\ counters'["cnt_signal_buy"] \in Nat /\ counters'["cnt_signal_sell"] \in Nat
      BY <1>2 DEF Counter
    <3> QED
      BY <3>1 DEF RefusedSoFar, SignalsSoFar
  <2> HIDE DEF rx, sum
  <2>13. SignalsSoFar' <= rx' /\ RefusedSoFar' >= 0
    BY <1>1, <2>1, <2>6, <2>8, <2>10
  <2>14. RefusedSoFar' <= sum'
    <3>1. CASE sum' >= sum + r
      BY <2>6, <2>7, <2>8, <2>10, <3>1
    <3>2. CASE sum' >= CounterMax
      <4>1. RefusedSoFar' <= rx + 1 /\ RefusedSoFar' \in Int /\ SignalsSoFar' \in Int
        BY <1>1, <2>1, <2>6, <2>8, <2>12, <2>13
      <4> QED
        BY <1>1, <1>4, <2>7, <3>2, <4>1, GoldenAssumption
    <3> QED
      BY <2>7, <3>1, <3>2
  <2>15. /\ counters["cnt_ml_events"]' = SignalsSoFar'
         /\ counters["cnt_ml_adverse"]' + counters["cnt_ml_benign"]' = SignalsSoFar'
    BY <2>6, <2>10
  <2> QED
    BY <2>11, <2>13, <2>14, <2>15 DEF SignalInv, rx, sum
<1> QED
  BY <1>1, <1>3, <1>4, GoldenAssumption

LEMMA SignalIdle ==
  ASSUME GoldenTypeOK, [GoldenNext]_goldenVars
  PROVE  process_message \/ \A c \in Tracked \cup {"cnt_msgs_rx"} : counters'[c] = counters[c]
<1>1. ASSUME NEW payload, NEW cycle, NEW fcs_ok, process_frame(payload, cycle, fcs_ok),
             NEW c \in Tracked \cup {"cnt_msgs_rx"}
      PROVE  counters'[c] = counters[c]
  <2> DEFINE hits == {"cnt_frames_rx"}
                       \cup (IF ~fcs_ok THEN {"err_fcs"}
                             ELSE IF BadLength(payload) THEN {"err_frame_len"} ELSE {})
  <2>1. Increment(hits, {}, 0)
    BY <1>1 DEF process_frame
  <2>2. c \in Counter /\ c # "cnt_seq_gap"
    BY RefusalNames DEF Tracked, Fired, Classified, Left, Counter
  <2>3. c \notin hits
    <3>1. {"cnt_frames_rx", "err_fcs", "err_frame_len"} \cap Refusals(Gate) = {}
      BY DEF Refusals, Gate, GATE_NAME
    <3> QED
      BY <3>1 DEF Tracked, Fired, Classified, Left
  <2> HIDE DEF hits
  <2>4. counters'[c] = Lesser(CounterMax, counters[c] + 0 + 0 + 0)
    BY <2>1, <2>2, <2>3, IncrementType DEF One, GoldenTypeOK
  <2>5. counters[c] \in 0 .. CounterMax
    BY <2>2 DEF GoldenTypeOK
  <2> QED
    BY <2>4, <2>5, GoldenAssumption DEF Lesser
<1>2. CASE assert_kill_switch \/ clear_kill_switch \/ clear_seq_gap
  BY <1>2 DEF assert_kill_switch, clear_kill_switch, clear_seq_gap, ControlCall
<1>3. CASE UNCHANGED goldenVars
  BY <1>3 DEF goldenVars
<1> QED
  BY <1>1, <1>2, <1>3 DEF GoldenNext

LEMMA SignalStep ==
  ASSUME GoldenTypeOK, SignalInv, [GoldenNext]_goldenVars PROVE SignalInv'
<1>1. CASE process_message
  <2>1. PICK hits, again : /\ Increment(hits, again, Gap(Head(pending)))
                           /\ "cnt_msgs_rx" \in hits /\ again \subseteq Refusals(Gate)
                           /\ Outcome(hits, again)
    BY <1>1, SignalCounts
  <2>2. Gap(Head(pending)) \in Nat
    BY <1>1, InHand DEF process_message
  <2> QED
    BY <2>1, <2>2, SignalMove DEF GoldenTypeOK
<1>2. CASE \A c \in Tracked \cup {"cnt_msgs_rx"} : counters'[c] = counters[c]
  <2>1. \A g \in Gate : GATE_NAME[g] \in Tracked
    BY DEF Tracked, Refusals
  <2>2. [g \in Gate |-> counters'[GATE_NAME[g]]] = [g \in Gate |-> counters[GATE_NAME[g]]]
    BY <1>2, <2>1
  <2>3. SignalsSoFar' = SignalsSoFar /\ RefusedSoFar' = RefusedSoFar
    BY <1>2 DEF SignalsSoFar, RefusedSoFar, Tracked, Fired, Left
  <2>4. /\ counters'["cnt_msgs_rx"] = counters["cnt_msgs_rx"]
        /\ counters'["cnt_ml_events"] = counters["cnt_ml_events"]
        /\ counters'["cnt_ml_adverse"] = counters["cnt_ml_adverse"]
        /\ counters'["cnt_ml_benign"] = counters["cnt_ml_benign"]
    BY <1>2 DEF Tracked, Classified
  <2> QED
    BY <1>2, <2>1, <2>2, <2>3, <2>4 DEF SignalInv
<1> QED
  BY <1>1, <1>2, SignalIdle

LEMMA SignalInit ==
  ASSUME GoldenInit PROVE SignalInv
<1> DEFINE zero == [g \in Gate |-> counters[GATE_NAME[g]]]
<1>1. \A c \in Counter : counters[c] = 0
  BY DEF GoldenInit
<1>2. \A g \in Gate : zero[g] = 0
  BY <1>1, RefusalNames DEF Refusals
<1>3. Sum(zero, Gate) \in Nat
  <2>1. \A n \in Nat : IsFiniteSet(1 .. n)
    BY FS_Interval
  <2>2. IsFiniteSet(Gate)
    BY <2>1 DEF Gate
  <2>3. \A g \in Gate : zero[g] \in Nat
    BY <1>2
  <2> HIDE DEF zero
  <2> QED
    BY <2>2, <2>3, SumNat
<1> HIDE DEF zero
<1>4. SignalsSoFar = 0 /\ RefusedSoFar = 0 /\ counters["cnt_msgs_rx"] = 0
      /\ counters["cnt_ml_events"] = 0 /\ counters["cnt_ml_adverse"] = 0
      /\ counters["cnt_ml_benign"] = 0
  BY <1>1 DEF SignalsSoFar, RefusedSoFar, Counter
<1>5. \A g \in Gate : counters[GATE_NAME[g]] = 0
  BY <1>1, RefusalNames DEF Refusals
<1> QED
  BY <1>3, <1>4, <1>5 DEF SignalInv, zero

(***************************************************************************)
(* Every signal ends as an order, an overflow or a rejection by at least   *)
(* one gate, and is judged once, whatever gates fire together and though   *)
(* gate ML is counted twice.  Until the counters saturate (spec section    *)
(* 10, "Signals" and "ML").                                                *)
(***************************************************************************)
THEOREM SignalSafe == GoldenSpec => []SignalBalance
<1>1. GoldenInit => SignalInv
  BY SignalInit
<1>2. GoldenTypeOK /\ SignalInv /\ [GoldenNext]_goldenVars => SignalInv'
  BY SignalStep
<1>3. SignalInv => SignalBalance
  BY SignalInvBalance
<1> QED
  BY <1>1, <1>2, <1>3, GoldenTypeCorrect, PTL DEF GoldenSpec

-----------------------------------------------------------------------------
(* The records of the receiver. *)

(* The places of a queue that hold one of K, and how many they are.        *)
Kept(q, K) == {i \in DOMAIN q : q[i] \in K}

LEMMA KeptFinite ==
  ASSUME NEW S, NEW q \in Seq(S), NEW K
  PROVE  IsFiniteSet(Kept(q, K)) /\ Cardinality(Kept(q, K)) \in Nat
<1>1. Len(q) \in Nat /\ DOMAIN q = 1 .. Len(q)
  OBVIOUS
<1>2. IsFiniteSet(1 .. Len(q))
  BY <1>1, FS_Interval
<1>3. Kept(q, K) \in SUBSET (1 .. Len(q))
  BY <1>1 DEF Kept
<1> HIDE DEF Kept
<1> QED
  BY <1>2, <1>3, FS_Subset, FS_CardinalityType

LEMMA KeptAppend ==
  ASSUME NEW S, NEW q \in Seq(S), NEW x \in S, NEW K
  PROVE  Cardinality(Kept(Append(q, x), K)) = Cardinality(Kept(q, K)) + One(x \in K)
<1> DEFINE n == Len(q) + 1
           r == Append(q, x)
<1>1. n \in Nat /\ n >= 1 /\ DOMAIN q = 1 .. n - 1 /\ DOMAIN r = 1 .. n
  OBVIOUS
<1>2. r[n] = x /\ \A i \in 1 .. n - 1 : r[i] = q[i]
  OBVIOUS
<1>3. IsFiniteSet(Kept(q, K)) /\ Cardinality(Kept(q, K)) \in Nat
  BY KeptFinite
<1>4. n \notin Kept(q, K)
  BY <1>1 DEF Kept
<1> HIDE DEF n, r
<1>5. CASE x \in K
  <2>0. \A i : i \in 1 .. n <=> i \in 1 .. n - 1 \/ i = n
    BY <1>1
  <2>1. \A i : i \in Kept(r, K) <=> i \in Kept(q, K) \/ i = n
    BY <1>1, <1>2, <1>5, <2>0 DEF Kept
  <2>2. Kept(r, K) = Kept(q, K) \cup {n}
    BY <2>1
  <2> HIDE DEF Kept
  <2> QED
    BY <1>3, <1>4, <1>5, <2>2, FS_AddElement DEF One, r
<1>6. CASE x \notin K
  <2>1. Kept(r, K) = Kept(q, K)
    BY <1>1, <1>2, <1>6 DEF Kept
  <2> QED
    BY <1>3, <1>6, <2>1 DEF One, r
<1> QED
  BY <1>5, <1>6

LEMMA KeptTail ==
  ASSUME NEW S, NEW q \in Seq(S), q # <<>>, NEW K
  PROVE  Cardinality(Kept(Tail(q), K)) + One(Head(q) \in K) = Cardinality(Kept(q, K))
<1> DEFINE n == Len(q)
           t == Tail(q)
           A == Kept(t, K)
           B == Kept(q, K) \ {1}
           f == [i \in A |-> i + 1]
<1>1. n \in Nat /\ n >= 1 /\ DOMAIN q = 1 .. n /\ DOMAIN t = 1 .. n - 1
  OBVIOUS
<1>2. Head(q) = q[1] /\ \A i \in 1 .. n - 1 : t[i] = q[i + 1]
  OBVIOUS
<1>3. t \in Seq(S)
  OBVIOUS
<1>4. IsFiniteSet(A) /\ Cardinality(A) \in Nat
  BY <1>3, KeptFinite
<1>5. IsFiniteSet(Kept(q, K)) /\ Cardinality(Kept(q, K)) \in Nat
  BY KeptFinite
<1> HIDE DEF n, t
<1>6. A \subseteq 1 .. n - 1 /\ B \subseteq 2 .. n
  BY <1>1 DEF Kept
<1>7. \A i \in 1 .. n - 1 : i \in A <=> i + 1 \in B
  BY <1>1, <1>2 DEF Kept
<1>8. 1 \in Kept(q, K) <=> Head(q) \in K
  BY <1>1, <1>2 DEF Kept
<1> HIDE DEF A, B, Kept
<1>9. f \in Bijection(A, B)
  <2>1. f \in [A -> B]
    BY <1>1, <1>6, <1>7
  <2>2. \A i, j \in A : f[i] = f[j] => i = j
    BY <1>1, <1>6
  <2>3. ASSUME NEW k \in B PROVE \E i \in A : f[i] = k
    <3>1. k - 1 \in 1 .. n - 1 /\ (k - 1) + 1 = k
      BY <1>1, <1>6
    <3>2. k - 1 \in A
      BY <1>7, <3>1
    <3> QED
      BY <3>1, <3>2
  <2> QED
    BY <2>1, <2>2, <2>3 DEF Bijection, Injection, IsInjective, Surjection
<1>10. Cardinality(B) = Cardinality(A)
  BY <1>4, <1>9, FS_Bijection DEF ExistsBijection
<1>11. Cardinality(B) = IF 1 \in Kept(q, K) THEN Cardinality(Kept(q, K)) - 1
                        ELSE Cardinality(Kept(q, K))
  BY <1>5, FS_RemoveElement DEF B
<1> QED
  BY <1>4, <1>5, <1>8, <1>10, <1>11 DEF One, A, t

(* What the receiver is sent: records, and which of them are orders.       *)
Sent == {r \in OrderRecord : r.reason = "accepted" <=> r.type = ORDER_MSG_NEW}
Fills == {r \in Sent : r.reason = "accepted"}

RecordOf(order) ==
  [type |-> order.msg_type, side |-> SideOf(order),
   reason |-> ReasonOf(order), latency |-> order.latency_cyc]

LEMMA RecordSent ==
  ASSUME GoldenTypeOK', NEW hits, Emits(hits), result'.order # NoOrder
  PROVE  /\ RecordOf(result'.order) \in Sent
         /\ RecordOf(result'.order) \in Fills <=> "cnt_orders_tx" \in hits
<1> DEFINE order == result'.order
           rec == RecordOf(order)
<1>1. order \in Order
  BY DEF GoldenTypeOK
<1>2. /\ order.msg_type \in {ORDER_MSG_NEW, ORDER_MSG_REJECT}
      /\ order.reject_reason \in {0} \cup Gate
      /\ order.latency_cyc = TICK_TO_TRADE_CYCLES
  BY <1>1 DEF Order
<1>3. \A g \in Gate : GATE_NAME[g] # "accepted" /\ g # 0
  BY DEF Gate, GATE_NAME
<1>4. /\ order.reject_reason = 0 <=> order.msg_type = ORDER_MSG_NEW
      /\ order.msg_type = ORDER_MSG_NEW <=> "cnt_orders_tx" \in hits
  BY <1>3 DEF Emits, Silent, Refused, Ordered, ORDER_MSG_NEW, ORDER_MSG_REJECT
<1>5. ReasonOf(order) \in Reasons /\ (ReasonOf(order) = "accepted" <=> order.reject_reason = 0)
  BY <1>2, <1>3, ReceiverAssumption DEF ReasonOf
<1>6. SideOf(order) \in SideName
  BY DEF SideOf, SideName
<1> HIDE DEF order
<1>7. /\ rec.type = order.msg_type /\ rec.reason = ReasonOf(order)
      /\ rec \in OrderRecord
  BY <1>2, <1>5, <1>6 DEF RecordOf, OrderRecord
<1> HIDE DEF rec
<1>8. rec \in Sent /\ (rec \in Fills <=> "cnt_orders_tx" \in hits)
  BY <1>4, <1>5, <1>7 DEF Sent, Fills
<1> QED
  BY <1>8 DEF rec, order

LEMMA EmittedMoves ==
  ASSUME counters \in [Counter -> 0 .. CounterMax], NEW hits, CoreMoves(hits), Emits(hits),
         cfg' = cfg, cfg.cfg_reject_report \in BOOLEAN
  PROVE  /\ Emitted \in Int /\ counters["cnt_orders_tx"] \in Int
         /\ Emitted' = Emitted + One(result'.order # NoOrder)
         /\ counters'["cnt_orders_tx"]
              = counters["cnt_orders_tx"] + One("cnt_orders_tx" \in hits)
<1>1. /\ counters["cnt_ml_events"] \in Int /\ counters["cnt_order_overflow"] \in Int
      /\ counters["cnt_orders_tx"] \in Int
  BY DEF Counter
<1>2. /\ counters'["cnt_ml_events"]
           = counters["cnt_ml_events"] + One("cnt_ml_events" \in hits)
      /\ counters'["cnt_order_overflow"]
           = counters["cnt_order_overflow"] + One("cnt_order_overflow" \in hits)
      /\ counters'["cnt_orders_tx"]
           = counters["cnt_orders_tx"] + One("cnt_orders_tx" \in hits)
  BY DEF CoreMoves, Left
<1>3. result'.order.msg_type \in {ORDER_MSG_NEW, ORDER_MSG_REJECT}
        => result'.order # NoOrder
  BY DEF NoOrder, ORDER_MSG_NEW, ORDER_MSG_REJECT
<1>4. CASE Silent(hits)
  BY <1>1, <1>2, <1>4 DEF Silent, Emitted, One
<1>5. CASE Refused(hits)
  BY <1>1, <1>2, <1>3, <1>5 DEF Refused, Emitted, One
<1>6. CASE Ordered(hits)
  BY <1>1, <1>2, <1>3, <1>6 DEF Ordered, Emitted, One
<1> QED
  BY <1>1, <1>2, <1>4, <1>5, <1>6 DEF Emits

(* The receiver's own sums, and that it stops where it was told to.        *)
TallyInv ==
  /\ stats.total \in Nat /\ stats.total = received
  /\ stats.by_side \in [SideName -> Nat]
  /\ stats.by_reject_reason \in [Reasons -> Nat]
  /\ stats.accepted_latencies \in Seq({TICK_TO_TRADE_CYCLES})
  /\ stats.total = stats.by_side["buy"] + stats.by_side["sell"]
  /\ stats.by_reject_reason["accepted"] = Len(stats.accepted_latencies)
  /\ source = UDP => RxCount = Forever \/ received <= RxCount
  /\ session = SUMMARY /\ source = UDP => received = RxCount

(* Every record made is read, in the queue or lost.                        *)
QueueInv ==
  /\ socket \in Seq(Sent \cup {Junk})
  /\ lost \in Nat /\ (source = FILE => lost = 0)
  /\ session = SUMMARY /\ source = FILE => Ended /\ Kept(socket, Sent) = {}

Unsaturated == counters["cnt_msgs_rx"] < CounterMax

RecordInv ==
  source \in {UDP, FILE} /\ Unsaturated =>
    /\ received + (Cardinality(Kept(socket, Sent)) + lost) = Emitted
    /\ stats.by_reject_reason["accepted"] + Cardinality(Kept(socket, Fills))
         <= counters["cnt_orders_tx"]

LEMMA JunkNotSent ==
  /\ Junk \notin Sent /\ Junk \notin Fills /\ Fills \subseteq Sent
  /\ \A r \in Sent \cup {Junk} : r # Junk <=> r \in Sent
BY ReceiverAssumption DEF Sent, Fills

LEMMA RecordsAre ==
  ASSUME GoldenTypeOK, TallyInv, QueueInv, RecordInv PROVE RecordsAccounted
<1>1. Waiting = Kept(socket, Sent)
  BY JunkNotSent DEF QueueInv, Waiting, Kept
<1>2. Cardinality(Kept(socket, Sent)) \in Nat /\ Cardinality(Kept(socket, Fills)) \in Nat
  BY KeptFinite DEF QueueInv
<1>3. Cardinality({}) = 0
  BY FS_EmptySet
<1>4. stats.by_reject_reason["accepted"] \in Nat
  BY ReceiverAssumption DEF TallyInv
<1>5. source \in {UDP, FILE} /\ Unsaturated =>
        stats.total + Cardinality(Waiting) + lost = Emitted
  <2>1. stats.total = received /\ received \in Nat /\ lost \in Nat
    BY DEF TallyInv, QueueInv
  <2>2. source \in {UDP, FILE} /\ Unsaturated =>
          received + (Cardinality(Waiting) + lost) = Emitted
    BY <1>1 DEF RecordInv
  <2> QED
    BY <1>1, <1>2, <2>1, <2>2
<1>6. source \in {UDP, FILE} /\ Unsaturated =>
        stats.by_reject_reason["accepted"] <= counters["cnt_orders_tx"]
  <2>1. counters["cnt_orders_tx"] \in Int
    BY DEF GoldenTypeOK, Counter
  <2> QED
    BY <1>2, <1>4, <2>1 DEF RecordInv
<1>7. session = SUMMARY /\ source = FILE => Cardinality(Waiting) = 0 /\ lost = 0
  BY <1>1, <1>3 DEF QueueInv
<1>8. source \in {UDP, FILE} /\ Unsaturated =>
        (session = SUMMARY /\ source = FILE => stats.total = Emitted)
  <2>1. stats.total \in Nat
    BY DEF TallyInv
  <2> QED
    BY <1>5, <1>7, <2>1
<1>9. source \in {UDP, FILE} =>
        /\ stats.total = stats.by_side["buy"] + stats.by_side["sell"]
        /\ stats.by_reject_reason["accepted"] = Len(stats.accepted_latencies)
        /\ session = SUMMARY /\ source = UDP => stats.total = RxCount
  BY DEF TallyInv
<1> QED
  BY <1>5, <1>6, <1>8, <1>9 DEF RecordsAccounted, Unsaturated


LEMMA ObservedTally ==
  ASSUME TallyInv, NEW rec \in Sent, stats' = Observed(stats, rec),
         received' = received + 1, source' = source, session' = session,
         session = LISTENING, source = UDP => Remaining
  PROVE  /\ TallyInv'
         /\ stats'.by_reject_reason["accepted"]
              = stats.by_reject_reason["accepted"] + One(rec \in Fills)
<1>0. /\ stats.total \in Nat /\ stats.total = received
      /\ stats.by_reject_reason \in [Reasons -> Nat]
      /\ stats.accepted_latencies \in Seq({TICK_TO_TRADE_CYCLES})
  BY DEF TallyInv
<1>1. /\ rec.type \in {ORDER_MSG_NEW, ORDER_MSG_REJECT} /\ rec.side \in {"buy", "sell"}
      /\ rec.reason \in Reasons /\ rec.latency = TICK_TO_TRADE_CYCLES
      /\ rec.reason = "accepted" <=> rec.type = ORDER_MSG_NEW
      /\ rec \in Fills <=> rec.reason = "accepted"
  BY DEF Sent, Fills, OrderRecord, SideName
<1>2. OrderNames[rec.type] = "new_order" <=> rec.type = ORDER_MSG_NEW
  BY <1>1, ReceiverAssumption
<1>3. /\ stats'.total = stats.total + 1
      /\ stats'.by_side = [stats.by_side EXCEPT ![rec.side] = @ + 1]
      /\ stats'.by_reject_reason = [stats.by_reject_reason EXCEPT ![rec.reason] = @ + 1]
      /\ stats'.accepted_latencies
           = IF rec \in Fills THEN Append(stats.accepted_latencies, rec.latency)
             ELSE stats.accepted_latencies
  BY <1>1, <1>2 DEF Observed
<1>4. stats'.total \in Nat /\ stats'.total = received'
  BY <1>0, <1>3
<1>5. /\ stats'.by_side \in [SideName -> Nat]
      /\ stats'.by_side["buy"] + stats'.by_side["sell"]
           = stats.by_side["buy"] + stats.by_side["sell"] + 1
  BY <1>1, <1>3 DEF TallyInv, SideName
<1>6. "accepted" \in Reasons
  BY ReceiverAssumption
<1>7. /\ stats'.by_reject_reason \in [Reasons -> Nat]
      /\ stats'.by_reject_reason["accepted"]
           = stats.by_reject_reason["accepted"] + One(rec \in Fills)
  <2> DEFINE old == stats.by_reject_reason
             new == stats'.by_reject_reason
  <2>1. old \in [Reasons -> Nat] /\ new = [old EXCEPT ![rec.reason] = @ + 1]
    BY <1>0, <1>3
  <2> HIDE DEF old, new
  <2>2. new \in [Reasons -> Nat]
    BY <1>1, <2>1
  <2>3. new["accepted"] = old["accepted"] + One(rec \in Fills)
    <3>1. CASE rec.reason = "accepted"
      BY <1>1, <1>6, <2>1, <3>1 DEF One
    <3>2. CASE rec.reason # "accepted"
      <4>1. new["accepted"] = old["accepted"] /\ old["accepted"] \in Nat
        BY <1>6, <2>1, <3>2
      <4> QED
        BY <1>1, <3>2, <4>1 DEF One
    <3> QED
      BY <3>1, <3>2
  <2> QED
    BY <2>2, <2>3 DEF old, new
<1>8. /\ stats'.accepted_latencies \in Seq({TICK_TO_TRADE_CYCLES})
      /\ Len(stats'.accepted_latencies)
           = Len(stats.accepted_latencies) + One(rec \in Fills)
  <2> DEFINE old == stats.accepted_latencies
             new == stats'.accepted_latencies
             S == {TICK_TO_TRADE_CYCLES}
  <2>1. /\ old \in Seq(S) /\ rec.latency \in S
        /\ new = IF rec \in Fills THEN Append(old, rec.latency) ELSE old
    BY <1>0, <1>1, <1>3
  <2> HIDE DEF old, new, S
  <2>2. CASE rec \in Fills
    BY <2>1, <2>2 DEF One, old, new, S
  <2>3. CASE rec \notin Fills
    BY <2>1, <2>3 DEF One, old, new, S
  <2> QED
    BY <2>2, <2>3
<1>9. source = UDP => RxCount = Forever \/ received + 1 <= RxCount
  BY ReceiverAssumption DEF TallyInv, Remaining
<1> QED
  BY <1>3, <1>4, <1>5, <1>7, <1>8, <1>9 DEF TallyInv, LISTENING, SUMMARY

(* The same receiver, and counters that tell it the same.                  *)
SameCounts ==
  /\ cfg' = cfg
  /\ counters'["cnt_msgs_rx"] = counters["cnt_msgs_rx"]
  /\ counters'["cnt_orders_tx"] = counters["cnt_orders_tx"]
  /\ counters'["cnt_order_overflow"] = counters["cnt_order_overflow"]
  /\ counters'["cnt_ml_events"] = counters["cnt_ml_events"]

RxInv == TallyInv /\ QueueInv /\ RecordInv

LEMMA ReadKeeps ==
  ASSUME RxInv, Read, SameCounts, lost' = lost PROVE RxInv'
<1> DEFINE rec == Head(socket)
<1>1. /\ socket \in Seq(Sent \cup {Junk}) /\ socket # <<>> /\ rec # Junk
      /\ socket' = Tail(socket)
      /\ stats' = Observed(stats, rec) /\ received' = received + 1
      /\ source' = source /\ session' = session /\ session = LISTENING
      /\ source = UDP => Remaining
  BY DEF RxInv, QueueInv, Read
<1>2. rec \in Sent
  <2>1. rec \in Sent \cup {Junk}
    BY <1>1
  <2> QED
    BY <1>1, <2>1
<1>3. socket' \in Seq(Sent \cup {Junk})
  BY <1>1
<1>4. /\ Cardinality(Kept(socket', Sent)) + 1 = Cardinality(Kept(socket, Sent))
      /\ Cardinality(Kept(socket', Fills)) + One(rec \in Fills)
           = Cardinality(Kept(socket, Fills))
      /\ Cardinality(Kept(socket', Sent)) \in Nat /\ Cardinality(Kept(socket', Fills)) \in Nat
  <2>1. /\ Cardinality(Kept(Tail(socket), Sent)) + One(rec \in Sent)
             = Cardinality(Kept(socket, Sent))
        /\ Cardinality(Kept(Tail(socket), Fills)) + One(rec \in Fills)
             = Cardinality(Kept(socket, Fills))
    BY <1>1, KeptTail
  <2>2. /\ Cardinality(Kept(socket', Sent)) \in Nat
        /\ Cardinality(Kept(socket', Fills)) \in Nat
    BY <1>3, KeptFinite
  <2> QED
    BY <1>1, <1>2, <2>1, <2>2 DEF One
<1> HIDE DEF rec
<1>5. /\ TallyInv'
      /\ stats'.by_reject_reason["accepted"]
           = stats.by_reject_reason["accepted"] + One(rec \in Fills)
  BY <1>1, <1>2, ObservedTally DEF RxInv
<1>6. QueueInv'
  BY <1>1, <1>3 DEF RxInv, QueueInv, LISTENING, SUMMARY
<1>7. RecordInv'
  <2>1. stats.by_reject_reason["accepted"] \in Nat /\ received \in Nat /\ lost \in Nat
    BY ReceiverAssumption DEF RxInv, TallyInv, QueueInv
  <2>2. One(rec \in Fills) \in {0, 1}
    BY DEF One
  <2>3. /\ Emitted' = Emitted
        /\ counters'["cnt_msgs_rx"] = counters["cnt_msgs_rx"]
        /\ counters'["cnt_orders_tx"] = counters["cnt_orders_tx"]
    BY DEF SameCounts, Emitted
  <2> DEFINE waiting == Cardinality(Kept(socket, Sent))
             filled == Cardinality(Kept(socket, Fills))
             one == One(rec \in Fills)
  <2>4. waiting' + 1 = waiting /\ waiting' \in Nat /\ filled' + one = filled /\ filled' \in Nat
    BY <1>4
  <2>5. source \in {UDP, FILE} /\ Unsaturated =>
          /\ received + (waiting + lost) = Emitted
          /\ stats.by_reject_reason["accepted"] + filled <= counters["cnt_orders_tx"]
    BY DEF RxInv, RecordInv
  <2> HIDE DEF waiting, filled, one
  <2>6. received' + (waiting' + lost') = received + (waiting + lost)
    BY <1>1, <2>1, <2>4
  <2>7. stats'.by_reject_reason["accepted"] + filled'
          = stats.by_reject_reason["accepted"] + filled
    BY <1>5, <2>1, <2>2, <2>4 DEF one
  <2> QED
    BY <1>1, <2>3, <2>5, <2>6, <2>7 DEF RecordInv, Unsaturated, waiting, filled
<1> QED
  BY <1>5, <1>6, <1>7 DEF RxInv

(* What is not a record comes and goes without being counted.              *)
LEMMA JunkKeeps ==
  ASSUME RxInv, SameCounts, lost' = lost, UNCHANGED <<source, session, received, stats>>,
         \/ socket # <<>> /\ Head(socket) = Junk /\ socket' = Tail(socket)
         \/ socket' = Append(socket, Junk),
         Ended => Ended'
  PROVE  RxInv'
<1>1. socket \in Seq(Sent \cup {Junk}) /\ socket' \in Seq(Sent \cup {Junk})
  <2>1. socket \in Seq(Sent \cup {Junk}) /\ Junk \in Sent \cup {Junk}
    BY DEF RxInv, QueueInv
  <2> QED
    BY <2>1
<1>2. ASSUME NEW K, Junk \notin K
      PROVE  /\ Cardinality(Kept(socket', K)) = Cardinality(Kept(socket, K))
             /\ IsFiniteSet(Kept(socket', K))
  <2>1. /\ Cardinality(Kept(socket, K)) \in Nat /\ Cardinality(Kept(socket', K)) \in Nat
        /\ IsFiniteSet(Kept(socket', K))
    BY <1>1, KeptFinite
  <2>2. CASE socket' = Append(socket, Junk)
    BY <1>1, <1>2, <2>1, <2>2, KeptAppend DEF One
  <2>3. CASE socket # <<>> /\ Head(socket) = Junk /\ socket' = Tail(socket)
    BY <1>1, <1>2, <2>1, <2>3, KeptTail DEF One
  <2> QED
    BY <2>1, <2>2, <2>3
<1>3. TallyInv'
  BY DEF RxInv, TallyInv
<1>4. QueueInv'
  <2>1. Kept(socket, Sent) = {} => Kept(socket', Sent) = {}
    BY <1>2, JunkNotSent, FS_EmptySet
  <2> QED
    BY <1>1, <2>1 DEF RxInv, QueueInv
<1>5. RecordInv'
  BY <1>2, JunkNotSent DEF RxInv, RecordInv, SameCounts, Emitted, Unsaturated
<1> QED
  BY <1>3, <1>4, <1>5 DEF RxInv

(* Stopping, and what others do.                                           *)
LEMMA RestKeeps ==
  ASSUME RxInv, SameCounts, UNCHANGED <<source, socket, received, stats, lost>>,
         \/ session' = session
         \/ session' = RAISED
         \/ /\ session' = SUMMARY
            /\ IF source = UDP THEN ~Remaining ELSE Ended /\ socket = <<>>,
         Ended => Ended'
  PROVE  RxInv'
<1>1. TallyInv'
  <2>1. source = UDP /\ ~Remaining => received = RxCount
    BY ReceiverAssumption DEF RxInv, TallyInv, Remaining
  <2> QED
    BY <2>1 DEF RxInv, TallyInv, RAISED, SUMMARY
<1>2. QueueInv'
  <2>1. Kept(<<>>, Sent) = {}
    BY DEF Kept
  <2> QED
    BY <2>1 DEF RxInv, QueueInv, RAISED, SUMMARY, UDP, FILE
<1>3. RecordInv'
  BY DEF RxInv, RecordInv, SameCounts, Emitted, Unsaturated
<1> QED
  BY <1>1, <1>2, <1>3 DEF RxInv

LEMMA EmitCounts ==
  ASSUME GoldenTypeOK', socket \in Seq(Sent \cup {Junk}), lost \in Nat,
         source = FILE => lost = 0, source \in {UDP, FILE},
         NEW hits, Emits(hits), Emit
  PROVE  /\ socket' \in Seq(Sent \cup {Junk}) /\ lost' \in Nat
         /\ source = FILE => lost' = 0
         /\ Cardinality(Kept(socket', Sent)) + lost'
              = Cardinality(Kept(socket, Sent)) + lost + One(result'.order # NoOrder)
         /\ Cardinality(Kept(socket', Fills))
              <= Cardinality(Kept(socket, Fills)) + One("cnt_orders_tx" \in hits)
<1> DEFINE rec == RecordOf(result'.order)
<1>1. /\ Cardinality(Kept(socket, Sent)) \in Nat /\ Cardinality(Kept(socket, Fills)) \in Nat
      /\ One("cnt_orders_tx" \in hits) \in {0, 1}
  BY KeptFinite DEF One
<1>2. CASE result'.order = NoOrder
  BY <1>1, <1>2 DEF Emit, One
<1>3. CASE result'.order # NoOrder
  <2>1. rec \in Sent /\ (rec \in Fills <=> "cnt_orders_tx" \in hits)
    BY <1>3, RecordSent
  <2>2. \/ socket' = Append(socket, rec) /\ lost' = lost
        \/ source = UDP /\ lost' = lost + 1 /\ socket' = socket
    BY <1>3 DEF Emit, RecordOf
  <2> HIDE DEF rec
  <2>3. CASE socket' = Append(socket, rec) /\ lost' = lost
    <3>1. rec \in Sent \cup {Junk}
      BY <2>1
    <3>2. /\ Cardinality(Kept(socket', Sent)) = Cardinality(Kept(socket, Sent)) + 1
          /\ Cardinality(Kept(socket', Fills))
               = Cardinality(Kept(socket, Fills)) + One(rec \in Fills)
      BY <2>1, <2>3, <3>1, KeptAppend DEF One
    <3>3. socket' \in Seq(Sent \cup {Junk})
      BY <2>3, <3>1
    <3>4. One(rec \in Fills) = One("cnt_orders_tx" \in hits)
      BY <2>1 DEF One
    <3>5. One(result'.order # NoOrder) = 1 /\ lost' = lost
      BY <1>3, <2>3 DEF One
    <3> HIDE DEF One
    <3> QED
      BY <1>1, <2>3, <3>2, <3>3, <3>4, <3>5
  <2>4. CASE source = UDP /\ lost' = lost + 1 /\ socket' = socket
    BY <1>1, <1>3, <2>4 DEF One, UDP, FILE
  <2> QED
    BY <2>2, <2>3, <2>4
<1> QED
  BY <1>2, <1>3

Counted(hits, again) ==
  /\ Increment(hits, again, Gap(Head(pending)))
  /\ "cnt_msgs_rx" \in hits /\ again \subseteq Refusals(Gate)
  /\ Emits(hits)

LEMMA ProcessKeeps ==
  ASSUME GoldenTypeOK, GoldenTypeOK', SignalInv, RxInv, ProcessNext PROVE RxInv'
<1>1. /\ process_message /\ Emit /\ cfg' = cfg /\ pending # <<>>
      /\ UNCHANGED <<source, session, received, stats>>
  BY DEF ProcessNext, process_message
<1>2. TallyInv'
  BY <1>1 DEF RxInv, TallyInv
<1>3. ~(session = SUMMARY /\ source = FILE)
  BY <1>1 DEF RxInv, QueueInv, Ended
<1>4. /\ socket \in Seq(Sent \cup {Junk}) /\ lost \in Nat /\ (source = FILE => lost = 0)
  BY DEF RxInv, QueueInv
<1>5. PICK hits, again : Counted(hits, again)
  BY <1>1, SignalCounts DEF Counted
<1>6. CASE source \notin {UDP, FILE}
  <2>1. UNCHANGED <<socket, lost>>
    BY <1>1, <1>6 DEF Emit
  <2>2. QueueInv'
    BY <1>1, <1>3, <1>4, <2>1 DEF QueueInv
  <2>3. RecordInv'
    BY <1>1, <1>6 DEF RecordInv
  <2> QED
    BY <1>2, <2>2, <2>3 DEF RxInv
<1>7. CASE source \in {UDP, FILE}
  <2> DEFINE waiting == Cardinality(Kept(socket, Sent))
             filled == Cardinality(Kept(socket, Fills))
             waiting1 == Cardinality(Kept(socket', Sent))
             filled1 == Cardinality(Kept(socket', Fills))
             lost1 == lost'
             one == One(result'.order # NoOrder)
             fill == One("cnt_orders_tx" \in hits)
             taken == stats.by_reject_reason["accepted"]
             tx == counters["cnt_orders_tx"]
             rx == counters["cnt_msgs_rx"]
  <2>1. /\ socket' \in Seq(Sent \cup {Junk}) /\ lost1 \in Nat
        /\ source = FILE => lost1 = 0
        /\ waiting1 + lost1 = waiting + lost + one
        /\ filled1 <= filled + fill
    BY <1>1, <1>4, <1>5, <1>7, EmitCounts DEF Counted
  <2>2. QueueInv'
    BY <1>1, <1>3, <2>1 DEF QueueInv
  <2>3. waiting \in Nat /\ waiting1 \in Nat /\ filled \in Nat /\ filled1 \in Nat
    BY <1>4, <2>1, KeptFinite
  <2>4. one \in {0, 1} /\ fill \in {0, 1}
    BY DEF One
  <2>5. taken \in Nat /\ received \in Nat /\ taken' = taken /\ received' = received
    BY <1>1, ReceiverAssumption DEF RxInv, TallyInv
  <2>6. Unsaturated' => rx + 1 < CounterMax /\ Unsaturated
    <3>1. /\ "cnt_msgs_rx" \in Counter /\ rx \in Nat
          /\ "cnt_msgs_rx" # "cnt_seq_gap" /\ "cnt_msgs_rx" \notin again
      BY <1>5, RefusalNames DEF Counted, Counter, GoldenTypeOK
    <3>2. Gap(Head(pending)) \in Nat
      BY <1>1, InHand DEF process_message
    <3>3. rx' = Lesser(CounterMax, rx + 1 + 0 + 0)
      <4>1. counters \in [Counter -> 0 .. CounterMax]
        BY DEF GoldenTypeOK
      <4>2. \A c \in Counter :
              counters'[c] =
                Lesser(CounterMax, counters[c] + One(c \in hits) + One(c \in again)
                           + (IF c = "cnt_seq_gap" THEN Gap(Head(pending)) ELSE 0))
        BY <1>5, <3>2, <4>1, IncrementType DEF Counted
      <4> QED
        BY <1>5, <3>1, <4>2 DEF Counted, One
    <3> QED
      BY <3>1, <3>3, GoldenAssumption DEF Lesser, Unsaturated
  <2>7. ASSUME Unsaturated'
        PROVE  /\ Emitted \in Int /\ tx \in Int /\ Emitted' = Emitted + one /\ tx' = tx + fill
               /\ received + (waiting + lost) = Emitted /\ taken + filled <= tx
    <3>1. Gap(Head(pending)) \in Nat
      BY <1>1, InHand DEF process_message
    <3>2. CoreMoves(hits)
      BY <1>5, <2>6, <2>7, <3>1, CoreMoved DEF Counted, GoldenTypeOK, Unsaturated
    <3>3. cfg.cfg_reject_report \in BOOLEAN
      <4>1. cfg \in Configs
        BY DEF GoldenTypeOK
      <4> QED
        BY <4>1, ConfigAssumption
    <3>4. /\ Emitted \in Int /\ tx \in Int /\ Emitted' = Emitted + one /\ tx' = tx + fill
      BY <1>1, <1>5, <3>2, <3>3, EmittedMoves DEF Counted, GoldenTypeOK
    <3>5. received + (waiting + lost) = Emitted /\ taken + filled <= tx
      BY <1>7, <2>6, <2>7 DEF RxInv, RecordInv
    <3> QED
      BY <3>4, <3>5
  <2>8. lost \in Nat /\ lost1 \in Nat
    BY <1>4, <2>1
  <2> HIDE DEF waiting, filled, waiting1, filled1, lost1, one, fill, taken, tx, rx
  <2>9. ASSUME Unsaturated'
        PROVE  received' + (waiting1 + lost1) = Emitted' /\ taken' + filled1 <= tx'
    <3>1. received + (waiting1 + lost1) = Emitted + one
      BY <2>1, <2>3, <2>4, <2>5, <2>7, <2>8, <2>9
    <3>2. taken + filled1 <= tx + fill
      BY <2>1, <2>3, <2>4, <2>5, <2>7, <2>9
    <3> QED
      BY <2>5, <2>7, <2>9, <3>1, <3>2
  <2>10. RecordInv'
    BY <2>9 DEF RecordInv, waiting1, filled1, lost1, taken, tx
  <2> QED
    BY <1>2, <2>2, <2>10 DEF RxInv
<1> QED
  BY <1>6, <1>7

LEMMA QuietCounts ==
  ASSUME GoldenTypeOK, FitInv, FitInv', [Next]_vars, pending = <<>>
  PROVE  SameCounts
<1>1. [GoldenNext]_goldenVars
  BY GoldenStep DEF FitInv
<1>2. ~process_message
  BY DEF process_message
<1>3. \A c \in Tracked \cup {"cnt_msgs_rx"} : counters'[c] = counters[c]
  BY <1>1, <1>2, SignalIdle
<1>4. cfg' = cfg
  BY <1>1, <1>2 DEF GoldenNext, process_frame, assert_kill_switch, clear_kill_switch,
     clear_seq_gap, ControlCall, goldenVars
<1> QED
  BY <1>3, <1>4 DEF SameCounts, Tracked, Left

LEMMA ReceiverKeeps ==
  ASSUME RxInv, Receiver PROVE RxInv'
<1>1. SameCounts /\ lost' = lost /\ (Ended => Ended')
  BY DEF Receiver, goldenVars, genVars, stateVars, SameCounts, Ended, Limit
<1>2. CASE Read
  BY <1>1, <1>2, ReadKeeps
<1>3. CASE Skip
  BY <1>1, <1>3, JunkKeeps DEF Skip
<1>4. CASE BadLine \/ Interrupt
  BY <1>1, <1>4, RestKeeps DEF BadLine, Interrupt
<1>5. CASE Finish(Ended)
  BY <1>1, <1>5, RestKeeps DEF Finish
<1> QED
  BY <1>2, <1>3, <1>4, <1>5 DEF Receiver

LEMMA RecordStep ==
  ASSUME GoldenTypeOK, GoldenTypeOK', SignalInv, FitInv, FitInv', RxInv, [Next]_vars
  PROVE  RxInv'
<1>1. CASE Generate
  <2>1. ~Ended
    <3> SUFFICES ASSUME Ended PROVE FALSE
      OBVIOUS
    <3>1. generated < Limit
      BY <1>1 DEF Generate, iter_scenario, Normal, Crossed, Gaps, Malformed, Burst,
         Trigger, Turn
    <3>2. generated \in Nat /\ Limit \in Nat /\ generated >= Limit
      BY RoomFacts DEF Ended, FitInv, GenInv
    <3> QED
      BY <3>1, <3>2
  <2>2. SameCounts /\ UNCHANGED rxVars /\ lost' = lost
    BY <1>1 DEF Generate, goldenVars, SameCounts
  <2> QED
    BY <2>1, <2>2, RestKeeps DEF rxVars
<1>2. CASE Feed
  <2>1. ~Ended /\ pending = <<>>
    BY <1>2 DEF Feed, Take, Ended, process_frame
  <2> QED
    BY <1>2, <2>1, QuietCounts, RestKeeps DEF Feed, rxVars
<1>3. CASE AnyMessage \/ AnyBadFrame \/ ControlCalls
  <2>1. ~Ended /\ pending = <<>> /\ UNCHANGED rxVars /\ lost' = lost
    BY <1>3 DEF AnyMessage, AnyBadFrame, CallFrame, ControlCalls, process_frame, Ended,
       assert_kill_switch, clear_kill_switch, clear_seq_gap, ControlCall
  <2> QED
    BY <2>1, QuietCounts, RestKeeps DEF rxVars
<1>4. CASE ProcessNext
  BY <1>4, ProcessKeeps
<1>5. CASE Stray
  <2>1. SameCounts /\ lost' = lost /\ (Ended => Ended')
    BY <1>5 DEF Stray, goldenVars, genVars, stateVars, SameCounts, Ended, Limit
  <2> QED
    BY <1>5, <2>1, JunkKeeps DEF Stray
<1>6. CASE Receiver
  BY <1>6, ReceiverKeeps
<1>7. CASE UNCHANGED vars
  <2>1. SameCounts /\ lost' = lost /\ (Ended => Ended') /\ UNCHANGED rxVars
    BY <1>7 DEF vars, goldenVars, genVars, stateVars, SameCounts, Ended, Limit
  <2> QED
    BY <2>1, RestKeeps DEF rxVars
<1> QED
  BY <1>1, <1>2, <1>3, <1>4, <1>5, <1>6, <1>7 DEF Next

LEMMA RecordInit ==
  ASSUME Init PROVE RxInv
<1>1. /\ session = LISTENING /\ socket = <<>> /\ received = 0 /\ stats = Stats /\ lost = 0
      /\ \A c \in Counter : counters[c] = 0
  BY DEF Init, RxInit, GoldenInit
<1>2. /\ stats.total = 0 /\ stats.by_side = Tally(SideName)
      /\ stats.by_reject_reason = Tally(Reasons) /\ stats.accepted_latencies = <<>>
  BY <1>1 DEF Stats
<1>3. TallyInv
  <2>1. RxCount = Forever \/ 0 <= RxCount
    BY ReceiverAssumption
  <2>2. Tally(SideName) \in [SideName -> Nat] /\ Tally(Reasons) \in [Reasons -> Nat]
        /\ Tally(SideName)["buy"] = 0 /\ Tally(SideName)["sell"] = 0
        /\ Tally(Reasons)["accepted"] = 0
    BY ReceiverAssumption DEF Tally, SideName
  <2> QED
    BY <1>1, <1>2, <2>1, <2>2 DEF TallyInv, LISTENING, SUMMARY
<1>4. Kept(socket, Sent) = {} /\ Kept(socket, Fills) = {} /\ Cardinality({}) = 0
  BY <1>1, FS_EmptySet DEF Kept
<1>5. QueueInv
  BY <1>1 DEF QueueInv, LISTENING, SUMMARY
<1>6. RecordInv
  <2>1. Emitted = 0 /\ counters["cnt_orders_tx"] = 0
    BY <1>1 DEF Emitted, Counter
  <2>2. stats.by_reject_reason["accepted"] = 0
    BY <1>2, ReceiverAssumption DEF Tally
  <2> QED
    <3>1. Cardinality(Kept(socket, Sent)) = 0 /\ Cardinality(Kept(socket, Fills)) = 0
      BY <1>4
    <3>2. /\ received + (Cardinality(Kept(socket, Sent)) + lost) = Emitted
          /\ stats.by_reject_reason["accepted"] + Cardinality(Kept(socket, Fills))
               <= counters["cnt_orders_tx"]
      BY <1>1, <2>1, <2>2, <3>1
    <3> QED
      BY <3>2 DEF RecordInv
<1> QED
  BY <1>3, <1>5, <1>6 DEF RxInv

(***************************************************************************)
(* Every record the engine's reference makes is read, waiting or lost, and *)
(* the receiver's sums agree with one another and, when it stops by        *)
(* itself, with what it was asked for (Stats.observe, iter_udp,            *)
(* iter_hex_file): whatever is lost or strays in, and however the summary  *)
(* is cut short.                                                           *)
(***************************************************************************)
THEOREM RecordsSafe == Spec => []RecordsAccounted
<1> DEFINE Inv == SignalInv /\ RxInv
<1>1. Init => Inv
  BY SignalInit, RecordInit DEF Init
<1>2. GoldenTypeOK /\ GoldenTypeOK' /\ FitInv /\ FitInv' /\ Inv /\ [Next]_vars => Inv'
  <2>1. GoldenTypeOK /\ FitInv /\ FitInv' /\ [Next]_vars => [GoldenNext]_goldenVars
    BY GoldenStep DEF FitInv
  <2> QED
    BY <2>1, SignalStep, RecordStep
<1>3. GoldenTypeOK /\ Inv => RecordsAccounted
  BY RecordsAre DEF RxInv
<1> QED
  BY <1>1, <1>2, <1>3, BenchSafe, PTL DEF Spec

-----------------------------------------------------------------------------
(* The forced frames of "crossed" and "trigger". *)

Forcing == {CROSSED, TRIGGER}

(* Only a watched symbol has a book. *)
BooksWatched == \A s \in Symbol : books[s].ask_valid => s \in watched_symbols

(* The model's ask, if it has one, is the generator's. *)
AskTold(s) ==
  books[s].ask_valid =>
    books[s].ask_price = ask_price[s] /\ books[s].ask_qty \in 1 .. 200

Awaited(n) == expected_seq \in {None, n}

(* A bid that does what its scenario is for. *)
Bites(m, symbol) ==
  /\ m.side = SIDE_BID
  /\ scenario = TRIGGER =>
       m.quantity = 500 /\ \E skew \in Skew : m.price = ask_price[symbol] - skew
  /\ scenario = CROSSED => m.quantity # 0 /\ m.price > ask_price[symbol]

(* The message on its way is the next one, and what it does not say of the *)
(* asks the model knows.                                                   *)
Coming(m, kind, symbol) ==
  /\ symbol \in FeedSymbols /\ m \in WireMessage
  /\ m.msg_type = MSG_QUOTE /\ m.symbol_id = symbol /\ ~m.reserved
  /\ seq = m.seq_num + 1 /\ Awaited(m.seq_num)
  /\ \A s \in FeedSymbols \ {symbol} : AskTold(s)
  /\ \/ m.side = SIDE_BID /\ AskTold(symbol)
     \/ m.side = SIDE_ASK /\ m.price = ask_price[symbol] /\ m.quantity \in 1 .. 200
  /\ kind = FORCED => Bites(m, symbol)

Resting ==
  /\ yielded = NoFrame /\ pending = <<>>
  /\ Awaited(seq) /\ \A s \in FeedSymbols : AskTold(s)
  /\ ForcedFramesBite

Offered ==
  /\ yielded # NoFrame /\ pending = <<>> /\ inHand = NoFrame
  /\ \E m : /\ yielded.payload = [messages |-> <<m>>, ragged |-> FALSE]
            /\ Coming(m, yielded.kind, yielded.symbol)

Taken ==
  /\ yielded = NoFrame
  /\ \E m : pending = <<m>> /\ Coming(m, inHand.kind, inHand.symbol)

Unforced ==
  /\ yielded # NoFrame => yielded.kind # FORCED
  /\ inHand # NoFrame => inHand.kind # FORCED

BiteInv ==
  /\ cfg \in Setup[scenario]
  /\ scenario \in Forcing => BooksWatched /\ (Resting \/ Offered \/ Taken)
  /\ scenario \notin Forcing => Unforced

LEMMA BiteIs ==
  ASSUME BiteInv PROVE ForcedFramesBite
<1>1. CASE scenario \notin Forcing
  BY <1>1 DEF BiteInv, Unforced, ForcedFramesBite
<1>2. CASE scenario \in Forcing
  <2>1. CASE Offered
    BY <2>1 DEF Offered, ForcedFramesBite
  <2>2. CASE Taken
    BY <2>2 DEF Taken, ForcedFramesBite
  <2> QED
    BY <1>2, <2>1, <2>2 DEF BiteInv, Resting
<1> QED
  BY <1>1, <1>2

LEMMA ForcingFacts ==
  ASSUME FitInv, scenario \in Forcing
  PROVE  /\ scenario \in Scenarios \ Traffic /\ GenInv /\ FeedSymbols \subseteq Symbol
         /\ Qty[scenario] \subseteq 1 .. 200
         /\ seq \in Nat /\ ask_price \in [FeedSymbols -> Int]
<1>1. scenario \in Scenarios \ Traffic /\ GenInv /\ FeedSymbols \subseteq Symbol
  BY RoomAssumption DEF FitInv, Forcing
<1>2. Qty[scenario] \subseteq 1 .. 200
  BY <1>1, FeedGenAssumption
<1>3. seq \in Nat /\ ask_price \in [FeedSymbols -> Int]
  <2>1. generated \in Nat
    BY <1>1, LimitType DEF GenInv
  <2> QED
    BY <1>1, <2>1 DEF GenInv, Strolled
<1> QED
  BY <1>1, <1>2, <1>3

(* What a quote makes of the book. *)
LEMMA QuotedBook ==
  ASSUME GoldenTypeOK, NEW m \in Message, m.msg_type = MSG_QUOTE, NEW now \in Nat
  PROVE  LET old == books[m.symbol_id]
             b == BookAfter(m, now)
         IN /\ b \in Book
            /\ m.side = SIDE_BID =>
                 /\ b.bid_qty = m.quantity /\ b.bid_valid = (m.quantity # 0)
                 /\ m.quantity # 0 => b.bid_price = m.price
                 /\ b.ask_valid = old.ask_valid /\ b.ask_price = old.ask_price
                 /\ b.ask_qty = old.ask_qty
            /\ m.side = SIDE_ASK =>
                 /\ b.ask_qty = m.quantity /\ b.ask_valid = (m.quantity # 0)
                 /\ m.quantity # 0 => b.ask_price = m.price
<1> DEFINE old == books[m.symbol_id]
           b == BookAfter(m, now)
<1>1. old \in Book
  BY DEF GoldenTypeOK, Message
<1>2. b \in Book
  BY BookType DEF GoldenTypeOK
<1>3. b = [Quoted(old, m) EXCEPT !.last_update_cycle = now]
  BY DEF BookAfter
<1> HIDE DEF old
<1>4. m.side = SIDE_BID =>
        b = [old EXCEPT !.bid_price = IF m.quantity # 0 THEN m.price ELSE @,
                        !.bid_qty = m.quantity, !.bid_valid = m.quantity # 0,
                        !.last_update_cycle = now]
  BY <1>1, <1>3 DEF Quoted, Book
<1>5. m.side = SIDE_ASK =>
        b = [old EXCEPT !.ask_price = IF m.quantity # 0 THEN m.price ELSE @,
                        !.ask_qty = m.quantity, !.ask_valid = m.quantity # 0,
                        !.last_update_cycle = now]
  BY <1>1, <1>3 DEF Quoted, Book, SIDE_BID, SIDE_ASK
<1> HIDE DEF b
<1>6. m.side = SIDE_BID =>
        /\ b.bid_qty = m.quantity /\ b.bid_valid = (m.quantity # 0)
        /\ m.quantity # 0 => b.bid_price = m.price
        /\ b.ask_valid = old.ask_valid /\ b.ask_price = old.ask_price
        /\ b.ask_qty = old.ask_qty
  BY <1>1, <1>4 DEF Book
<1>7. m.side = SIDE_ASK =>
        /\ b.ask_qty = m.quantity /\ b.ask_valid = (m.quantity # 0)
        /\ m.quantity # 0 => b.ask_price = m.price
  BY <1>1, <1>5 DEF Book
<1> QED
  BY <1>2, <1>6, <1>7 DEF b, old

(* The skewed bid fires a buy on any ask of the generator's. *)
LEMMA SkewFires ==
  ASSUME cfg \in Configs, NEW b \in Book, NEW m, m.msg_type = MSG_QUOTE,
         b.bid_valid, b.ask_valid, b.ask_qty <= 200, b.bid_qty = 500, 200 * cfg.imb < 500,
         NEW skew \in 5 .. 10, cfg.min_spread <= skew, b.bid_price = b.ask_price - skew
  PROVE  SignalSide(m, b) = SIDE_BID
<1>1. /\ b.ask_qty \in Nat /\ b.bid_price \in Nat /\ b.ask_price \in Nat
      /\ cfg.imb \in Nat /\ cfg.min_spread \in Nat
  BY ConfigFacts DEF Book
<1>2. Tradable(b)
  BY <1>1 DEF Tradable, crossed
<1>3. b.ask_qty * cfg.imb <= 200 * cfg.imb /\ b.ask_qty * cfg.imb \in Nat
  BY <1>1, ProductMonotone
<1>4. 200 * cfg.imb \in Nat
  BY <1>1
<1>5. b.bid_qty > b.ask_qty * cfg.imb
  BY <1>3, <1>4
<1>6. buy_ok(b) /\ ~sell_ok(b)
  BY <1>2, <1>5, RulesExclude DEF buy_ok
<1> QED
  BY <1>6 DEF SignalSide, Conflict, MSG_QUOTE, MSG_CLEAR

(* A bid over the ask fires nothing. *)
LEMMA CrossFires ==
  ASSUME NEW b \in Book, NEW m, b.bid_valid, b.ask_valid, b.bid_price > b.ask_price
  PROVE  crossed(b) /\ SignalSide(m, b) = None
<1>1. crossed(b)
  BY DEF crossed, Book
<1> QED
  BY <1>1 DEF SignalSide, buy_ok, sell_ok, Tradable

LEMMA ForcedBites ==
  ASSUME FitInv, GoldenTypeOK, scenario \in Forcing, cfg \in Setup[scenario],
         NEW m \in Message, NEW symbol \in FeedSymbols, NEW now \in Nat,
         m.msg_type = MSG_QUOTE, m.symbol_id = symbol, AskTold(symbol), Bites(m, symbol)
  PROVE  LET b == BookAfter(m, now)
         IN b.ask_valid =>
              IF scenario = TRIGGER THEN SignalSide(m, b) = SIDE_BID
              ELSE crossed(b) /\ SignalSide(m, b) = None
<1> DEFINE b == BookAfter(m, now)
<1> SUFFICES ASSUME b.ask_valid
             PROVE  IF scenario = TRIGGER THEN SignalSide(m, b) = SIDE_BID
                    ELSE crossed(b) /\ SignalSide(m, b) = None
  OBVIOUS
<1>1. m.side = SIDE_BID /\ cfg \in Configs
  BY DEF Bites, GoldenTypeOK
<1>2. /\ b \in Book
      /\ b.bid_qty = m.quantity /\ b.bid_valid = (m.quantity # 0)
      /\ m.quantity # 0 => b.bid_price = m.price
      /\ b.ask_valid = books[symbol].ask_valid /\ b.ask_price = books[symbol].ask_price
      /\ b.ask_qty = books[symbol].ask_qty
  <2>1. /\ b \in Book
        /\ b.bid_qty = m.quantity /\ b.bid_valid = (m.quantity # 0)
        /\ m.quantity # 0 => b.bid_price = m.price
        /\ b.ask_valid = books[m.symbol_id].ask_valid
        /\ b.ask_price = books[m.symbol_id].ask_price
        /\ b.ask_qty = books[m.symbol_id].ask_qty
    BY <1>1, QuotedBook
  <2> HIDE DEF b
  <2> QED
    BY <2>1
<1> HIDE DEF b
<1>3. b.ask_price = ask_price[symbol] /\ b.ask_qty \in 1 .. 200
  BY <1>2 DEF AskTold
<1>4. CASE scenario = TRIGGER
  <2>1. m.quantity = 500 /\ \E skew \in Skew : m.price = ask_price[symbol] - skew
    BY <1>4 DEF Bites
  <2>2. PICK skew \in Skew : m.price = ask_price[symbol] - skew
    BY <2>1
  <2>3. skew \in 5 .. 10
    BY FeedGenAssumption
  <2>4. 200 * cfg.imb < 500 /\ cfg.min_spread <= skew
    <3>1. scenario \in Scenarios \cap {TRIGGER}
      BY <1>4 DEF FitInv
    <3> QED
      BY <3>1, TriggerAssumption
  <2>5. b.bid_valid /\ b.ask_valid /\ b.bid_qty = 500 /\ b.ask_qty <= 200
    <3>1. m.quantity # 0
      BY <2>1
    <3>2. b.bid_valid
      BY <1>2, <3>1, Zenon
    <3>3. b.bid_qty = 500 /\ b.ask_qty <= 200
      BY <1>2, <1>3, <2>1
    <3> QED
      BY <3>2, <3>3, Zenon
  <2>6. b.bid_price = b.ask_price - skew
    BY <1>2, <1>3, <2>1, <2>2
  <2>7. SignalSide(m, b) = SIDE_BID
    BY <1>1, <1>2, <2>3, <2>4, <2>5, <2>6, SkewFires
  <2> QED
    BY <1>4, <2>7
<1>5. CASE scenario # TRIGGER
  <2>1. m.quantity # 0 /\ m.price > ask_price[symbol]
    BY <1>5 DEF Bites, Forcing
  <2>2. b.bid_price > b.ask_price
    BY <1>2, <1>3, <2>1
  <2>3. b.bid_valid
    BY <1>2, <2>1, Zenon
  <2>4. crossed(b) /\ SignalSide(m, b) = None
    BY <1>2, <2>2, <2>3, CrossFires
  <2> QED
    BY <1>5, <2>4
<1> QED
  BY <1>4, <1>5

(* The message arrives with the number the model expects. *)
LEMMA ExpectedComes ==
  ASSUME NEW m, m.seq_num \in Nat, Awaited(m.seq_num)
  PROVE  /\ ~IsDup(m)
         /\ TrackSequence(m) => expected_seq' = m.seq_num + 1
<1>1. Expected(m) = m.seq_num
  BY DEF Awaited, Expected
<1>2. ~IsDup(m)
  BY <1>1 DEF IsDup
<1> QED
  BY <1>2 DEF TrackSequence

(* The asks are told after the message. *)
LEMMA AsksTold ==
  ASSUME GoldenTypeOK, FitInv, scenario \in Forcing, BooksWatched,
         process_message, NEW kind, NEW symbol, Coming(Head(pending), kind, symbol),
         ask_price' = ask_price, seq' = seq
  PROVE  /\ BooksWatched' /\ Awaited(seq)'
         /\ \A s \in FeedSymbols : AskTold(s)'
<1> DEFINE m == Head(pending)
           now == MessageCycle
           b == BookAfter(m, now)
<1>1. /\ symbol \in FeedSymbols /\ m \in WireMessage
      /\ m.msg_type = MSG_QUOTE /\ m.symbol_id = symbol /\ ~m.reserved
      /\ seq = m.seq_num + 1 /\ Awaited(m.seq_num)
      /\ \A s \in FeedSymbols \ {symbol} : AskTold(s)
      /\ \/ m.side = SIDE_BID /\ AskTold(symbol)
         \/ m.side = SIDE_ASK /\ m.price = ask_price[symbol] /\ m.quantity \in 1 .. 200
  BY DEF Coming
<1>2. /\ pending # <<>> /\ cfg' = cfg /\ TrackSequence(m)
      /\ ~Usable(m) => UNCHANGED books
      /\ Usable(m) => books' = [books EXCEPT ![symbol] = b]
  BY <1>1, FateIs, TradeOrNot DEF process_message, Arrive
<1>3. m \in Message /\ now \in Nat
  BY <1>2, InHand
<1>4. ~IsDup(m) /\ expected_seq' = m.seq_num + 1
  BY <1>1, <1>2, <1>3, ExpectedComes DEF Message
<1>5. Usable(m) <=> symbol \in watched_symbols
  BY <1>1, <1>4 DEF Usable, VALID_MSG_TYPES
<1>6. Awaited(seq)'
  BY <1>1, <1>4 DEF Awaited
<1>7. watched_symbols' = watched_symbols
  BY <1>2 DEF watched_symbols
<1>8. symbol \in Symbol /\ books \in [Symbol -> Book]
  BY <1>1, <1>3 DEF GoldenTypeOK, Message
<1>9. FeedSymbols \subseteq Symbol
  BY ForcingFacts
<1>10. /\ b \in Book
       /\ m.side = SIDE_BID =>
            /\ b.ask_valid = books[symbol].ask_valid
            /\ b.ask_price = books[symbol].ask_price
            /\ b.ask_qty = books[symbol].ask_qty
       /\ m.side = SIDE_ASK =>
            /\ b.ask_qty = m.quantity
            /\ m.quantity # 0 => b.ask_price = m.price
  <2>1. /\ b \in Book
        /\ m.side = SIDE_BID =>
             /\ b.ask_valid = books[m.symbol_id].ask_valid
             /\ b.ask_price = books[m.symbol_id].ask_price
             /\ b.ask_qty = books[m.symbol_id].ask_qty
        /\ m.side = SIDE_ASK =>
             /\ b.ask_qty = m.quantity
             /\ m.quantity # 0 => b.ask_price = m.price
    BY <1>1, <1>3, QuotedBook
  <2> HIDE DEF b, m, now
  <2> QED
    BY <1>1, <2>1
<1> HIDE DEF b, m, now
<1>11. CASE ~Usable(m)
  <2>1. books' = books
    BY <1>2, <1>11
  <2>2. BooksWatched'
    BY <1>7, <2>1 DEF BooksWatched
  <2>3. AskTold(symbol)
    BY <1>5, <1>8, <1>11 DEF AskTold, BooksWatched
  <2>4. \A s \in FeedSymbols : AskTold(s)
    BY <1>1, <2>3
  <2>5. \A s \in FeedSymbols : AskTold(s)'
    BY <2>1, <2>4 DEF AskTold
  <2> QED
    BY <1>6, <2>2, <2>5
<1>12. CASE Usable(m)
  <2>1. /\ books'[symbol] = b
        /\ \A s \in Symbol \ {symbol} : books'[s] = books[s]
    BY <1>2, <1>8, <1>12
  <2>2. BooksWatched'
    BY <1>5, <1>7, <1>12, <2>1 DEF BooksWatched
  <2>3. ASSUME NEW s \in FeedSymbols \ {symbol} PROVE AskTold(s)'
    <3>1. books'[s] = books[s] /\ AskTold(s)
      BY <1>1, <1>9, <2>1
    <3> QED
      BY <3>1 DEF AskTold
  <2>4. AskTold(symbol)'
    <3>1. CASE m.side = SIDE_BID /\ AskTold(symbol)
      BY <1>10, <2>1, <3>1, Zenon DEF AskTold
    <3>2. CASE m.side = SIDE_ASK /\ m.price = ask_price[symbol] /\ m.quantity \in 1 .. 200
      <4>1. m.quantity # 0
        BY <3>2
      <4>2. b.ask_price = ask_price[symbol] /\ b.ask_qty \in 1 .. 200
        BY <1>10, <3>2, <4>1
      <4> QED
        BY <2>1, <4>2 DEF AskTold
    <3> QED
      BY <1>1, <3>1, <3>2
  <2>5. \A s \in FeedSymbols : AskTold(s)'
    BY <2>3, <2>4
  <2> QED
    BY <1>6, <2>2, <2>5
<1> QED
  BY <1>11, <1>12

(* The message does what it is for. *)
LEMMA MessageBites ==
  ASSUME GoldenTypeOK, FitInv, scenario \in Forcing, BooksWatched, cfg \in Setup[scenario],
         process_message, Coming(Head(pending), inHand.kind, inHand.symbol),
         scenario' = scenario, inHand' = inHand
  PROVE  ForcedFramesBite'
<1> DEFINE m == Head(pending)
           symbol == inHand.symbol
           now == MessageCycle
           b == BookAfter(m, now)
<1> SUFFICES ASSUME inHand.kind = FORCED, books'[symbol].ask_valid
             PROVE  IF scenario = TRIGGER THEN result'.signal = SIDE_BID
                    ELSE crossed(books'[symbol]) /\ result'.signal = None
  BY DEF ForcedFramesBite, crossed
<1>1. /\ symbol \in FeedSymbols /\ m.msg_type = MSG_QUOTE /\ m.symbol_id = symbol
      /\ ~m.reserved /\ Awaited(m.seq_num) /\ Bites(m, symbol)
  BY DEF Coming
<1>2. AskTold(symbol)
  BY <1>1 DEF Coming, Bites, SIDE_BID, SIDE_ASK
<1>3. /\ pending # <<>>
      /\ ~Usable(m) => UNCHANGED books
      /\ Usable(m) => books' = [books EXCEPT ![symbol] = b]
                        /\ result'.signal = SignalSide(m, b)
  BY <1>1, FateIs DEF process_message
<1>4. m \in Message /\ now \in Nat
  BY <1>3, InHand
<1>5. ~IsDup(m)
  BY <1>1, <1>4, ExpectedComes DEF Message
<1>6. symbol \in Symbol /\ books \in [Symbol -> Book]
  BY <1>1, <1>4 DEF GoldenTypeOK, Message
<1>7. Usable(m)
  <2>1. CASE symbol \in watched_symbols
    BY <1>1, <1>5, <2>1 DEF Usable, VALID_MSG_TYPES
  <2>2. CASE symbol \notin watched_symbols
    BY <1>3, <1>6, <2>2 DEF BooksWatched
  <2> QED
    BY <2>1, <2>2
<1>8. books'[symbol] = b /\ result'.signal = SignalSide(m, b)
  BY <1>3, <1>6, <1>7
<1>9. b.ask_valid =>
        IF scenario = TRIGGER THEN SignalSide(m, b) = SIDE_BID
        ELSE crossed(b) /\ SignalSide(m, b) = None
  BY <1>1, <1>2, <1>4, ForcedBites
<1> QED
  BY <1>8, <1>9

(* What a frame of one message makes of the rest. *)
Offers(m, kind, symbol) ==
  /\ Yield(<<m>>, FALSE, kind, symbol, 1)
  /\ kind \in {FILLER, FORCED}
  /\ symbol \in FeedSymbols /\ m \in WireMessage

LEMMA OfferMade ==
  ASSUME NEW m, NEW kind, NEW symbol, Offers(m, kind, symbol),
         pending = <<>>, pending' = pending, inHand' = NoFrame,
         Coming(m, kind, symbol)'
  PROVE  Offered'
<1>1. yielded' = [payload |-> [messages |-> <<m>>, ragged |-> FALSE],
                  kind |-> kind, symbol |-> symbol]
  BY DEF Offers, Yield
<1>2. yielded' # NoFrame
  <2>1. <<m>> \in Seq(WireMessage)
    BY OneMessage DEF Offers
  <2>2. yielded' \in Frame
    BY <1>1, <2>1 DEF Frame, Offers
  <2> QED
    BY <2>2, TriggerAssumption
<1>3. /\ yielded'.payload = [messages |-> <<m>>, ragged |-> FALSE]
      /\ yielded'.kind = kind /\ yielded'.symbol = symbol
  BY <1>1
<1> QED
  BY <1>2, <1>3 DEF Offered

LEMMA FreshOffers ==
  ASSUME FitInv, Ready, scenario \in Forcing, Resting, Fresh(FILLER),
         UNCHANGED goldenVars, inHand' = NoFrame
  PROVE  Offered'
<1>1. PICK symbol \in FeedSymbols, side \in {BID, ASK},
          drift \in Drift[scenario], qty \in Qty[scenario] :
        /\ Walk(symbol, side, drift)
        /\ seq' = seq + 1
        /\ Yield(<<Quote(symbol, side, drift, qty, seq)>>, FALSE, FILLER, symbol, 1)
  BY DEF Fresh
<1>0. PICK m : m = Quote(symbol, side, drift, qty, seq)
  OBVIOUS
<1>2. /\ m.msg_type = MSG_QUOTE /\ m.symbol_id = symbol /\ m.reserved = FALSE
      /\ m.side = side /\ m.quantity = qty /\ m.seq_num = seq
      /\ m.price = (IF side = BID THEN bid_price[symbol] ELSE ask_price[symbol]) + drift
  BY <1>0 DEF Quote, Msg, QUOTE, MSG_QUOTE
<1>3. m \in WireMessage
  <2>1. seq \in Nat /\ seq <= 6 * Limit
    BY ReadyFacts
  <2> QED
    BY <1>0, <1>1, <2>1, QuoteFits
<1>4. /\ seq \in Nat /\ ask_price \in [FeedSymbols -> Int] /\ qty \in 1 .. 200
      /\ drift \in Int
  <2>1. drift \in -3 .. 3
    BY FeedGenAssumption, ForcingFacts
  <2> QED
    BY <2>1, ForcingFacts
<1>5. /\ pending = <<>> /\ Awaited(seq) /\ \A s \in FeedSymbols : AskTold(s)
      /\ books' = books /\ expected_seq' = expected_seq /\ pending' = pending
  BY DEF Resting, goldenVars, feedVars
<1>6. ASSUME NEW s \in FeedSymbols, ask_price'[s] = ask_price[s] PROVE AskTold(s)'
  BY <1>5, <1>6 DEF AskTold
<1>7. Awaited(m.seq_num)'
  BY <1>1, <1>2, <1>5 DEF Awaited
<1>8. seq' = m.seq_num + 1
  BY <1>1, <1>2
<1>9. CASE side = BID
  <2>1. ask_price' = ask_price
    BY <1>1, <1>9 DEF Walk, BID, ASK
  <2>2. \A s \in FeedSymbols : AskTold(s)'
    BY <1>6, <2>1
  <2>3. m.side = SIDE_BID
    BY <1>2, <1>9 DEF BID, SIDE_BID
  <2>4. Coming(m, FILLER, symbol)'
    BY <1>1, <1>2, <1>3, <1>7, <1>8, <2>2, <2>3 DEF Coming, FILLER, FORCED
  <2> QED
    BY <1>0, <1>1, <1>3, <1>5, <2>4, OfferMade DEF Offers
<1>10. CASE side = ASK
  <2>1. ask_price' = [ask_price EXCEPT ![symbol] = @ + drift]
    BY <1>1, <1>10 DEF Walk
  <2>2. \A s \in FeedSymbols \ {symbol} : AskTold(s)'
    BY <1>4, <1>6, <2>1
  <2>3. m.side = SIDE_ASK /\ m.price = ask_price'[symbol] /\ m.quantity \in 1 .. 200
    BY <1>2, <1>4, <1>10, <2>1 DEF ASK, BID, SIDE_ASK
  <2>4. Coming(m, FILLER, symbol)'
    BY <1>1, <1>2, <1>3, <1>7, <1>8, <2>2, <2>3 DEF Coming, FILLER, FORCED
  <2> QED
    BY <1>0, <1>1, <1>3, <1>5, <2>4, OfferMade DEF Offers
<1> QED
  BY <1>9, <1>10

LEMMA ForcedOffers ==
  ASSUME Ready, scenario \in Forcing, Resting,
         NEW symbol \in FeedSymbols, NEW price \in Int, Near(price), NEW qty \in 1 .. 500,
         ForcedBid(symbol, price, qty),
         scenario = TRIGGER => qty = 500 /\ \E skew \in Skew : price = ask_price[symbol] - skew,
         scenario = CROSSED => qty # 0 /\ price > ask_price[symbol],
         UNCHANGED goldenVars, inHand' = NoFrame
  PROVE  Offered'
<1>0. PICK m : m = Msg(QUOTE, symbol, BID, price, qty, seq)
  OBVIOUS
<1>1. /\ seq' = seq + 1 /\ ask_price' = ask_price /\ scenario' = scenario
      /\ Yield(<<m>>, FALSE, FORCED, symbol, 1)
  BY <1>0 DEF ForcedBid, Yield
<1>2. /\ m.msg_type = MSG_QUOTE /\ m.symbol_id = symbol /\ m.reserved = FALSE
      /\ m.side = SIDE_BID /\ m.quantity = qty /\ m.seq_num = seq /\ m.price = price
  BY <1>0 DEF Msg, QUOTE, MSG_QUOTE, BID, SIDE_BID
<1>3. m \in WireMessage
  BY <1>0, ForcedFits
<1>4. /\ pending = <<>> /\ Awaited(seq) /\ \A s \in FeedSymbols : AskTold(s)
      /\ books' = books /\ expected_seq' = expected_seq /\ pending' = pending
  BY DEF Resting, goldenVars, feedVars
<1>5. \A s \in FeedSymbols : AskTold(s)'
  <2>1. ask_price' = ask_price /\ books' = books
    BY <1>1, <1>4
  <2>2. \A s \in FeedSymbols : AskTold(s) => AskTold(s)'
    BY <2>1 DEF AskTold
  <2> QED
    BY <1>4, <2>2
<1>6. Awaited(m.seq_num)' /\ seq' = m.seq_num + 1
  BY <1>1, <1>2, <1>4 DEF Awaited
<1>7. Bites(m, symbol)'
  BY <1>1, <1>2 DEF Bites
<1>8. Coming(m, FORCED, symbol)'
  BY <1>2, <1>3, <1>5, <1>6, <1>7 DEF Coming
<1> QED
  BY <1>1, <1>3, <1>4, <1>8, OfferMade DEF Offers

LEMMA GenerateBites ==
  ASSUME FitInv, BiteInv, scenario \in Forcing, scenario' = scenario, Generate
  PROVE  BooksWatched' /\ Offered'
<1>1. /\ pending = <<>> /\ iter_scenario /\ inHand' = NoFrame /\ UNCHANGED goldenVars
  BY DEF Generate
<1>2. BooksWatched'
  BY <1>1 DEF BiteInv, BooksWatched, goldenVars, watched_symbols
<1>3. \/ Crossed /\ scenario = CROSSED
      \/ Trigger /\ scenario = TRIGGER
  BY <1>1 DEF iter_scenario, Normal, Crossed, Gaps, Malformed, Burst, Trigger, Turn,
     Forcing, NORMAL, CROSSED, GAPS, MALFORMED, BURST, TRIGGER
<1>4. yielded = NoFrame /\ generated < Limit
  BY <1>3 DEF Crossed, Trigger, Turn
<1>5. Resting
  BY <1>1, <1>4 DEF BiteInv, Offered, Taken
<1>6. Ready
  BY <1>4, ForcingFacts DEF Ready
<1>7. Fresh(FILLER) => Offered'
  BY <1>1, <1>5, <1>6, FreshOffers
<1>8. ASSUME Crossed, scenario = CROSSED PROVE Offered'
  <2>1. CASE generated % 3 = 0
    <3>1. PICK symbol \in FeedSymbols, by \in CrossBy, qty \in Qty[scenario] \cap 1 .. 100 :
            ForcedBid(symbol, ask_price[symbol] + by, qty)
      BY <1>8, <2>1 DEF Crossed
    <3>2. PICK price : price = ask_price[symbol] + by
      OBVIOUS
    <3>3. /\ by \in 1 .. 20 /\ qty # 0 /\ qty \in 1 .. 500 /\ generated \in Nat
          /\ scenario # TRIGGER
      BY <1>6, <1>8, FeedGenAssumption, ReadyFacts DEF CROSSED, TRIGGER
    <3>4. price \in Int /\ price > ask_price[symbol] /\ Near(price)
      BY <1>6, <3>2, <3>3 DEF Ready, GenInv, Strolled, Near
    <3>5. ForcedBid(symbol, price, qty)
      BY <3>1, <3>2
    <3> QED
      BY <1>1, <1>5, <1>6, <3>3, <3>4, <3>5, ForcedOffers
  <2> QED
    BY <1>7, <1>8, <2>1 DEF Crossed
<1>9. ASSUME Trigger, scenario = TRIGGER PROVE Offered'
  <2>1. CASE generated % 3 = 0
    <3>1. PICK symbol \in FeedSymbols, skew \in Skew :
            ForcedBid(symbol, ask_price[symbol] - skew, SKEWED_QTY)
      BY <1>9, <2>1 DEF Trigger
    <3>2. PICK price : price = ask_price[symbol] - skew
      OBVIOUS
    <3>3. skew \in 5 .. 10 /\ generated \in Nat /\ scenario # CROSSED
      BY <1>6, <1>9, FeedGenAssumption, ReadyFacts DEF CROSSED, TRIGGER
    <3>4. price \in Int /\ Near(price)
      BY <1>6, <3>2, <3>3 DEF Ready, GenInv, Strolled, Near
    <3>5. ForcedBid(symbol, price, 500)
      BY <3>1, <3>2 DEF SKEWED_QTY
    <3> QED
      BY <1>1, <1>5, <1>6, <3>2, <3>3, <3>4, <3>5, ForcedOffers
  <2> QED
    BY <1>7, <1>9, <2>1 DEF Trigger
<1> QED
  BY <1>2, <1>3, <1>8, <1>9

LEMMA FeedBites ==
  ASSUME BiteInv, scenario \in Forcing, scenario' = scenario, Feed
  PROVE  BooksWatched' /\ Taken'
<1>1. /\ yielded # NoFrame /\ yielded' = NoFrame
      /\ inHand' = [kind |-> yielded.kind, symbol |-> yielded.symbol]
      /\ UNCHANGED <<seq, bid_price, ask_price>>
  BY DEF Feed, Take, stateVars
<1>2. PICK offset \in Arrivals[scenario] :
        process_frame(yielded.payload, Arrival(offset), TRUE)
  BY DEF Feed
<1>3. cfg' = cfg /\ books' = books /\ expected_seq' = expected_seq
  BY <1>2 DEF process_frame, feedVars
<1>4. BooksWatched'
  BY <1>3 DEF BiteInv, BooksWatched, watched_symbols
<1>5. Offered
  BY <1>1 DEF BiteInv, Resting, Taken
<1>6. PICK m : /\ yielded.payload = [messages |-> <<m>>, ragged |-> FALSE]
               /\ Coming(m, yielded.kind, yielded.symbol)
  BY <1>5 DEF Offered
<1>13. PICK kind, symbol : kind = yielded.kind /\ symbol = yielded.symbol
  OBVIOUS
<1>7. ~BadLength(yielded.payload)
  <2>1. yielded.payload.ragged = FALSE /\ Len(yielded.payload.messages) = 1
    BY <1>6
  <2>2. 1 \in 1 .. MaxMessages
    BY GoldenAssumption
  <2> QED
    BY <2>1, <2>2 DEF BadLength
<1>8. pending' = <<m>>
  <2>1. pending' = yielded.payload.messages
    BY <1>2, <1>7 DEF process_frame
  <2> QED
    BY <1>6, <2>1
<1>9. \A s : AskTold(s) => AskTold(s)'
  BY <1>1, <1>3 DEF AskTold
<1>10. Awaited(m.seq_num) => Awaited(m.seq_num)'
  BY <1>3 DEF Awaited
<1>11. Bites(m, symbol) => Bites(m, symbol)'
  BY <1>1 DEF Bites
<1>12. inHand'.kind = kind /\ inHand'.symbol = symbol
  BY <1>1, <1>13
<1>14. Coming(m, kind, symbol)'
  BY <1>1, <1>6, <1>9, <1>10, <1>11, <1>13 DEF Coming
<1> QED
  BY <1>1, <1>4, <1>8, <1>12, <1>14 DEF Taken, Coming

LEMMA ProcessBites ==
  ASSUME FitInv, GoldenTypeOK, BiteInv, scenario \in Forcing, scenario' = scenario,
         ProcessNext
  PROVE  BooksWatched' /\ Resting'
<1>1. /\ process_message /\ pending # <<>> /\ pending' = Tail(pending)
      /\ inHand' = inHand
      /\ UNCHANGED <<seq, bid_price, ask_price, yielded>>
  BY DEF ProcessNext, process_message, genVars, stateVars
<1>2. Taken
  BY <1>1 DEF BiteInv, Resting, Offered
<1>3. PICK m : pending = <<m>> /\ Coming(m, inHand.kind, inHand.symbol)
  BY <1>2 DEF Taken
<1>4. Coming(Head(pending), inHand.kind, inHand.symbol) /\ pending' = <<>>
  BY <1>1, <1>3
<1>5. BooksWatched /\ cfg \in Setup[scenario]
  BY DEF BiteInv
<1>6. /\ BooksWatched' /\ Awaited(seq)'
      /\ \A s \in FeedSymbols : AskTold(s)'
  BY <1>1, <1>4, <1>5, AsksTold
<1>7. ForcedFramesBite'
  BY <1>1, <1>4, <1>5, MessageBites
<1>8. yielded' = NoFrame
  BY <1>1, <1>2 DEF Taken
<1> QED
  BY <1>4, <1>6, <1>7, <1>8 DEF Resting

(* The other scenarios force nothing. *)
LEMMA NothingForced ==
  ASSUME scenario \notin Forcing, Generate
  PROVE  \E messages, ragged, kind, symbol, n :
           Yield(messages, ragged, kind, symbol, n) /\ kind # FORCED
<1> DEFINE Goal == \E messages, ragged, kind, symbol, n :
                     Yield(messages, ragged, kind, symbol, n) /\ kind # FORCED
<1>1. iter_scenario /\ ~Crossed /\ ~Trigger
  BY DEF Generate, Crossed, Trigger, Turn, Forcing
<1>2. FILLER # FORCED /\ DUPLICATE # FORCED
  BY DEF FILLER, FORCED, DUPLICATE
<1>3. Fresh(FILLER) => Goal
  BY <1>2 DEF Fresh
<1>4. CASE Normal
  BY <1>3, <1>4 DEF Normal
<1>5. CASE Gaps
  BY <1>2, <1>3, <1>5 DEF Gaps
<1>6. CASE Malformed
  <2>1. \/ generated % 3 = 0
        \/ generated % 3 = 1 /\ generated % 3 # 0
        \/ generated % 3 # 0 /\ generated % 3 # 1
    OBVIOUS
  <2> QED
    BY <1>2, <1>6, <2>1 DEF Malformed
<1>7. CASE Burst
  BY <1>2, <1>7 DEF Burst
<1> QED
  BY <1>1, <1>4, <1>5, <1>6, <1>7 DEF iter_scenario

LEMMA UnforcedStep ==
  ASSUME FitInv, BiteInv, scenario \notin Forcing, [Next]_vars
  PROVE  Unforced'
<1>1. Unforced
  BY DEF BiteInv
<1>2. CASE Generate
  <2>1. PICK messages, ragged, kind, symbol, n :
          Yield(messages, ragged, kind, symbol, n) /\ kind # FORCED
    BY <1>2, NothingForced
  <2>2. yielded'.kind = kind /\ inHand' = NoFrame
    BY <1>2, <2>1 DEF Generate, Yield
  <2> QED
    BY <2>1, <2>2 DEF Unforced
<1>3. CASE Feed
  BY <1>1, <1>3 DEF Feed, Take, Unforced
<1>4. CASE AnyMessage \/ AnyBadFrame
  BY <1>1, <1>4 DEF AnyMessage, AnyBadFrame, CallFrame, Unforced, genVars
<1>5. CASE ControlCalls \/ ProcessNext \/ Stray \/ Receiver \/ UNCHANGED vars
  BY <1>1, <1>5 DEF ControlCalls, ProcessNext, Stray, Receiver, vars, genVars, Unforced
<1> QED
  BY <1>2, <1>3, <1>4, <1>5 DEF Next

(* Whoever does nothing to model and generator. *)
LEMMA IdleBites ==
  ASSUME BooksWatched, Resting \/ Offered \/ Taken,
         UNCHANGED <<goldenVars, genVars, inHand>>
  PROVE  BooksWatched' /\ (Resting \/ Offered \/ Taken)'
<1>1. UNCHANGED <<cfg, books, expected_seq, pending, result, scenario, seq, ask_price,
                  yielded, inHand>>
  BY DEF goldenVars, feedVars, genVars, stateVars
<1>2. BooksWatched'
  BY <1>1 DEF BooksWatched, watched_symbols
<1>3. \A s : AskTold(s) => AskTold(s)'
  BY <1>1 DEF AskTold
<1>4. \A m, symbol : Bites(m, symbol) => Bites(m, symbol)'
  BY <1>1 DEF Bites
<1>5. ASSUME NEW m, NEW kind, NEW symbol, Coming(m, kind, symbol)
      PROVE  Coming(m, kind, symbol)'
  BY <1>1, <1>3, <1>4, <1>5 DEF Coming, Awaited
<1>6. CASE Resting
  <2>1. ForcedFramesBite'
    BY <1>1, <1>6 DEF Resting, ForcedFramesBite, crossed
  <2>2. \A s \in FeedSymbols : AskTold(s)'
    BY <1>3, <1>6 DEF Resting
  <2>3. Resting'
    BY <1>1, <1>6, <2>1, <2>2 DEF Resting, Awaited
  <2> QED
    BY <1>2, <2>3
<1>7. CASE Offered
  <2>1. PICK m, kind, symbol :
          /\ yielded.payload = [messages |-> <<m>>, ragged |-> FALSE]
          /\ kind = yielded.kind /\ symbol = yielded.symbol
          /\ Coming(m, kind, symbol)
    BY <1>7 DEF Offered
  <2>2. Coming(m, kind, symbol)'
    BY <1>5, <2>1
  <2>3. kind = yielded'.kind /\ symbol = yielded'.symbol
    BY <1>1, <2>1
  <2>4. Offered'
    BY <1>1, <1>7, <2>1, <2>2, <2>3 DEF Offered
  <2> QED
    BY <1>2, <2>4
<1>8. CASE Taken
  <2>1. PICK m, kind, symbol :
          /\ pending = <<m>> /\ kind = inHand.kind /\ symbol = inHand.symbol
          /\ Coming(m, kind, symbol)
    BY <1>8 DEF Taken
  <2>2. Coming(m, kind, symbol)'
    BY <1>5, <2>1
  <2>3. kind = inHand'.kind /\ symbol = inHand'.symbol
    BY <1>1, <2>1
  <2>4. Taken'
    BY <1>1, <1>8, <2>1, <2>2, <2>3 DEF Taken
  <2> QED
    BY <1>2, <2>4
<1> QED
  BY <1>6, <1>7, <1>8

LEMMA ConfigKept ==
  ASSUME GoldenTypeOK, scenario \in Scenarios, Fits', [Next]_vars PROVE cfg' = cfg
<1>1. [GoldenNext]_goldenVars
  BY GoldenStep
<1> QED
  BY <1>1 DEF GoldenNext, process_message, process_frame, assert_kill_switch,
     clear_kill_switch, clear_seq_gap, ControlCall, goldenVars

LEMMA BiteStep ==
  ASSUME FitInv, FitInv', GoldenTypeOK, BiteInv, [Next]_vars PROVE BiteInv'
<1>1. cfg' = cfg /\ scenario' = scenario
  BY ConfigKept, ScenarioKept DEF FitInv
<1>2. cfg' \in Setup[scenario']
  BY <1>1 DEF BiteInv
<1>3. ASSUME scenario \in Forcing PROVE BooksWatched' /\ (Resting \/ Offered \/ Taken)'
  <2>1. scenario \notin Traffic
    BY <1>3, ForcingFacts
  <2>2. CASE Generate
    BY <1>1, <1>3, <2>2, GenerateBites
  <2>3. CASE Feed
    BY <1>1, <1>3, <2>3, FeedBites
  <2>4. CASE ProcessNext
    BY <1>1, <1>3, <2>4, ProcessBites
  <2>5. CASE AnyMessage \/ AnyBadFrame \/ ControlCalls
    BY <2>1, <2>5 DEF AnyMessage, AnyBadFrame, ControlCalls
  <2>6. CASE Stray \/ Receiver \/ UNCHANGED vars
    <3>1. UNCHANGED <<goldenVars, genVars, inHand>>
      BY <2>6 DEF Stray, Receiver, vars
    <3>2. BooksWatched /\ (Resting \/ Offered \/ Taken)
      BY <1>3 DEF BiteInv
    <3> QED
      BY <3>1, <3>2, IdleBites
  <2> QED
    BY <2>2, <2>3, <2>4, <2>5, <2>6 DEF Next
<1>4. scenario \notin Forcing => Unforced'
  BY UnforcedStep
<1> QED
  BY <1>1, <1>2, <1>3, <1>4 DEF BiteInv

LEMMA BiteInit ==
  ASSUME Init PROVE BiteInv
<1>1. /\ cfg \in Setup[scenario] /\ yielded = NoFrame /\ pending = <<>> /\ inHand = NoFrame
      /\ expected_seq = None /\ books = [s \in Symbol |-> NewBook]
  BY DEF Init, GenInit, GoldenInit
<1>2. \A s \in Symbol : books[s].ask_valid = FALSE
  BY <1>1 DEF NewBook
<1>3. BooksWatched
  BY <1>2 DEF BooksWatched
<1>4. \A s \in FeedSymbols : AskTold(s)
  BY <1>2, RoomAssumption DEF AskTold
<1>5. Resting
  BY <1>1, <1>4 DEF Resting, Awaited, ForcedFramesBite
<1>6. Unforced
  BY <1>1 DEF Unforced
<1> QED
  BY <1>1, <1>3, <1>5, <1>6 DEF BiteInv

(***************************************************************************)
(* However the prices have walked and in whatever order the symbols come,  *)
(* the skewed bid of "trigger" fires a buy and the crossing bid of         *)
(* "crossed" leaves a crossed book that fires nothing, once the model has  *)
(* an ask (feed_gen.py, _trigger and _crossed): a watched symbol's ask is  *)
(* the generator's whenever no frame is on its way, and no number is       *)
(* skipped or repeated, so no quote is lost.                               *)
(***************************************************************************)
THEOREM ForcedSafe == Spec => []ForcedFramesBite
<1> DEFINE Inv == GoldenTypeOK /\ FitInv
<1>1. Init => BiteInv
  BY BiteInit
<1>2. Inv /\ Inv' /\ BiteInv /\ [Next]_vars => BiteInv'
  BY BiteStep
<1>3. BiteInv => ForcedFramesBite
  BY BiteIs
<1> QED
  BY <1>1, <1>2, <1>3, BenchSafe, PTL DEF Spec

-----------------------------------------------------------------------------
(* What the scenarios leave in the counters. *)

Tallied == {"err_frame_len", "err_msg_type", "err_flags", "cnt_seq_dup", "cnt_msgs_accepted"}

(* The counters of the scenarios that a message increments. *)
Marks(m) ==
  {c \in Tallied :
     \/ c = "err_msg_type" /\ m.msg_type \notin VALID_MSG_TYPES
     \/ c = "err_flags" /\ m.msg_type \in VALID_MSG_TYPES /\ m.reserved
     \/ c = "cnt_seq_dup" /\ IsDup(m)
     \/ /\ c = "cnt_msgs_accepted" /\ m.msg_type \in VALID_MSG_TYPES /\ ~m.reserved
        /\ m.symbol_id \in watched_symbols}

LEMMA TalliedNames ==
  /\ Tallied \subseteq Counter /\ "cnt_seq_gap" \in Counter /\ "cnt_seq_gap" \notin Tallied
  /\ \A g \in Gate : GATE_NAME[g] \notin Tallied \cup {"cnt_seq_gap"}
<1>1. Tallied \subseteq Counter /\ "cnt_seq_gap" \in Counter /\ "cnt_seq_gap" \notin Tallied
  BY DEF Tallied, Counter
<1>2. /\ GATE_NAME[1] = "cnt_rej_kill" /\ GATE_NAME[2] = "cnt_rej_size"
      /\ GATE_NAME[3] = "cnt_rej_position" /\ GATE_NAME[4] = "cnt_rej_band"
      /\ GATE_NAME[5] = "cnt_rej_stale" /\ GATE_NAME[6] = "cnt_rej_seqgap"
      /\ GATE_NAME[7] = "cnt_rej_crossed" /\ GATE_NAME[8] = "cnt_rej_throttle"
      /\ GATE_NAME[9] = "cnt_rej_ml"
  BY DEF GATE_NAME
<1>3. \A g \in Gate : g \in {1, 2, 3, 4, 5, 6, 7, 8, 9}
  BY DEF Gate
<1>4. \A g \in Gate : GATE_NAME[g] \notin Tallied \cup {"cnt_seq_gap"}
  BY <1>2, <1>3 DEF Tallied
<1> QED
  BY <1>1, <1>4

(* What is counted of a message that is used. *)
UsedHits(hits) ==
  hits \cap (Tallied \cup {"cnt_seq_gap"}) = {"cnt_msgs_accepted"}

LEMMA UsedCounts ==
  ASSUME NEW msg, NEW b, NEW side, NEW adverse, NEW gates \in SUBSET Gate
  PROVE  /\ \A c \in {"err_signal_conflict", "cnt_order_overflow", "cnt_orders_tx"} :
              /\ UsedHits(BookHits(msg, b) \cup {c})
              /\ UsedHits(BookHits(msg, b) \cup SignalHits(side, adverse) \cup {c})
         /\ UsedHits(BookHits(msg, b) \cup {})
         /\ UsedHits(BookHits(msg, b) \cup SignalHits(side, adverse)
                       \cup {GATE_NAME[g] : g \in gates})
<1> DEFINE T == Tallied \cup {"cnt_seq_gap"}
           H == BookHits(msg, b)
           S == SignalHits(side, adverse)
           G == {GATE_NAME[g] : g \in gates}
<1>1. H \cap T = {"cnt_msgs_accepted"}
  BY DEF BookHits, Tallied
<1>2. S \cap T = {}
  BY DEF SignalHits, Tallied
<1>3. G \cap T = {}
  BY TalliedNames
<1>4. \A c \in {"err_signal_conflict", "cnt_order_overflow", "cnt_orders_tx"} : c \notin T
  BY DEF Tallied
<1> HIDE DEF T, H, S, G
<1> QED
  BY <1>1, <1>2, <1>3, <1>4 DEF UsedHits, T, G, H, S

Marked(hits, again) ==
  /\ Increment(hits, again, Gap(Head(pending)))
  /\ hits \cap (Tallied \cup {"cnt_seq_gap"}) = Marks(Head(pending))
  /\ again \cap (Tallied \cup {"cnt_seq_gap"}) = {}

LEMMA MarksOfUsed ==
  ASSUME NEW msg, Usable(msg) PROVE Marks(msg) = {"cnt_msgs_accepted"}
BY DEF Usable, Marks, Tallied

LEMMA MessageMarks ==
  ASSUME process_message PROVE \E hits, again : Marked(hits, again)
<1> DEFINE msg == Head(pending)
           now == MessageCycle
           b == BookAfter(msg, now)
           side == SignalSide(msg, b)
<1>1. CASE Discard(msg)
  <2> DEFINE late == IF IsDup(msg) THEN {"cnt_seq_dup"} ELSE {}
             hits == {"cnt_msgs_rx", DropCounter(msg)} \cup late
  <2>1. Increment(hits, {}, Gap(msg))
    BY <1>1 DEF Discard
  <2>2. hits \cap (Tallied \cup {"cnt_seq_gap"}) = Marks(msg)
    <3>1. CASE msg.msg_type \notin VALID_MSG_TYPES
      <4>1. DropCounter(msg) = "err_msg_type"
        BY <3>1 DEF DropCounter
      <4> QED
        BY <3>1, <4>1 DEF Marks, Tallied
    <3>2. CASE msg.msg_type \in VALID_MSG_TYPES /\ msg.reserved
      <4>1. DropCounter(msg) = "err_flags"
        BY <3>2 DEF DropCounter
      <4> QED
        BY <3>2, <4>1 DEF Marks, Tallied
    <3>3. CASE msg.msg_type \in VALID_MSG_TYPES /\ ~msg.reserved
      <4>1. DropCounter(msg) = IF msg.symbol_id \notin watched_symbols
                               THEN "cnt_msgs_filtered" ELSE "cnt_msgs_accepted"
        BY <3>3 DEF DropCounter
      <4> QED
        BY <3>3, <4>1 DEF Marks, Tallied
    <3> QED
      BY <3>1, <3>2, <3>3
  <2> HIDE DEF hits
  <2> QED
    BY <2>1, <2>2 DEF Marked
<1>2. ASSUME Usable(msg), NEW hits, NEW again, UsedHits(hits),
             again \cap (Tallied \cup {"cnt_seq_gap"}) = {},
             Increment(hits, again, Gap(msg))
      PROVE  \E h, a : Marked(h, a)
  <2>1. Marks(msg) = {"cnt_msgs_accepted"}
    BY <1>2, MarksOfUsed
  <2>2. Marked(hits, again)
    BY <1>2, <2>1 DEF Marked, UsedHits
  <2> QED
    BY <2>2
<1>3. CASE Observe(msg)
  <2> DEFINE clash == IF Conflict(msg, b) THEN {"err_signal_conflict"} ELSE {}
             hits == BookHits(msg, b) \cup clash
  <2>1. Usable(msg) /\ Increment(hits, {}, Gap(msg))
    BY <1>3 DEF Observe, Apply
  <2>2. clash = {"err_signal_conflict"} \/ clash = {}
    OBVIOUS
  <2> HIDE DEF clash
  <2>3. UsedHits(hits)
    BY <2>2, UsedCounts
  <2> HIDE DEF hits
  <2> QED
    BY <1>2, <2>1, <2>3
<1>4. ASSUME NEW adverse \in BOOLEAN, Refuse(msg, adverse)
      PROVE  \E h, a : Marked(h, a)
  <2> DEFINE gates == GatesFired(msg, b, side, now, adverse)
             hits == BookHits(msg, b) \cup SignalHits(side, adverse)
                       \cup {GATE_NAME[g] : g \in gates}
             again == {GATE_NAME[g] : g \in gates \cap {GATE_ML}}
  <2>1. gates \in SUBSET Gate
    BY DEF GatesFired
  <2>2. Usable(msg) /\ Increment(hits, again, Gap(msg))
    BY <1>4 DEF Refuse, Apply
  <2> HIDE DEF gates
  <2>3. UsedHits(hits)
    BY <2>1, UsedCounts
  <2>4. again \cap (Tallied \cup {"cnt_seq_gap"}) = {}
    BY <2>1, TalliedNames
  <2> HIDE DEF hits, again
  <2> QED
    BY <1>2, <2>2, <2>3, <2>4
<1>5. ASSUME NEW adverse \in BOOLEAN, Overflow(msg, adverse)
      PROVE  \E h, a : Marked(h, a)
  <2> DEFINE hits == BookHits(msg, b) \cup SignalHits(side, adverse)
                       \cup {"cnt_order_overflow"}
  <2>1. Usable(msg) /\ Increment(hits, {}, Gap(msg))
    BY <1>5 DEF Overflow, Apply
  <2>2. UsedHits(hits)
    BY UsedCounts
  <2> HIDE DEF hits
  <2> QED
    BY <1>2, <2>1, <2>2
<1>6. ASSUME NEW adverse \in BOOLEAN, Trade(msg, adverse)
      PROVE  \E h, a : Marked(h, a)
  <2> DEFINE hits == BookHits(msg, b) \cup SignalHits(side, adverse)
                       \cup {"cnt_orders_tx"}
  <2>1. Usable(msg) /\ Increment(hits, {}, Gap(msg))
    BY <1>6 DEF Trade, Apply
  <2>2. UsedHits(hits)
    BY UsedCounts
  <2> HIDE DEF hits
  <2> QED
    BY <1>2, <2>1, <2>2
<1> QED
  BY <1>1, <1>3, <1>4, <1>5, <1>6 DEF process_message

LEMMA MessageTally ==
  ASSUME GoldenTypeOK, process_message
  PROVE  /\ \A c \in Tallied :
              counters'[c] = Lesser(CounterMax, counters[c] + One(c \in Marks(Head(pending))))
         /\ counters'["cnt_seq_gap"]
              = Lesser(CounterMax, counters["cnt_seq_gap"] + Gap(Head(pending)))
<1> DEFINE gap == Gap(Head(pending))
           M == Marks(Head(pending))
<1>1. PICK hits, again : Marked(hits, again)
  BY MessageMarks
<1>2. gap \in Nat
  BY InHand DEF process_message
<1>3. /\ Increment(hits, again, gap)
      /\ hits \cap (Tallied \cup {"cnt_seq_gap"}) = M
      /\ again \cap (Tallied \cup {"cnt_seq_gap"}) = {}
      /\ M \subseteq Tallied
  BY <1>1 DEF Marked, Marks
<1> HIDE DEF gap, M
<1>4. \A c \in Counter :
        counters'[c] =
          Lesser(CounterMax, counters[c] + One(c \in hits) + One(c \in again)
                               + (IF c = "cnt_seq_gap" THEN gap ELSE 0))
  BY <1>2, <1>3, IncrementType DEF GoldenTypeOK
<1>5. ASSUME NEW c \in Tallied
      PROVE  counters'[c] = Lesser(CounterMax, counters[c] + One(c \in M))
  <2>1. c \in Counter /\ c # "cnt_seq_gap" /\ c \notin again /\ (c \in hits <=> c \in M)
    BY <1>3, TalliedNames
  <2>2. counters'[c] = Lesser(CounterMax, counters[c] + One(c \in hits) + 0 + 0)
    BY <1>4, <2>1 DEF One
  <2>3. counters[c] \in Nat
    BY <2>1 DEF GoldenTypeOK
  <2> QED
    BY <2>1, <2>2, <2>3 DEF One
<1>6. counters'["cnt_seq_gap"] = Lesser(CounterMax, counters["cnt_seq_gap"] + gap)
  <2>1. /\ "cnt_seq_gap" \in Counter /\ "cnt_seq_gap" \notin hits
        /\ "cnt_seq_gap" \notin again
    BY <1>3, TalliedNames
  <2>2. counters'["cnt_seq_gap"] = Lesser(CounterMax, counters["cnt_seq_gap"] + 0 + 0 + gap)
    BY <1>4, <2>1 DEF One
  <2>3. counters["cnt_seq_gap"] \in Nat
    BY <2>1 DEF GoldenTypeOK
  <2> QED
    BY <1>2, <2>2, <2>3
<1> QED
  BY <1>5, <1>6 DEF gap, M

(* What the frames generated so far are to leave in a counter. *)
Promised(c) ==
  IF scenario = MALFORMED
  THEN IF c = "err_frame_len" THEN (generated + 2) \div 3
       ELSE IF c = "err_msg_type" THEN (generated + 1) \div 3
       ELSE IF c = "err_flags" THEN generated \div 3 ELSE 0
  ELSE IF c = "cnt_msgs_accepted" THEN generated
       ELSE IF c = "cnt_seq_dup" /\ scenario = GAPS THEN (generated + 3) \div 8 ELSE 0

Jumps == IF scenario = GAPS /\ generated > 0 THEN (generated - 1) \div 8 ELSE 0

(* n messages on their way still have to be counted in each of M ... *)
Owing(M, n) ==
  \A c \in Tallied : counters[c] + (IF c \in M THEN n ELSE 0) = Promised(c)

(* ... and n of them jump ahead. *)
GapOwing(n) ==
  scenario # MALFORMED =>
    /\ 2 * (Jumps - n) <= counters["cnt_seq_gap"]
    /\ counters["cnt_seq_gap"] <= 5 * (Jumps - n)

(* After g messages without a loss, n is the number to come. *)
Expects(n, g) == expected_seq = IF g = 0 THEN None ELSE n

(* Numbers get lost with the frames that are cut off. *)
Behind(n) == expected_seq = None \/ expected_seq <= n

Plain(m) ==
  m.msg_type = MSG_QUOTE /\ ~m.reserved /\ m.symbol_id \in FeedSymbols

Run(ms) ==
  /\ scenario # MALFORMED
  /\ Len(ms) \in Nat /\ Len(ms) <= generated
  /\ \A i \in 1 .. Len(ms) : Plain(ms[i]) /\ ms[i].seq_num = seq - Len(ms) + i - 1
  /\ Expects(seq - Len(ms), generated - Len(ms))
  /\ Owing({"cnt_msgs_accepted"}, Len(ms)) /\ GapOwing(0)

Jumped(m) ==
  /\ scenario = GAPS /\ Plain(m)
  /\ seq = m.seq_num + 1 /\ generated > 1
  /\ expected_seq \in Nat /\ \E jump \in 2 .. 5 : m.seq_num = expected_seq + jump
  /\ Owing({"cnt_msgs_accepted"}, 1) /\ GapOwing(1)

Repeated(m) ==
  /\ scenario = GAPS /\ Plain(m)
  /\ expected_seq = seq /\ m.seq_num < seq /\ generated > 1
  /\ Owing({"cnt_msgs_accepted", "cnt_seq_dup"}, 1) /\ GapOwing(0)

Damaged(m) ==
  /\ scenario = MALFORMED
  /\ seq = m.seq_num + 1 /\ Behind(m.seq_num)
  /\ \/ m.msg_type \notin VALID_MSG_TYPES /\ Owing({"err_msg_type"}, 1)
     \/ m.msg_type \in VALID_MSG_TYPES /\ m.reserved /\ Owing({"err_flags"}, 1)

Single(m) == Jumped(m) \/ Repeated(m) \/ Damaged(m)

OnWay(ms) == Run(ms) \/ (Len(ms) = 1 /\ Single(ms[1]))

(* A malformed frame has been taken in. *)
Settled == scenario = MALFORMED /\ Behind(seq) /\ Owing({}, 0)

Cut == scenario = MALFORMED /\ Behind(seq) /\ Owing({"err_frame_len"}, 1)

Carried ==
  \/ \E ms : /\ yielded.payload = [messages |-> ms, ragged |-> FALSE]
             /\ OnWay(ms) /\ Len(ms) \in Nat \ {0} /\ Len(ms) <= MaxMessages
  \/ yielded.payload.ragged = TRUE /\ Cut

InModel == \E ms : pending = ms /\ OnWay(ms)

ScenarioInv ==
  scenario \notin Traffic =>
    /\ generated > 0 => seq > 1
    /\ yielded = NoFrame => InModel \/ (pending = <<>> /\ Settled)
    /\ yielded # NoFrame => pending = <<>> /\ Carried

LEMMA PromisedIs ==
  ASSUME generated \in Nat, NEW c
  PROVE  Promised(c) \in Nat /\ Promised(c) <= generated
BY DEF Promised

LEMMA JumpsAre ==
  ASSUME generated \in Nat
  PROVE  Jumps \in Nat /\ 5 * Jumps <= generated
BY DEF Jumps

(* No counter is full before the scenario ends. *)
LEMMA GeneratedFits ==
  ASSUME FitInv, scenario \notin Traffic
  PROVE  generated \in Nat /\ generated <= CounterMax /\ seq \in Nat \ {0}
<1>1. scenario \in Scenarios \ Traffic /\ GenInv
  BY DEF FitInv
<1>2. Limit \in Nat /\ Limit <= CounterMax
  BY <1>1, LimitType, ScenarioAssumption DEF Limit
<1> QED
  BY <1>1, <1>2, GoldenAssumption DEF GenInv

LEMMA ScenarioIs ==
  ASSUME ScenarioInv, FitInv, GoldenTypeOK PROVE ScenarioAccounted
<1> SUFFICES ASSUME scenario \notin Traffic, pending = <<>>, yielded = NoFrame
             PROVE  LET malformed(k) ==
                          IF scenario = MALFORMED THEN (generated + k) \div 3 ELSE 0
                        jumps == IF scenario = GAPS /\ generated > 0
                                 THEN (generated - 1) \div 8 ELSE 0
                    IN /\ counters["err_frame_len"] = malformed(2)
                       /\ counters["err_msg_type"] = malformed(1)
                       /\ counters["err_flags"] = malformed(0)
                       /\ counters["cnt_seq_dup"] =
                            IF scenario = GAPS THEN (generated + 3) \div 8 ELSE 0
                       /\ scenario # MALFORMED =>
                            /\ counters["cnt_msgs_accepted"] = generated
                            /\ counters["cnt_seq_gap"] \in 2 * jumps .. 5 * jumps
  BY DEF ScenarioAccounted
<1>1. generated \in Nat
  BY GeneratedFits
<1>2. Run(<<>>) \/ Settled
  <2>1. ~ \E m : <<>> = <<m>> \/ Len(<<>>) = 1
    OBVIOUS
  <2> QED
    BY <2>1 DEF ScenarioInv, InModel, OnWay
<1>3. \A c \in Tallied : counters[c] \in Nat /\ counters[c] = Promised(c)
  <2>1. \A c \in Tallied : counters[c] \in Nat
    BY TalliedNames DEF GoldenTypeOK
  <2>2. Len(<<>>) = 0
    OBVIOUS
  <2>3. \E M : Owing(M, 0)
    BY <1>2, <2>2 DEF Run, Settled
  <2> QED
    BY <2>1, <2>3 DEF Owing
<1>4. /\ counters["err_frame_len"] = Promised("err_frame_len")
      /\ counters["err_msg_type"] = Promised("err_msg_type")
      /\ counters["err_flags"] = Promised("err_flags")
      /\ counters["cnt_seq_dup"] = Promised("cnt_seq_dup")
      /\ counters["cnt_msgs_accepted"] = Promised("cnt_msgs_accepted")
  BY <1>3 DEF Tallied
<1>5. MALFORMED # GAPS
  BY DEF MALFORMED, GAPS
<1>6. scenario # MALFORMED => counters["cnt_seq_gap"] \in 2 * Jumps .. 5 * Jumps
  <2>1. counters["cnt_seq_gap"] \in Nat
    BY TalliedNames DEF GoldenTypeOK
  <2>2. Jumps \in Nat
    BY <1>1, JumpsAre
  <2>3. scenario # MALFORMED => GapOwing(0)
    BY <1>2 DEF Run, Settled
  <2> QED
    BY <2>1, <2>2, <2>3 DEF GapOwing
<1> QED
  BY <1>1, <1>4, <1>5, <1>6 DEF Promised, Jumps

(* One message is counted. *)
LEMMA OwingPaid ==
  ASSUME GoldenTypeOK, process_message, generated \in Nat, generated <= CounterMax,
         scenario' = scenario, generated' = generated,
         NEW n \in Nat, NEW M, Marks(Head(pending)) = M, Owing(M, n + 1)
  PROVE  Owing(M, n)'
<1> SUFFICES ASSUME NEW c \in Tallied
             PROVE  counters'[c] + (IF c \in M THEN n ELSE 0) = Promised(c)'
  BY DEF Owing
<1>1. counters'[c] = Lesser(CounterMax, counters[c] + One(c \in M))
  BY MessageTally
<1>2. Promised(c)' = Promised(c)
  BY DEF Promised
<1>3. Promised(c) \in Nat /\ Promised(c) <= CounterMax
  BY PromisedIs, GoldenAssumption
<1>4. counters[c] \in Nat
  BY TalliedNames DEF GoldenTypeOK
<1>5. counters[c] + (IF c \in M THEN n + 1 ELSE 0) = Promised(c)
  BY DEF Owing
<1> QED
  BY <1>1, <1>2, <1>3, <1>4, <1>5, GoldenAssumption DEF Lesser, One

LEMMA GapPaid ==
  ASSUME GoldenTypeOK, process_message, generated \in Nat, generated <= CounterMax,
         scenario' = scenario, generated' = generated,
         NEW n \in {0, 1}, 2 * n <= Gap(Head(pending)), Gap(Head(pending)) <= 5 * n,
         GapOwing(n)
  PROVE  GapOwing(0)'
<1> DEFINE gap == Gap(Head(pending))
<1> SUFFICES ASSUME scenario # MALFORMED
             PROVE  /\ 2 * (Jumps' - 0) <= counters'["cnt_seq_gap"]
                    /\ counters'["cnt_seq_gap"] <= 5 * (Jumps' - 0)
  BY DEF GapOwing
<1>1. counters'["cnt_seq_gap"] = Lesser(CounterMax, counters["cnt_seq_gap"] + gap)
  BY MessageTally
<1>2. Jumps' = Jumps
  BY DEF Jumps
<1>3. Jumps \in Nat /\ 5 * Jumps <= CounterMax
  BY JumpsAre, GoldenAssumption
<1>4. counters["cnt_seq_gap"] \in Nat /\ gap \in Nat
  BY TalliedNames, InHand DEF GoldenTypeOK, process_message
<1>5. /\ 2 * (Jumps - n) <= counters["cnt_seq_gap"]
      /\ counters["cnt_seq_gap"] <= 5 * (Jumps - n)
  BY DEF GapOwing
<1> HIDE DEF gap
<1>6. 2 * n <= gap /\ gap <= 5 * n
  BY DEF gap
<1> QED
  BY <1>1, <1>2, <1>3, <1>4, <1>5, <1>6, GoldenAssumption DEF Lesser

LEMMA FeedWatched ==
  ASSUME FitInv, scenario \notin Traffic, cfg \in Setup[scenario], NEW symbol \in FeedSymbols
  PROVE  symbol \in watched_symbols
<1>1. PICK i \in 1 .. Lesser(cfg.num_symbols, Len(cfg.symbols)) :
        cfg.symbol_en[i] /\ cfg.symbols[i] = symbol
  BY ScenarioAssumption DEF FitInv
<1> QED
  BY <1>1 DEF watched_symbols

LEMMA PlainMarks ==
  ASSUME FitInv, scenario \notin Traffic, cfg \in Setup[scenario], NEW m, Plain(m)
  PROVE  Marks(m) = IF IsDup(m) THEN {"cnt_msgs_accepted", "cnt_seq_dup"}
                    ELSE {"cnt_msgs_accepted"}
<1>1. m.symbol_id \in watched_symbols
  BY FeedWatched DEF Plain
<1>2. m.msg_type \in VALID_MSG_TYPES /\ ~m.reserved
  BY DEF Plain, VALID_MSG_TYPES
<1> QED
  BY <1>1, <1>2 DEF Marks, Tallied

(* What is kept while a message is processed. *)
OnlyTaken ==
  /\ FitInv /\ GoldenTypeOK /\ scenario \notin Traffic /\ cfg \in Setup[scenario]
  /\ process_message /\ UNCHANGED <<scenario, generated, seq>>

LEMMA TakenFacts ==
  ASSUME OnlyTaken
  PROVE  /\ generated \in Nat /\ generated <= CounterMax /\ seq \in Nat \ {0}
         /\ scenario' = scenario /\ generated' = generated /\ seq' = seq
         /\ pending # <<>> /\ pending' = Tail(pending) /\ pending \in Seq(Message)
         /\ Head(pending) = pending[1] /\ Head(pending) \in Message
         /\ expected_seq' = IF IsDup(Head(pending)) THEN expected_seq
                            ELSE Head(pending).seq_num + 1
         /\ expected_seq \in Nat \cup {None}
<1>1. /\ generated \in Nat /\ generated <= CounterMax /\ seq \in Nat \ {0}
      /\ scenario' = scenario /\ generated' = generated /\ seq' = seq
  BY GeneratedFits DEF OnlyTaken
<1>2. /\ pending # <<>> /\ pending' = Tail(pending) /\ pending \in Seq(Message)
      /\ expected_seq \in Nat \cup {None}
  BY DEF OnlyTaken, process_message, GoldenTypeOK
<1>3. Head(pending) = pending[1] /\ Head(pending) \in Message
  BY <1>2, InHand DEF OnlyTaken
<1>4. expected_seq' = IF IsDup(Head(pending)) THEN expected_seq
                      ELSE Head(pending).seq_num + 1
  BY TradeOrNot DEF OnlyTaken, Arrive, TrackSequence
<1> QED
  BY <1>1, <1>2, <1>3, <1>4

LEMMA RunStep ==
  ASSUME OnlyTaken, Run(pending), NEW ms, pending' = ms PROVE Run(ms)'
<1> DEFINE m == Head(pending)
<1>1. /\ generated \in Nat /\ generated <= CounterMax /\ seq \in Nat \ {0}
      /\ scenario' = scenario /\ generated' = generated /\ seq' = seq
      /\ pending # <<>> /\ pending' = Tail(pending) /\ pending \in Seq(Message)
      /\ m = pending[1] /\ m \in Message
      /\ expected_seq' = IF IsDup(m) THEN expected_seq ELSE m.seq_num + 1
  BY TakenFacts
<1>2. PICK n \in Nat : Len(pending) = n + 1
  <2>1. Len(pending) \in Nat /\ Len(pending) # 0
    BY <1>1
  <2>2. Len(pending) - 1 \in Nat /\ Len(pending) = (Len(pending) - 1) + 1
    BY <2>1
  <2> QED
    BY <2>2
<1>3. /\ scenario # MALFORMED /\ n + 1 <= generated
      /\ \A i \in 1 .. n + 1 : Plain(pending[i]) /\ pending[i].seq_num = seq - (n + 1) + i - 1
      /\ Expects(seq - (n + 1), generated - (n + 1))
      /\ Owing({"cnt_msgs_accepted"}, n + 1) /\ GapOwing(0)
  BY <1>2 DEF Run
<1>4. /\ Len(pending') = n
      /\ \A i \in 1 .. n : i + 1 \in 1 .. n + 1 /\ pending'[i] = pending[i + 1]
  BY <1>1, <1>2
<1>5. Plain(m) /\ m.seq_num = seq - (n + 1) /\ m.seq_num \in Nat
  <2>1. 1 \in 1 .. n + 1
    OBVIOUS
  <2>2. Plain(m) /\ m.seq_num = seq - (n + 1) + 1 - 1
    BY <1>1, <1>3, <2>1
  <2>3. m.seq_num \in Nat
    BY <1>1 DEF Message
  <2> QED
    BY <1>1, <2>2, <2>3
<1> HIDE DEF m
<1>6. Expected(m) = m.seq_num
  BY <1>1, <1>3, <1>5 DEF Expects, Expected
<1>7. ~IsDup(m) /\ Gap(m) = 0
  BY <1>5, <1>6 DEF IsDup, Gap
<1>8. Marks(m) = {"cnt_msgs_accepted"}
  BY <1>5, <1>7, PlainMarks DEF OnlyTaken
<1>9. Owing({"cnt_msgs_accepted"}, n)'
  BY <1>1, <1>3, <1>8, OwingPaid DEF OnlyTaken, m
<1>10. GapOwing(0)'
  <2>1. 2 * 0 <= Gap(m) /\ Gap(m) <= 5 * 0
    BY <1>7
  <2> QED
    BY <1>1, <1>3, <2>1, GapPaid DEF OnlyTaken, m
<1>11. expected_seq' = seq - n
  BY <1>1, <1>5, <1>7
<1>12. Expects(seq - n, generated - n)'
  <2>1. generated - n # 0
    BY <1>1, <1>3
  <2> QED
    BY <1>1, <1>11, <2>1 DEF Expects
<1>13. \A i \in 1 .. n : Plain(pending'[i]) /\ pending'[i].seq_num = seq - n + i - 1
  <2> TAKE i \in 1 .. n
  <2>1. pending'[i] = pending[i + 1] /\ i + 1 \in 1 .. n + 1
    BY <1>4
  <2>2. Plain(pending[i + 1])
    BY <1>3, <2>1
  <2>3. Plain(pending'[i])
    BY <2>1, <2>2, Zenon
  <2>4. pending'[i].seq_num = seq - (n + 1) + (i + 1) - 1
    BY <1>3, <2>1
  <2>5. seq - (n + 1) + (i + 1) - 1 = seq - n + i - 1
    BY <1>1
  <2> QED
    BY <2>3, <2>4, <2>5, Zenon
<1> QED
  <2>1. Len(ms) = n /\ \A i \in 1 .. n : Plain(ms[i]) /\ ms[i].seq_num = seq - n + i - 1
    BY <1>4, <1>13
  <2>2. ASSUME NEW i \in 1 .. n PROVE Plain(ms[i])' /\ ms[i].seq_num = seq' - n + i - 1
    <3>1. Plain(ms[i])'
      BY <2>1 DEF Plain
    <3> QED
      BY <1>1, <2>1, <3>1
  <2>3. Expects(seq - Len(ms), generated - Len(ms))' /\ Owing({"cnt_msgs_accepted"}, Len(ms))'
    BY <1>9, <1>12, <2>1
  <2>4. Len(ms) \in Nat /\ Len(ms) <= generated'
    BY <1>1, <1>3, <2>1
  <2>5. \A i \in 1 .. Len(ms) : Plain(ms[i])' /\ ms[i].seq_num = seq' - Len(ms) + i - 1
    BY <2>1, <2>2
  <2> QED
    BY <1>1, <1>3, <1>10, <2>3, <2>4, <2>5 DEF Run

LEMMA SingleStep ==
  ASSUME OnlyTaken, Len(pending) = 1, Single(pending[1])
  PROVE  pending' = <<>> /\ (Run(<<>>)' \/ Settled')
<1> DEFINE m == Head(pending)
<1>1. /\ generated \in Nat /\ generated <= CounterMax /\ seq \in Nat \ {0}
      /\ scenario' = scenario /\ generated' = generated /\ seq' = seq
      /\ pending # <<>> /\ pending' = Tail(pending) /\ pending \in Seq(Message)
      /\ m = pending[1] /\ m \in Message
      /\ expected_seq' = IF IsDup(m) THEN expected_seq ELSE m.seq_num + 1
      /\ expected_seq \in Nat \cup {None}
  BY TakenFacts
<1>2. pending' = <<>>
  BY <1>1
<1>3. Single(m) /\ m.seq_num \in Nat
  BY <1>1 DEF Message
<1> HIDE DEF m
<1>4. None \notin Int /\ GAPS # MALFORMED
  BY GoldenAssumption DEF GAPS, MALFORMED
<1>5. ASSUME NEW M, Marks(m) = M, Owing(M, 1) PROVE Owing(M, 0)'
  <2>1. Owing(M, 0 + 1)
    BY <1>5
  <2> QED
    BY <1>1, <1>5, <2>1, OwingPaid DEF OnlyTaken, m
<1>6. ASSUME NEW n \in {0, 1}, 2 * n <= Gap(m), Gap(m) <= 5 * n, GapOwing(n)
      PROVE  GapOwing(0)'
  BY <1>1, <1>6, GapPaid DEF OnlyTaken, m
<1>7. ASSUME scenario # MALFORMED, NEW M, Owing(M, 0)', GapOwing(0)',
             generated > 1, expected_seq' = seq
      PROVE  Run(<<>>)'
  <2>1. Len(<<>>) = 0
    OBVIOUS
  <2>2. Owing({"cnt_msgs_accepted"}, 0)'
    BY <1>7 DEF Owing
  <2>3. Expects(seq - 0, generated - 0)'
    BY <1>1, <1>7 DEF Expects
  <2> QED
    BY <1>1, <1>7, <2>1, <2>2, <2>3 DEF Run
<1>8. CASE Jumped(m)
  <2>1. Expected(m) = expected_seq /\ expected_seq \in Nat
    BY <1>4, <1>8 DEF Jumped, Expected
  <2>2. ~IsDup(m) /\ Gap(m) \in 2 .. 5
    BY <1>3, <1>8, <2>1 DEF Jumped, IsDup, Gap
  <2>3. Marks(m) = {"cnt_msgs_accepted"}
    BY <1>8, <2>2, PlainMarks DEF OnlyTaken, Jumped
  <2>4. Owing({"cnt_msgs_accepted"}, 0)'
    BY <1>5, <1>8, <2>3 DEF Jumped
  <2>5. GapOwing(0)'
    BY <1>6, <1>8, <2>2 DEF Jumped
  <2>6. expected_seq' = seq /\ generated > 1
    BY <1>1, <1>8, <2>2 DEF Jumped
  <2> QED
    BY <1>2, <1>4, <1>7, <1>8, <2>4, <2>5, <2>6 DEF Jumped
<1>9. CASE Repeated(m)
  <2>1. Expected(m) = seq /\ m.seq_num < seq
    BY <1>1, <1>4, <1>9 DEF Repeated, Expected
  <2>2. IsDup(m) /\ Gap(m) = 0
    BY <1>1, <1>3, <2>1 DEF IsDup, Gap
  <2>3. Marks(m) = {"cnt_msgs_accepted", "cnt_seq_dup"}
    BY <1>9, <2>2, PlainMarks DEF OnlyTaken, Repeated
  <2>4. Owing({"cnt_msgs_accepted", "cnt_seq_dup"}, 0)'
    BY <1>5, <1>9, <2>3 DEF Repeated
  <2>5. GapOwing(0)'
    BY <1>6, <1>9, <2>2 DEF Repeated
  <2>6. expected_seq' = seq /\ generated > 1
    BY <1>1, <1>9, <2>2 DEF Repeated
  <2> QED
    BY <1>2, <1>4, <1>7, <1>9, <2>4, <2>5, <2>6 DEF Repeated
<1>10. CASE Damaged(m)
  <2>1. /\ scenario = MALFORMED /\ seq = m.seq_num + 1 /\ Behind(m.seq_num)
        /\ \/ m.msg_type \notin VALID_MSG_TYPES /\ Owing({"err_msg_type"}, 1)
           \/ m.msg_type \in VALID_MSG_TYPES /\ m.reserved /\ Owing({"err_flags"}, 1)
    BY <1>10 DEF Damaged
  <2>2. ~IsDup(m)
    BY <1>1, <1>3, <1>4, <2>1 DEF Behind, IsDup, Expected
  <2>3. Behind(seq)'
    BY <1>1, <1>3, <2>1, <2>2 DEF Behind
  <2>4. CASE m.msg_type \notin VALID_MSG_TYPES /\ Owing({"err_msg_type"}, 1)
    <3>1. Marks(m) = {"err_msg_type"}
      BY <2>2, <2>4 DEF Marks, Tallied
    <3>2. Owing({"err_msg_type"}, 0)'
      BY <1>5, <2>4, <3>1
    <3>3. Owing({}, 0)'
      BY <3>2 DEF Owing
    <3> QED
      BY <1>1, <1>2, <2>1, <2>3, <3>3 DEF Settled
  <2>5. CASE m.msg_type \in VALID_MSG_TYPES /\ m.reserved /\ Owing({"err_flags"}, 1)
    <3>1. Marks(m) = {"err_flags"}
      BY <2>2, <2>5 DEF Marks, Tallied
    <3>2. Owing({"err_flags"}, 0)'
      BY <1>5, <2>5, <3>1
    <3>3. Owing({}, 0)'
      BY <3>2 DEF Owing
    <3> QED
      BY <1>1, <1>2, <2>1, <2>3, <3>3 DEF Settled
  <2> QED
    BY <2>1, <2>4, <2>5
<1> QED
  BY <1>3, <1>8, <1>9, <1>10 DEF Single

LEMMA CountedScenario ==
  ASSUME FitInv, GoldenTypeOK, cfg \in Setup[scenario], ScenarioInv, scenario \notin Traffic,
         scenario' = scenario, ProcessNext
  PROVE  ScenarioInv'
<1>1. /\ process_message /\ pending # <<>>
      /\ UNCHANGED <<scenario, generated, seq, yielded>>
  BY DEF ProcessNext, process_message, genVars, stateVars
<1>2. OnlyTaken
  BY <1>1 DEF OnlyTaken
<1>3. yielded = NoFrame /\ InModel /\ (generated > 0 => seq > 1)
  BY <1>1 DEF ScenarioInv
<1>4. OnWay(pending)
  BY <1>3 DEF InModel
<1>5. PICK left : pending' = left
  OBVIOUS
<1>6. OnWay(left)' \/ (left = <<>> /\ Settled')
  <2>1. CASE Run(pending)
    <3>1. Run(left)'
      BY <1>2, <1>5, <2>1, RunStep
    <3> QED
      BY <3>1 DEF OnWay
  <2>2. CASE Len(pending) = 1 /\ Single(pending[1])
    <3>1. left = <<>> /\ (Run(<<>>)' \/ Settled')
      BY <1>2, <1>5, <2>2, SingleStep
    <3>2. CASE Run(<<>>)'
      <4>1. OnWay(<<>>)'
        BY <3>2 DEF OnWay
      <4> QED
        BY <3>1, <4>1
    <3> QED
      BY <3>1, <3>2
  <2> QED
    BY <1>4, <2>1, <2>2 DEF OnWay
<1>7. InModel' \/ (pending' = <<>> /\ Settled')
  BY <1>5, <1>6 DEF InModel
<1>8. yielded' = NoFrame /\ (generated' > 0 => seq' > 1)
  BY <1>1, <1>3
<1> QED
  BY <1>7, <1>8 DEF ScenarioInv

(* A frame that is taken in is counted once; a cut one a second time. *)
LEMMA FrameTallied ==
  ASSUME GoldenTypeOK, NEW payload, NEW cycle, process_frame(payload, cycle, TRUE)
  PROVE  /\ \A c \in Tallied :
              counters'[c] =
                Lesser(CounterMax,
                       counters[c] + One(c = "err_frame_len" /\ BadLength(payload)))
         /\ counters'["cnt_seq_gap"] = counters["cnt_seq_gap"]
         /\ pending' = IF BadLength(payload) THEN <<>> ELSE payload.messages
         /\ expected_seq' = expected_seq
<1> DEFINE bad == IF BadLength(payload) THEN {"err_frame_len"} ELSE {}
           hits == {"cnt_frames_rx"} \cup bad
<1>1. /\ Increment(hits, {}, 0) /\ expected_seq' = expected_seq
      /\ pending' = IF bad = {} THEN payload.messages ELSE <<>>
  BY DEF process_frame, feedVars
<1>2. \A c \in Tallied : c \in hits <=> c = "err_frame_len" /\ BadLength(payload)
  BY DEF Tallied
<1>3. "cnt_seq_gap" \notin hits
  OBVIOUS
<1>4. bad = {} <=> ~BadLength(payload)
  OBVIOUS
<1> HIDE DEF hits, bad
<1>5. \A c \in Counter :
        counters'[c] =
          Lesser(CounterMax, counters[c] + One(c \in hits) + One(c \in {})
                               + (IF c = "cnt_seq_gap" THEN 0 ELSE 0))
  BY <1>1, IncrementType DEF GoldenTypeOK
<1>6. \A c \in Counter : counters[c] \in Nat /\ counters[c] <= CounterMax
  BY GoldenAssumption DEF GoldenTypeOK
<1>7. \A c \in Tallied :
        counters'[c] =
          Lesser(CounterMax, counters[c] + One(c = "err_frame_len" /\ BadLength(payload)))
  <2> SUFFICES ASSUME NEW c \in Tallied
               PROVE  counters'[c] =
                        Lesser(CounterMax,
                               counters[c] + One(c = "err_frame_len" /\ BadLength(payload)))
    OBVIOUS
  <2>1. c \in Counter
    BY TalliedNames
  <2>2. counters'[c] = Lesser(CounterMax, counters[c] + One(c \in hits) + 0 + 0)
    BY <1>5, <2>1 DEF One
  <2>3. One(c \in hits) = One(c = "err_frame_len" /\ BadLength(payload))
    BY <1>2 DEF One
  <2>4. One(c \in hits) \in Nat
    BY DEF One
  <2> QED
    BY <1>6, <2>1, <2>2, <2>3, <2>4
<1>8. counters'["cnt_seq_gap"] = counters["cnt_seq_gap"]
  <2>1. "cnt_seq_gap" \in Counter
    BY TalliedNames
  <2>2. counters'["cnt_seq_gap"] = Lesser(CounterMax, counters["cnt_seq_gap"] + 0 + 0 + 0)
    BY <1>3, <1>5, <2>1 DEF One
  <2> QED
    BY <1>6, <2>1, <2>2, GoldenAssumption DEF Lesser
<1> QED
  BY <1>1, <1>4, <1>7, <1>8

(* Nothing is counted: what is on its way stays there. *)
Standing ==
  /\ UNCHANGED <<scenario, generated, seq, expected_seq>>
  /\ \A c \in Tallied \cup {"cnt_seq_gap"} : counters'[c] = counters[c]

LEMMA StillOnWay ==
  ASSUME Standing
  PROVE  /\ \A ms : OnWay(ms) => OnWay(ms)'
         /\ Settled => Settled'
         /\ Cut => Cut'
<1>1. /\ scenario' = scenario /\ generated' = generated /\ seq' = seq
      /\ expected_seq' = expected_seq
      /\ \A c \in Tallied \cup {"cnt_seq_gap"} : counters'[c] = counters[c]
  BY DEF Standing
<1>2. \A M, n : Owing(M, n) => Owing(M, n)'
  BY <1>1 DEF Owing, Promised
<1>3. \A n : GapOwing(n) => GapOwing(n)'
  BY <1>1 DEF GapOwing, Jumps
<1>4. \A ms : Run(ms) => Run(ms)'
  BY <1>1, <1>2, <1>3 DEF Run, Plain, Expects
<1>5. \A m : Jumped(m) => Jumped(m)'
  BY <1>1, <1>2, <1>3 DEF Jumped, Plain
<1>6. \A m : Repeated(m) => Repeated(m)'
  BY <1>1, <1>2, <1>3 DEF Repeated, Plain
<1>7. \A m : Damaged(m) => Damaged(m)'
  BY <1>1, <1>2 DEF Damaged, Behind
<1>8. \A ms : OnWay(ms) => OnWay(ms)'
  BY <1>4, <1>5, <1>6, <1>7 DEF OnWay, Single
<1>9. (Settled => Settled') /\ (Cut => Cut')
  BY <1>1, <1>2 DEF Settled, Cut, Behind
<1> QED
  BY <1>8, <1>9

LEMMA StillAccounted ==
  ASSUME ScenarioInv, Standing, UNCHANGED <<pending, yielded>>
  PROVE  ScenarioInv'
<1> SUFFICES ASSUME scenario \notin Traffic
             PROVE  /\ generated' > 0 => seq' > 1
                    /\ yielded' = NoFrame => InModel' \/ (pending' = <<>> /\ Settled')
                    /\ yielded' # NoFrame => pending' = <<>> /\ Carried'
  BY DEF ScenarioInv, Standing
<1>1. /\ \A ms : OnWay(ms) => OnWay(ms)'
      /\ Settled => Settled'
      /\ Cut => Cut'
  BY StillOnWay
<1>2. InModel => InModel'
  BY <1>1 DEF InModel
<1>3. Carried => Carried'
  BY <1>1 DEF Carried
<1> QED
  BY <1>1, <1>2, <1>3 DEF ScenarioInv, Standing

LEMMA FedScenario ==
  ASSUME FitInv, GoldenTypeOK, ScenarioInv, scenario \notin Traffic, Feed
  PROVE  ScenarioInv'
<1>1. /\ yielded # NoFrame /\ yielded' = NoFrame
      /\ UNCHANGED <<scenario, generated, seq>>
  BY DEF Feed, Take, stateVars
<1>2. PICK cycle : process_frame(yielded.payload, cycle, TRUE)
  BY DEF Feed
<1>3. PICK payload : payload = yielded.payload
  OBVIOUS
<1>4. /\ \A c \in Tallied :
           counters'[c] =
             Lesser(CounterMax,
                    counters[c] + One(c = "err_frame_len" /\ BadLength(payload)))
      /\ counters'["cnt_seq_gap"] = counters["cnt_seq_gap"]
      /\ pending' = IF BadLength(payload) THEN <<>> ELSE payload.messages
      /\ expected_seq' = expected_seq
  BY <1>2, <1>3, FrameTallied
<1>5. \A c \in Tallied : counters[c] \in Nat /\ counters[c] <= CounterMax
  BY TalliedNames, GoldenAssumption DEF GoldenTypeOK
<1>6. Carried /\ (generated > 0 => seq > 1)
  BY <1>1 DEF ScenarioInv
<1>7. ASSUME NEW ms, payload = [messages |-> ms, ragged |-> FALSE],
             OnWay(ms), Len(ms) \in Nat \ {0}, Len(ms) <= MaxMessages
      PROVE  InModel'
  <2>1. ~BadLength(payload) /\ payload.messages = ms
    <3>1. Len(ms) \in 1 .. MaxMessages
      BY <1>7, GoldenAssumption
    <3> QED
      BY <1>7, <3>1 DEF BadLength
  <2>2. \A c \in Tallied : counters'[c] = Lesser(CounterMax, counters[c] + 0)
    BY <1>4, <2>1 DEF One
  <2>3. \A c \in Tallied : counters'[c] = counters[c]
    BY <1>5, <2>2, GoldenAssumption DEF Lesser
  <2>4. Standing
    BY <1>1, <1>4, <2>3 DEF Standing
  <2>5. pending' = ms
    BY <1>4, <2>1
  <2> QED
    BY <1>7, <2>4, <2>5, StillOnWay DEF InModel
<1>8. ASSUME payload.ragged = TRUE, Cut PROVE pending' = <<>> /\ Settled'
  <2>1. BadLength(payload) /\ pending' = <<>>
    BY <1>4, <1>8 DEF BadLength
  <2>2. scenario = MALFORMED /\ Behind(seq) /\ Owing({"err_frame_len"}, 1)
    BY <1>8 DEF Cut
  <2>3. generated \in Nat /\ generated <= CounterMax
    BY GeneratedFits
  <2>4. ASSUME NEW c \in Tallied PROVE counters'[c] = Promised(c)
    <3>1. counters[c] + (IF c = "err_frame_len" THEN 1 ELSE 0) = Promised(c)
      BY <2>2 DEF Owing
    <3>2. Promised(c) \in Nat /\ Promised(c) <= CounterMax
      BY <2>3, PromisedIs, GoldenAssumption
    <3>3. counters'[c] = Lesser(CounterMax, counters[c] + (IF c = "err_frame_len" THEN 1 ELSE 0))
      BY <1>4, <2>1 DEF One
    <3> QED
      BY <3>1, <3>2, <3>3, GoldenAssumption DEF Lesser
  <2>5. \A c \in Tallied : Promised(c)' = Promised(c) /\ Promised(c) \in Nat
    BY <1>1, <2>3, PromisedIs DEF Promised
  <2>6. Owing({}, 0)'
    <3>1. \A c \in Tallied : counters'[c] + 0 = Promised(c)'
      BY <2>4, <2>5
    <3> QED
      BY <3>1 DEF Owing
  <2>7. Behind(seq)'
    BY <1>1, <1>4, <2>2 DEF Behind
  <2> QED
    BY <1>1, <2>1, <2>2, <2>6, <2>7 DEF Settled
<1>9. InModel' \/ (pending' = <<>> /\ Settled')
  <2>1. CASE \E ms : /\ yielded.payload = [messages |-> ms, ragged |-> FALSE]
                     /\ OnWay(ms) /\ Len(ms) \in Nat \ {0} /\ Len(ms) <= MaxMessages
    BY <1>3, <1>7, <2>1
  <2>2. CASE yielded.payload.ragged = TRUE /\ Cut
    BY <1>3, <1>8, <2>2
  <2> QED
    BY <1>6, <2>1, <2>2 DEF Carried
<1> QED
  BY <1>1, <1>6, <1>9 DEF ScenarioInv

(* Between two frames everything that was promised has been counted. *)
Level ==
  /\ Owing({}, 0)
  /\ scenario # MALFORMED => Expects(seq, generated) /\ GapOwing(0)
  /\ scenario = MALFORMED => Behind(seq)
  /\ generated > 0 => seq > 1

LEMMA LevelBetween ==
  ASSUME FitInv, ScenarioInv, scenario \notin Traffic, pending = <<>>, yielded = NoFrame
  PROVE  Level
<1>1. generated \in Nat /\ seq \in Nat \ {0}
  BY GeneratedFits
<1>2. Run(<<>>) \/ Settled
  <2>1. Len(<<>>) = 0
    OBVIOUS
  <2> QED
    BY <2>1 DEF ScenarioInv, InModel, OnWay
<1>3. generated > 0 => seq > 1
  BY DEF ScenarioInv
<1>4. CASE Run(<<>>)
  <2>1. Len(<<>>) = 0 /\ seq - 0 = seq /\ generated - 0 = generated
    BY <1>1
  <2>2. /\ scenario # MALFORMED /\ Expects(seq, generated)
        /\ Owing({"cnt_msgs_accepted"}, 0) /\ GapOwing(0)
    BY <1>4, <2>1 DEF Run
  <2>3. Owing({}, 0)
    BY <2>2 DEF Owing
  <2> QED
    BY <1>3, <2>2, <2>3 DEF Level
<1>5. CASE Settled
  BY <1>3, <1>5 DEF Settled, Level
<1> QED
  BY <1>2, <1>4, <1>5

(* The generator's step, n messages further. *)
Begins(n) ==
  /\ FitInv /\ GoldenTypeOK /\ scenario \notin Traffic /\ Level
  /\ n \in Nat \ {0} /\ generated' = generated + n
  /\ UNCHANGED <<scenario, counters, expected_seq>>

LEMMA NextOwing ==
  ASSUME NEW n, Begins(n)
  PROVE  /\ scenario # MALFORMED /\ (scenario = GAPS => n = 1 /\ generated % 8 # 4)
              => Owing({"cnt_msgs_accepted"}, n)'
         /\ scenario = GAPS /\ n = 1 /\ generated % 8 = 4
              => Owing({"cnt_msgs_accepted", "cnt_seq_dup"}, 1)'
         /\ scenario = MALFORMED /\ n = 1 =>
              /\ generated % 3 = 0 => Owing({"err_frame_len"}, 1)'
              /\ generated % 3 = 1 => Owing({"err_msg_type"}, 1)'
              /\ generated % 3 # 0 /\ generated % 3 # 1 => Owing({"err_flags"}, 1)'
<1>1. /\ generated \in Nat /\ n \in Nat \ {0} /\ generated' = generated + n
      /\ scenario' = scenario /\ counters' = counters
  BY GeneratedFits DEF Begins
<1>2. \A c \in Tallied : counters[c] = Promised(c) /\ Promised(c) \in Nat
  <2>1. \A c \in Tallied : counters[c] + 0 = Promised(c)
    BY DEF Begins, Level, Owing
  <2>2. \A c \in Tallied : counters[c] \in Nat
    BY TalliedNames DEF Begins, GoldenTypeOK
  <2> QED
    BY <1>1, <2>1, <2>2, PromisedIs
<1>3. MALFORMED # GAPS
  BY DEF MALFORMED, GAPS
<1>4. ASSUME NEW M, NEW k,
             \A c \in Tallied : Promised(c) + (IF c \in M THEN k ELSE 0) = Promised(c)'
      PROVE  Owing(M, k)'
  BY <1>1, <1>2, <1>4 DEF Owing
<1>5. \A c \in Tallied : c \in {"err_frame_len", "err_msg_type", "err_flags", "cnt_seq_dup",
                                "cnt_msgs_accepted"}
  BY DEF Tallied
<1>6. ASSUME scenario # MALFORMED, scenario = GAPS => n = 1 /\ generated % 8 # 4
      PROVE  Owing({"cnt_msgs_accepted"}, n)'
  <2>1. scenario = GAPS => (generated + 3) \div 8 = (generated + n + 3) \div 8
    BY <1>1, <1>6
  <2> QED
    BY <1>1, <1>4, <1>5, <1>6, <2>1 DEF Promised
<1>7. ASSUME scenario = GAPS, n = 1, generated % 8 = 4
      PROVE  Owing({"cnt_msgs_accepted", "cnt_seq_dup"}, 1)'
  <2>1. (generated + 3) \div 8 + 1 = (generated + 1 + 3) \div 8
    BY <1>1, <1>7
  <2> QED
    BY <1>1, <1>3, <1>4, <1>5, <1>7, <2>1 DEF Promised
<1>8. ASSUME scenario = MALFORMED, n = 1, generated % 3 = 0
      PROVE  Owing({"err_frame_len"}, 1)'
  <2>1. /\ (generated + 1 + 2) \div 3 = (generated + 2) \div 3 + 1
        /\ (generated + 1 + 1) \div 3 = (generated + 1) \div 3
        /\ (generated + 1) \div 3 = generated \div 3
    BY <1>1, <1>8
  <2> QED
    BY <1>1, <1>4, <1>5, <1>8, <2>1 DEF Promised
<1>9. ASSUME scenario = MALFORMED, n = 1, generated % 3 = 1
      PROVE  Owing({"err_msg_type"}, 1)'
  <2>1. /\ (generated + 1 + 2) \div 3 = (generated + 2) \div 3
        /\ (generated + 1 + 1) \div 3 = (generated + 1) \div 3 + 1
        /\ (generated + 1) \div 3 = generated \div 3
    BY <1>1, <1>9
  <2> QED
    BY <1>1, <1>4, <1>5, <1>9, <2>1 DEF Promised
<1>10. ASSUME scenario = MALFORMED, n = 1, generated % 3 # 0, generated % 3 # 1
       PROVE  Owing({"err_flags"}, 1)'
  <2>1. /\ (generated + 1 + 2) \div 3 = (generated + 2) \div 3
        /\ (generated + 1 + 1) \div 3 = (generated + 1) \div 3
        /\ (generated + 1) \div 3 = generated \div 3 + 1
    BY <1>1, <1>10
  <2> QED
    BY <1>1, <1>4, <1>5, <1>10, <2>1 DEF Promised
<1> QED
  BY <1>6, <1>7, <1>8, <1>9, <1>10

LEMMA NextGap ==
  ASSUME NEW n, Begins(n), scenario # MALFORMED, scenario = GAPS => n = 1
  PROVE  IF scenario = GAPS /\ generated # 0 /\ generated % 8 = 0
         THEN GapOwing(1)' ELSE GapOwing(0)'
<1>1. /\ generated \in Nat /\ n \in Nat \ {0} /\ generated' = generated + n
      /\ scenario' = scenario /\ counters' = counters
  BY GeneratedFits DEF Begins
<1>2. /\ 2 * (Jumps - 0) <= counters["cnt_seq_gap"]
      /\ counters["cnt_seq_gap"] <= 5 * (Jumps - 0)
  BY DEF Begins, Level, GapOwing
<1>3. Jumps \in Nat
  BY <1>1, JumpsAre
<1>4. CASE scenario = GAPS /\ generated # 0 /\ generated % 8 = 0
  <2>1. (generated + 1 - 1) \div 8 = (generated - 1) \div 8 + 1
    BY <1>1, <1>4
  <2>2. Jumps' - 1 = Jumps - 0
    BY <1>1, <1>3, <1>4, <2>1 DEF Jumps
  <2> QED
    BY <1>1, <1>2, <1>4, <2>2 DEF GapOwing
<1>5. CASE ~(scenario = GAPS /\ generated # 0 /\ generated % 8 = 0)
  <2>1. scenario = GAPS /\ generated # 0 => (generated + 1 - 1) \div 8 = (generated - 1) \div 8
    BY <1>1, <1>5
  <2>2. scenario = GAPS /\ generated = 0 => (generated + 1 - 1) \div 8 = 0
    BY <1>1
  <2>3. Jumps' - 0 = Jumps - 0
    BY <1>1, <1>3, <1>5, <2>1, <2>2 DEF Jumps
  <2> QED
    BY <1>1, <1>2, <1>5, <2>3 DEF GapOwing
<1> QED
  BY <1>4, <1>5

(* Plain messages, numbered on. *)
LEMMA RunMade ==
  ASSUME NEW n, Begins(n), NEW ms, Len(ms) = n, seq' = seq + n,
         \A i \in 1 .. n : Plain(ms[i]) /\ ms[i].seq_num = seq + i - 1,
         scenario # MALFORMED, scenario = GAPS => n = 1 /\ (generated = 0 \/ generated % 4 # 0)
  PROVE  Run(ms)' /\ seq' > 1
<1>1. /\ generated \in Nat /\ n \in Nat \ {0} /\ generated' = generated + n
      /\ scenario' = scenario /\ counters' = counters /\ expected_seq' = expected_seq
      /\ seq \in Nat \ {0}
  BY GeneratedFits DEF Begins
<1>2. Owing({"cnt_msgs_accepted"}, n)'
  <2>1. scenario = GAPS => n = 1 /\ generated % 8 # 4
    BY <1>1
  <2> QED
    BY <2>1, NextOwing
<1>3. GapOwing(0)'
  <2>1. ~(scenario = GAPS /\ generated # 0 /\ generated % 8 = 0)
    BY <1>1
  <2> QED
    BY <2>1, NextGap
<1>4. Expects(seq - n, generated - n)'
  <2>1. expected_seq = IF generated = 0 THEN None ELSE seq
    BY DEF Begins, Level, Expects
  <2>2. seq' - n = seq /\ generated' - n = generated
    BY <1>1
  <2> QED
    BY <1>1, <2>1, <2>2 DEF Expects
<1>5. ASSUME NEW i \in 1 .. n PROVE Plain(ms[i])' /\ ms[i].seq_num = seq' - n + i - 1
  <2>1. Plain(ms[i])'
    BY DEF Plain
  <2>2. seq + i - 1 = seq' - n + i - 1
    BY <1>1
  <2> QED
    BY <2>1, <2>2
<1>6. \A i \in 1 .. Len(ms) : Plain(ms[i])' /\ ms[i].seq_num = seq' - Len(ms) + i - 1
  BY <1>5
<1>7. /\ Expects(seq - Len(ms), generated - Len(ms))'
      /\ Owing({"cnt_msgs_accepted"}, Len(ms))'
  BY <1>2, <1>4
<1>8. Len(ms) \in Nat /\ Len(ms) <= generated' /\ seq' > 1
  BY <1>1
<1> QED
  BY <1>1, <1>3, <1>6, <1>7, <1>8 DEF Run

Starts ==
  /\ FitInv /\ GoldenTypeOK /\ scenario \notin Traffic /\ Level
  /\ UNCHANGED <<counters, expected_seq>>

Dispatched == Carried' /\ seq' > 1

LEMMA StartsBegin ==
  ASSUME Starts, NEW n \in Nat \ {0}, NEW messages, NEW ragged \in BOOLEAN, NEW kind, NEW symbol,
         Yield(messages, ragged, kind, symbol, n)
  PROVE  Begins(n) /\ yielded'.payload = [messages |-> messages, ragged |-> ragged]
BY DEF Starts, Begins, Yield

LEMMA RunSent ==
  ASSUME Starts, NEW n \in Nat \ {0}, n <= MaxMessages, NEW ms, Len(ms) = n,
         NEW kind, NEW symbol, Yield(ms, FALSE, kind, symbol, n), seq' = seq + n,
         \A i \in 1 .. n : Plain(ms[i]) /\ ms[i].seq_num = seq + i - 1,
         scenario # MALFORMED, scenario = GAPS => n = 1 /\ (generated = 0 \/ generated % 4 # 0)
  PROVE  Dispatched
<1>1. Begins(n) /\ yielded'.payload = [messages |-> ms, ragged |-> FALSE]
  BY StartsBegin
<1>2. Run(ms)' /\ seq' > 1
  BY <1>1, RunMade
<1>3. OnWay(ms)'
  BY <1>2 DEF OnWay
<1>4. Len(ms) \in Nat \ {0} /\ Len(ms) <= MaxMessages
  OBVIOUS
<1>5. Carried'
  BY <1>1, <1>3, <1>4 DEF Carried
<1> QED
  BY <1>2, <1>5 DEF Dispatched

(* One message. *)
LEMMA PlainSent ==
  ASSUME Starts, NEW m, Plain(m), m.seq_num = seq, seq' = seq + 1,
         NEW kind, NEW symbol, Yield(<<m>>, FALSE, kind, symbol, 1),
         scenario # MALFORMED, scenario = GAPS => generated = 0 \/ generated % 4 # 0
  PROVE  Dispatched
<1>1. PICK ms : ms = <<m>>
  OBVIOUS
<1>2. Len(ms) = 1 /\ 1 <= MaxMessages /\ 1 \in Nat \ {0}
  BY <1>1, GoldenAssumption
<1>3. ASSUME NEW i \in 1 .. 1 PROVE Plain(ms[i]) /\ ms[i].seq_num = seq + i - 1
  <2>1. i = 1 /\ ms[i] = m
    BY <1>1
  <2>2. Plain(ms[i])
    BY <2>1, Zenon
  <2>3. seq \in Nat
    BY GeneratedFits DEF Starts
  <2> QED
    BY <2>1, <2>2, <2>3
<1>4. Yield(ms, FALSE, kind, symbol, 1)
  BY <1>1, Zenon
<1> QED
  BY <1>2, <1>3, <1>4, RunSent

LEMMA SingleSent ==
  ASSUME Starts, NEW m, Single(m)', seq' > 1,
         NEW kind, NEW symbol, Yield(<<m>>, FALSE, kind, symbol, 1)
  PROVE  Dispatched
<1>1. PICK ms : ms = <<m>>
  OBVIOUS
<1>2. Len(ms) = 1 /\ ms[1] = m
  BY <1>1
<1>3. OnWay(ms)'
  BY <1>2 DEF OnWay
<1>4. yielded'.payload = [messages |-> ms, ragged |-> FALSE]
  <2>1. Yield(ms, FALSE, kind, symbol, 1)
    BY <1>1, Zenon
  <2>2. 1 \in Nat \ {0} /\ FALSE \in BOOLEAN
    OBVIOUS
  <2> QED
    BY <2>1, <2>2, StartsBegin
<1>5. Len(ms) \in Nat \ {0} /\ Len(ms) <= MaxMessages
  BY <1>2, GoldenAssumption
<1>6. Carried'
  BY <1>3, <1>4, <1>5 DEF Carried
<1> QED
  BY <1>6 DEF Dispatched

LEMMA QuotePlain ==
  ASSUME NEW symbol \in FeedSymbols, NEW side, NEW drift, NEW qty, NEW number, NEW m,
         m = Quote(symbol, side, drift, qty, number)
  PROVE  Plain(m) /\ m.seq_num = number
BY DEF Quote, Msg, QUOTE, MSG_QUOTE, Plain

LEMMA FreshSent ==
  ASSUME Starts, NEW kind, Fresh(kind), scenario # MALFORMED,
         scenario = GAPS => generated = 0 \/ generated % 4 # 0
  PROVE  Dispatched
<1>1. PICK symbol \in FeedSymbols, side \in {BID, ASK},
          drift \in Drift[scenario], qty \in Qty[scenario] :
        /\ seq' = seq + 1
        /\ Yield(<<Quote(symbol, side, drift, qty, seq)>>, FALSE, kind, symbol, 1)
  BY DEF Fresh
<1>2. PICK m : m = Quote(symbol, side, drift, qty, seq)
  OBVIOUS
<1>3. Plain(m) /\ m.seq_num = seq
  BY <1>2, QuotePlain
<1>4. Yield(<<m>>, FALSE, kind, symbol, 1)
  BY <1>1, <1>2
<1> QED
  BY <1>1, <1>3, <1>4, PlainSent

LEMMA ForcedSent ==
  ASSUME Starts, NEW symbol \in FeedSymbols, NEW price, NEW qty,
         ForcedBid(symbol, price, qty), scenario # MALFORMED, scenario # GAPS
  PROVE  Dispatched
<1>1. PICK m : m = Msg(QUOTE, symbol, BID, price, qty, seq)
  OBVIOUS
<1>2. Plain(m) /\ m.seq_num = seq
  BY <1>1 DEF Plain, Msg, QUOTE, MSG_QUOTE
<1>3. seq' = seq + 1 /\ Yield(<<m>>, FALSE, FORCED, symbol, 1)
  BY <1>1 DEF ForcedBid
<1> QED
  BY <1>2, <1>3, PlainSent

LEMMA GapsSent ==
  ASSUME Starts, Gaps PROVE Dispatched
<1>1. scenario = GAPS /\ GAPS # MALFORMED
  BY DEF Gaps, Turn, GAPS, MALFORMED
<1>2. CASE generated = 0 \/ generated % 4 # 0
  BY <1>1, <1>2, FreshSent DEF Gaps
<1>3. CASE ~(generated = 0 \/ generated % 4 # 0)
  <2>1. PICK symbol \in FeedSymbols, side \in {BID, ASK},
             drift \in Drift[scenario], qty \in Qty[scenario] :
            /\ Walk(symbol, side, drift)
            /\ IF generated % 8 = 0
               THEN \E jump \in Jump :
                      /\ seq' = seq + jump + 1
                      /\ Yield(<<Quote(symbol, side, drift, qty, seq + jump)>>,
                               FALSE, FILLER, symbol, 1)
               ELSE \E back \in Back :
                      /\ Yield(<<Quote(symbol, side, drift, qty, Older(back))>>, FALSE,
                               DUPLICATE, symbol, 1)
                      /\ UNCHANGED seq
    BY <1>3 DEF Gaps
  <2>2. /\ generated \in Nat /\ generated # 0 /\ seq \in Nat \ {0} /\ seq > 1
        /\ expected_seq = seq /\ expected_seq' = expected_seq
    BY <1>1, <1>3, GeneratedFits DEF Starts, Level, Expects
  <2>3. ASSUME NEW jump \in Jump, seq' = seq + jump + 1, generated % 8 = 0,
               Yield(<<Quote(symbol, side, drift, qty, seq + jump)>>, FALSE, FILLER, symbol, 1)
        PROVE  Dispatched
    <3>1. PICK m : m = Quote(symbol, side, drift, qty, seq + jump)
      OBVIOUS
    <3>2. Plain(m) /\ m.seq_num = seq + jump
      BY <3>1, QuotePlain
    <3>3. Yield(<<m>>, FALSE, FILLER, symbol, 1) /\ Begins(1)
      <4>1. Yield(<<m>>, FALSE, FILLER, symbol, 1)
        BY <2>3, <3>1, Zenon
      <4>2. 1 \in Nat \ {0} /\ FALSE \in BOOLEAN
        OBVIOUS
      <4> QED
        BY <4>1, <4>2, StartsBegin
    <3>4. scenario' = GAPS /\ generated' = generated + 1
      BY <1>1, <3>3 DEF Begins
    <3>5. Owing({"cnt_msgs_accepted"}, 1)' /\ GapOwing(1)'
      BY <1>1, <2>2, <2>3, <3>3, NextOwing, NextGap
    <3>6. jump \in 2 .. 5
      BY FeedGenAssumption
    <3>7. /\ seq' = m.seq_num + 1 /\ generated' > 1 /\ expected_seq' \in Nat
          /\ m.seq_num = expected_seq' + jump
      BY <2>2, <2>3, <3>2, <3>4, <3>6
    <3>8. Plain(m)'
      BY <3>2 DEF Plain
    <3>9. Single(m)'
      BY <3>4, <3>5, <3>6, <3>7, <3>8 DEF Single, Jumped
    <3>10. seq' > 1
      BY <2>2, <2>3, <3>6
    <3> QED
      BY <3>3, <3>9, <3>10, SingleSent
  <2>4. ASSUME NEW back \in Back, UNCHANGED seq, generated % 8 # 0,
               Yield(<<Quote(symbol, side, drift, qty, Older(back))>>, FALSE, DUPLICATE,
                     symbol, 1)
        PROVE  Dispatched
    <3>1. PICK m : m = Quote(symbol, side, drift, qty, Older(back))
      OBVIOUS
    <3>2. Plain(m) /\ m.seq_num = Older(back)
      BY <3>1, QuotePlain
    <3>3. Yield(<<m>>, FALSE, DUPLICATE, symbol, 1) /\ Begins(1)
      <4>1. Yield(<<m>>, FALSE, DUPLICATE, symbol, 1)
        BY <2>4, <3>1, Zenon
      <4>2. 1 \in Nat \ {0} /\ FALSE \in BOOLEAN
        OBVIOUS
      <4> QED
        BY <4>1, <4>2, StartsBegin
    <3>4. scenario' = GAPS /\ generated' = generated + 1
      BY <1>1, <3>3 DEF Begins
    <3>5. generated % 8 = 4
      BY <1>3, <2>2, <2>4
    <3>6. Owing({"cnt_msgs_accepted", "cnt_seq_dup"}, 1)' /\ GapOwing(0)'
      BY <1>1, <2>4, <3>3, <3>5, NextOwing, NextGap
    <3>7. back \in 1 .. 3
      BY FeedGenAssumption
    <3>8. m.seq_num < seq' /\ expected_seq' = seq' /\ generated' > 1 /\ seq' > 1
      BY <2>2, <2>4, <3>2, <3>4, <3>7 DEF Older
    <3>9. Plain(m)'
      BY <3>2 DEF Plain
    <3>10. Single(m)'
      BY <3>4, <3>6, <3>8, <3>9 DEF Single, Repeated
    <3> QED
      BY <3>3, <3>8, <3>10, SingleSent
  <2> QED
    BY <2>1, <2>3, <2>4
<1> QED
  BY <1>2, <1>3

LEMMA MalformedSent ==
  ASSUME Starts, Malformed PROVE Dispatched
<1>1. /\ scenario = MALFORMED /\ seq' = seq + 1 /\ seq \in Nat \ {0} /\ seq' > 1
      /\ generated \in Nat /\ expected_seq' = expected_seq
  BY GeneratedFits DEF Malformed, Turn, Starts
<1>2. Behind(seq) /\ None \notin Int
  BY <1>1, GoldenAssumption DEF Starts, Level
<1>3. expected_seq \in Nat \cup {None}
  BY DEF Starts, GoldenTypeOK
<1>4. ASSUME NEW m, NEW symbol, Yield(<<m>>, FALSE, FILLER, symbol, 1), m.seq_num = seq,
             \/ generated % 3 = 1 /\ m.msg_type \notin VALID_MSG_TYPES
             \/ /\ generated % 3 # 0 /\ generated % 3 # 1
                /\ m.msg_type \in VALID_MSG_TYPES /\ m.reserved
      PROVE  Dispatched
  <2>1. Begins(1) /\ scenario' = MALFORMED
    <3>1. 1 \in Nat \ {0} /\ FALSE \in BOOLEAN
      OBVIOUS
    <3>2. Begins(1)
      BY <1>4, <3>1, StartsBegin
    <3> QED
      BY <1>1, <3>2 DEF Begins
  <2>2. seq' = m.seq_num + 1
    BY <1>1, <1>4
  <2>3. Behind(m.seq_num)'
    BY <1>1, <1>2, <1>4 DEF Behind
  <2>4. \/ m.msg_type \notin VALID_MSG_TYPES /\ Owing({"err_msg_type"}, 1)'
        \/ m.msg_type \in VALID_MSG_TYPES /\ m.reserved /\ Owing({"err_flags"}, 1)'
    <3>1. CASE generated % 3 = 1 /\ m.msg_type \notin VALID_MSG_TYPES
      BY <1>1, <2>1, <3>1, NextOwing
    <3>2. CASE /\ generated % 3 # 0 /\ generated % 3 # 1
               /\ m.msg_type \in VALID_MSG_TYPES /\ m.reserved
      BY <1>1, <2>1, <3>2, NextOwing
    <3> QED
      BY <1>4, <3>1, <3>2
  <2>5. Damaged(m)'
    BY <2>1, <2>2, <2>3, <2>4 DEF Damaged, VALID_MSG_TYPES
  <2>6. Single(m)'
    BY <2>5 DEF Single
  <2> QED
    BY <1>1, <1>4, <2>6, SingleSent
<1>5. CASE generated % 3 = 0
  <2>1. PICK symbol \in FeedSymbols : Yield(<<>>, TRUE, FILLER, symbol, 1)
    <3>1. ~(generated % 3 = 1)
      BY <1>5
    <3> QED
      BY <1>5, <3>1, Zenon DEF Malformed
  <2>2. Begins(1) /\ yielded'.payload.ragged = TRUE /\ scenario' = MALFORMED
    <3>1. 1 \in Nat \ {0} /\ TRUE \in BOOLEAN
      OBVIOUS
    <3>2. Begins(1) /\ yielded'.payload = [messages |-> <<>>, ragged |-> TRUE]
      BY <2>1, <3>1, StartsBegin
    <3> QED
      BY <1>1, <3>2 DEF Begins
  <2>3. Owing({"err_frame_len"}, 1)'
    BY <1>1, <1>5, <2>2, NextOwing
  <2>4. Behind(seq)'
    BY <1>1, <1>2, <1>3 DEF Behind
  <2>5. Cut'
    BY <2>2, <2>3, <2>4 DEF Cut
  <2> QED
    BY <1>1, <2>2, <2>5 DEF Dispatched, Carried
<1>6. CASE generated % 3 = 1
  <2>1. PICK symbol \in FeedSymbols :
          Yield(<<Msg(UNDEFINED, symbol, BID, 1, 1, seq)>>, FALSE, FILLER, symbol, 1)
    <3>1. ~(generated % 3 = 0)
      BY <1>6
    <3> QED
      BY <1>6, <3>1, Zenon DEF Malformed
  <2>2. PICK m : m = Msg(UNDEFINED, symbol, BID, 1, 1, seq)
    OBVIOUS
  <2>3. m.msg_type \notin VALID_MSG_TYPES /\ m.seq_num = seq
    BY <2>2 DEF Msg, UNDEFINED, VALID_MSG_TYPES, MSG_QUOTE, MSG_TRADE, MSG_CLEAR,
       MSG_HEARTBEAT
  <2> QED
    BY <1>4, <1>6, <2>1, <2>2, <2>3
<1>7. CASE generated % 3 # 0 /\ generated % 3 # 1
  <2>1. PICK symbol \in FeedSymbols, drift \in Drift[scenario], qty \in Qty[scenario] :
          Yield(<<[Quote(symbol, ASK, drift, qty, seq) EXCEPT !.reserved = TRUE]>>,
                FALSE, FILLER, symbol, 1)
    BY <1>7 DEF Malformed
  <2>2. PICK m : m = [Quote(symbol, ASK, drift, qty, seq) EXCEPT !.reserved = TRUE]
    OBVIOUS
  <2>3. m.msg_type = MSG_QUOTE /\ m.reserved /\ m.seq_num = seq
    BY <2>2 DEF Quote, Msg, QUOTE, MSG_QUOTE
  <2>4. m.msg_type \in VALID_MSG_TYPES
    BY <2>3 DEF VALID_MSG_TYPES
  <2> QED
    BY <1>4, <1>7, <2>1, <2>2, <2>3, <2>4
<1> QED
  BY <1>5, <1>6, <1>7

LEMMA BurstSent ==
  ASSUME Starts, Burst PROVE Dispatched
<1> DEFINE n == IF Limit - generated < BurstSize THEN Limit - generated ELSE BurstSize
           moved(pick, symbol, side, k) ==
             SumFunctionOnSet([j \in 1 .. k |-> pick[j].drift],
                              {j \in 1 .. k : pick[j].symbol = symbol /\ pick[j].side = side})
           message(pick, snapshot, k) ==
             [Quote(pick[k].symbol, pick[k].side,
                    moved(pick, pick[k].symbol, pick[k].side, k), pick[k].qty, seq + k - 1)
                EXCEPT !.snapshot = snapshot /\ k = n]
<1>1. scenario = BURST /\ BURST # MALFORMED /\ BURST # GAPS /\ generated < Limit
  BY DEF Burst, Turn, BURST, MALFORMED, GAPS
<1>2. Limit \in Nat /\ generated \in Nat
  BY GeneratedFits, LimitType DEF Starts, FitInv
<1>3. n \in Nat \ {0} /\ n <= MaxMessages
  <2>1. BurstSize \in Nat \ {0} /\ BurstSize <= MaxMessages /\ MaxMessages \in Nat
    BY FeedGenAssumption, ScenarioAssumption, GoldenAssumption
  <2> QED
    BY <1>1, <1>2, <2>1
<1>4. PICK pick \in [1 .. n -> [symbol : FeedSymbols, side : {BID, ASK},
                                drift : Drift[BURST], qty : Qty[BURST]]],
           snapshot \in BOOLEAN :
        /\ seq' = seq + n
        /\ Yield([k \in 1 .. n |-> message(pick, snapshot, k)], FALSE, FILLER,
                 pick[n].symbol, n)
  BY Zenon DEF Burst
<1> HIDE DEF n, moved
<1>5. PICK ms : ms = [k \in 1 .. n |-> message(pick, snapshot, k)]
  OBVIOUS
<1>6. Len(ms) = n /\ \A k \in 1 .. n : ms[k] = message(pick, snapshot, k)
  BY <1>3, <1>5
<1>7. ASSUME NEW k \in 1 .. n PROVE Plain(ms[k]) /\ ms[k].seq_num = seq + k - 1
  <2>1. pick[k].symbol \in FeedSymbols
    BY <1>4
  <2>2. PICK m : m = Quote(pick[k].symbol, pick[k].side,
                           moved(pick, pick[k].symbol, pick[k].side, k), pick[k].qty,
                           seq + k - 1)
    OBVIOUS
  <2>3. Plain(m) /\ m.seq_num = seq + k - 1
    BY <2>1, <2>2, QuotePlain
  <2>4. ms[k] = [m EXCEPT !.snapshot = snapshot /\ k = n]
    BY <1>6, <2>2
  <2>5. /\ ms[k].msg_type = m.msg_type /\ ms[k].reserved = m.reserved
        /\ ms[k].symbol_id = m.symbol_id /\ ms[k].seq_num = m.seq_num
    <3>1. PICK b : b = (snapshot /\ k = n)
      OBVIOUS
    <3>2. ms[k] = [m EXCEPT !.snapshot = b]
      BY <2>4, <3>1
    <3> QED
      BY <2>2, <3>2 DEF Quote, Msg
  <2> QED
    BY <2>3, <2>5 DEF Plain
<1>8. Yield(ms, FALSE, FILLER, pick[n].symbol, n)
  BY <1>4, <1>5
<1> QED
  BY <1>1, <1>3, <1>4, <1>6, <1>7, <1>8, RunSent

LEMMA GeneratedScenario ==
  ASSUME FitInv, GoldenTypeOK, ScenarioInv, scenario \notin Traffic, scenario' = scenario,
         Generate
  PROVE  ScenarioInv'
<1>1. /\ pending = <<>> /\ iter_scenario /\ UNCHANGED <<counters, expected_seq, pending>>
  BY DEF Generate, goldenVars, feedVars
<1>2. yielded = NoFrame
  <2>1. CASE Normal BY <2>1 DEF Normal, Turn
  <2>2. CASE Crossed BY <2>2 DEF Crossed, Turn
  <2>3. CASE Gaps BY <2>3 DEF Gaps, Turn
  <2>4. CASE Malformed BY <2>4 DEF Malformed, Turn
  <2>5. CASE Burst BY <2>5 DEF Burst, Turn
  <2>6. CASE Trigger BY <2>6 DEF Trigger, Turn
  <2> QED
    BY <1>1, <2>1, <2>2, <2>3, <2>4, <2>5, <2>6 DEF iter_scenario
<1>3. Starts
  BY <1>1, <1>2, LevelBetween DEF Starts
<1>4. yielded' # NoFrame
  BY <1>1, GenStep DEF Produced, FitInv
<1>5. /\ NORMAL # MALFORMED /\ NORMAL # GAPS /\ CROSSED # MALFORMED /\ CROSSED # GAPS
      /\ TRIGGER # MALFORMED /\ TRIGGER # GAPS
  BY DEF NORMAL, CROSSED, TRIGGER, MALFORMED, GAPS
<1>6. ASSUME Normal PROVE Dispatched
  BY <1>3, <1>5, <1>6, FreshSent DEF Normal, Turn
<1>7. ASSUME Crossed PROVE Dispatched
  <2>1. scenario # MALFORMED /\ scenario # GAPS
    BY <1>5, <1>7 DEF Crossed, Turn
  <2>2. CASE generated % 3 = 0
    <3>1. PICK symbol \in FeedSymbols, by \in CrossBy, qty \in Qty[scenario] \cap 1 .. 100 :
            ForcedBid(symbol, ask_price[symbol] + by, qty)
      BY <1>7, <2>2 DEF Crossed
    <3> QED
      BY <1>3, <2>1, <3>1, ForcedSent
  <2> QED
    BY <1>3, <1>7, <2>1, <2>2, FreshSent DEF Crossed
<1>8. ASSUME Trigger PROVE Dispatched
  <2>1. scenario # MALFORMED /\ scenario # GAPS
    BY <1>5, <1>8 DEF Trigger, Turn
  <2>2. CASE generated % 3 = 0
    <3>1. PICK symbol \in FeedSymbols, skew \in Skew :
            ForcedBid(symbol, ask_price[symbol] - skew, SKEWED_QTY)
      BY <1>8, <2>2 DEF Trigger
    <3> QED
      BY <1>3, <2>1, <3>1, ForcedSent
  <2> QED
    BY <1>3, <1>8, <2>1, <2>2, FreshSent DEF Trigger
<1>9. Dispatched
  BY <1>1, <1>3, <1>6, <1>7, <1>8, GapsSent, MalformedSent, BurstSent DEF iter_scenario
<1>10. seq' > 1 /\ Carried' /\ pending' = <<>>
  BY <1>1, <1>9 DEF Dispatched
<1> QED
  BY <1>4, <1>10 DEF ScenarioInv

LEMMA ScenarioStep ==
  ASSUME FitInv, GoldenTypeOK, cfg \in Setup[scenario], ScenarioInv, [Next]_vars
  PROVE  ScenarioInv'
<1>1. scenario' = scenario
  BY ScenarioKept
<1>2. CASE scenario \in Traffic
  BY <1>1, <1>2 DEF ScenarioInv
<1>3. CASE scenario \notin Traffic
  <2>1. CASE Generate
    BY <1>1, <1>3, <2>1, GeneratedScenario
  <2>2. CASE Feed
    BY <1>3, <2>2, FedScenario
  <2>3. CASE ProcessNext
    BY <1>1, <1>3, <2>3, CountedScenario
  <2>4. CASE AnyMessage \/ AnyBadFrame \/ ControlCalls
    BY <1>3, <2>4 DEF AnyMessage, AnyBadFrame, ControlCalls
  <2>5. CASE Stray \/ Receiver \/ UNCHANGED vars
    <3>1. UNCHANGED <<goldenVars, genVars>>
      BY <2>5 DEF Stray, Receiver, vars
    <3>2. Standing /\ UNCHANGED <<pending, yielded>>
      BY <3>1 DEF goldenVars, genVars, stateVars, feedVars, Standing
    <3> QED
      BY <3>2, StillAccounted
  <2> QED
    BY <2>1, <2>2, <2>3, <2>4, <2>5 DEF Next
<1> QED
  BY <1>2, <1>3

LEMMA ScenarioStart ==
  ASSUME Init, GoldenTypeOK PROVE ScenarioInv
<1>1. /\ generated = 0 /\ seq = 1 /\ yielded = NoFrame /\ pending = <<>>
      /\ expected_seq = None /\ counters = [c \in Counter |-> 0]
  BY DEF Init, GenInit, GoldenInit
<1>2. Len(<<>>) = 0
  OBVIOUS
<1>3. \A M : Owing(M, 0)
  <2>1. \A c \in Tallied : Promised(c) = 0
    BY <1>1 DEF Promised
  <2>2. \A c \in Tallied : counters[c] = 0
    BY <1>1, TalliedNames
  <2> QED
    BY <2>1, <2>2 DEF Owing
<1>4. GapOwing(0)
  <2>1. Jumps = 0
    BY <1>1 DEF Jumps
  <2>2. counters["cnt_seq_gap"] = 0
    BY <1>1, TalliedNames
  <2> QED
    BY <2>1, <2>2 DEF GapOwing
<1>5. CASE scenario = MALFORMED
  BY <1>1, <1>3, <1>5 DEF ScenarioInv, Settled, Behind
<1>6. CASE scenario # MALFORMED
  <2>1. Expects(seq - Len(<<>>), generated - Len(<<>>))
    <3>1. generated - Len(<<>>) = 0
      <4>1. generated - Len(<<>>) = 0 - 0
        BY <1>1, <1>2, Zenon
      <4> QED
        BY <4>1
    <3> QED
      BY <1>1, <3>1, Zenon DEF Expects
  <2>2. Owing({"cnt_msgs_accepted"}, Len(<<>>))
    BY <1>2, <1>3
  <2>3. Run(<<>>)
    BY <1>1, <1>2, <1>4, <1>6, <2>1, <2>2 DEF Run
  <2>4. OnWay(<<>>)
    BY <2>3 DEF OnWay
  <2>5. InModel
    BY <1>1, <2>4 DEF InModel
  <2> QED
    BY <1>1, <2>5 DEF ScenarioInv
<1> QED
  BY <1>5, <1>6

(***************************************************************************)
(* Whatever a scenario of the generator promises to inject is in the       *)
(* counters when the model has taken it, frame for frame, and nothing else *)
(* is (feed_gen.py, iter_scenario): the cut-off frames, undefined types    *)
(* and reserved flags of "malformed" by turns, one repeated number and one *)
(* jump in every eight frames of "gaps", and every message of every other  *)
(* scenario accepted without a gap.                                        *)
(***************************************************************************)
THEOREM ScenarioSafe == Spec => []ScenarioAccounted
<1> DEFINE Inv == GoldenTypeOK /\ FitInv
           Chosen == cfg \in Setup[scenario]
<1>1. Init => Chosen
  BY DEF Init
<1>2. Inv /\ Inv' /\ Chosen /\ [Next]_vars => Chosen'
  <2> SUFFICES ASSUME Inv, Inv', Chosen, [Next]_vars PROVE Chosen'
    OBVIOUS
  <2>1. cfg' = cfg /\ scenario' = scenario
    BY ConfigKept, ScenarioKept DEF FitInv
  <2> QED
    BY <2>1
<1>3. Init /\ Inv => ScenarioInv
  BY ScenarioStart
<1>4. Inv /\ Chosen /\ ScenarioInv /\ [Next]_vars => ScenarioInv'
  BY ScenarioStep
<1>5. ScenarioInv /\ Inv => ScenarioAccounted
  BY ScenarioIs
<1>6. Spec => []Inv
  BY BenchSafe, PTL
<1> QED
  BY <1>1, <1>2, <1>3, <1>4, <1>5, <1>6, PTL DEF Spec

=============================================================================
