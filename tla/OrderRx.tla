-------------------------------- MODULE OrderRx --------------------------------
(***************************************************************************)
(* sim/order_rx.py: the host that receives order records, one to a         *)
(* datagram, or reads them from a capture, and sums them up at the end.    *)
(***************************************************************************)
EXTENDS Integers, Sequences

CONSTANTS
  OrderNames,   \* [msg_type -> name] of MSG_TYPE_NAME
  Reasons,      \* the names of the gates, and "accepted"
  RxCount,      \* --count: stop after so many records
  Forever,      \* no --count
  Junk          \* a datagram, or a line, that is not 16 bytes

VARIABLES
  source,     \* --udp, --in, or no receiver at all
  session,    \* what the process is doing
  socket,     \* datagrams, or lines, not read yet
  received,
  stats

rxVars == <<source, session, socket, received, stats>>

UDP == "udp"
FILE == "file"

LISTENING == "listening"
SUMMARY == "summary"       \* the summary has been printed
RAISED == "raised"         \* ended by an exception, without one

SideName == {"buy", "sell"}

Tally(names) == [n \in names |-> 0]
Stats == [total |-> 0,
          by_msg_type |-> Tally({OrderNames[t] : t \in DOMAIN OrderNames}),
          by_side |-> Tally(SideName),
          by_reject_reason |-> Tally(Reasons),
          accepted_latencies |-> <<>>]

RxInit ==
  /\ session = LISTENING
  /\ socket = <<>>
  /\ received = 0
  /\ stats = Stats

-----------------------------------------------------------------------------

Remaining == RxCount = Forever \/ received < RxCount

(* Stats.observe.  Only an accepted order's latency is a tick to trade.    *)
Observed(s, rec) ==
  [total |-> s.total + 1,
   by_msg_type |-> [s.by_msg_type EXCEPT ![OrderNames[rec.type]] = @ + 1],
   by_side |-> [s.by_side EXCEPT ![rec.side] = @ + 1],
   by_reject_reason |-> [s.by_reject_reason EXCEPT ![rec.reason] = @ + 1],
   accepted_latencies |-> IF OrderNames[rec.type] = "new_order"
                          THEN Append(s.accepted_latencies, rec.latency)
                          ELSE s.accepted_latencies]

(* run: one record decoded, observed and printed.                          *)
Read ==
  /\ session = LISTENING
  /\ socket # <<>>
  /\ source = UDP => Remaining
  /\ Head(socket) # Junk
  /\ stats' = Observed(stats, Head(socket))
  /\ received' = received + 1
  /\ socket' = Tail(socket)
  /\ UNCHANGED <<source, session>>

(* Mutant: a skipped datagram counts. *)
Skip_Counted ==
  /\ session = LISTENING /\ source = UDP
  /\ Remaining
  /\ socket # <<>> /\ Head(socket) = Junk
  /\ socket' = Tail(socket)
  /\ received' = received + 1
  /\ UNCHANGED <<source, session, stats>>

(* iter_udp warns and goes on. *)
Skip ==
  /\ session = LISTENING /\ source = UDP
  /\ Remaining
  /\ socket # <<>> /\ Head(socket) = Junk
  /\ socket' = Tail(socket)
  /\ UNCHANGED <<source, session, received, stats>>

(* iter_hex_file raises. *)
BadLine ==
  /\ session = LISTENING /\ source = FILE
  /\ socket # <<>> /\ Head(socket) = Junk
  /\ session' = RAISED
  /\ UNCHANGED <<source, socket, received, stats>>

(* Nothing more is awaited: enough records, or the end of the file.        *)
Finish(eof) ==
  /\ session = LISTENING
  /\ IF source = UDP THEN ~Remaining ELSE eof /\ socket = <<>>
  /\ session' = SUMMARY
  /\ UNCHANGED <<source, socket, received, stats>>

(* Ctrl+C: the socket is closed on the way out, and main never gets to the *)
(* summary.                                                                *)
Interrupt ==
  /\ session = LISTENING /\ source = UDP
  /\ session' = RAISED
  /\ UNCHANGED <<source, socket, received, stats>>

=============================================================================
