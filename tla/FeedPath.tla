------------------------------- MODULE FeedPath -------------------------------
(***************************************************************************)
(* From the exchange's feed to order intents: a sender that numbers its    *)
(* messages, a network that loses, duplicates and reorders them, and the   *)
(* sequence monitor, symbol filter, book and signal engine of tob_top.v.   *)
(* CSR frames come in on the same byte stream (D19).                       *)
(***************************************************************************)
EXTENDS SeqMonitor, TobEngine, SignalEngine, Sequences, FiniteSets

CONSTANTS
  Content,    \* what a feed message can say
  Config,     \* configurations a CSR write can leave in force
  FirstSeq,   \* the sequence number the sender starts with
  CsrSeq,     \* bytes 12 to 15 of a CSR frame, read as a sequence number
  MaxSent     \* bound of the messages sent

BAD == "bad"   \* an undefined type or a reserved flag bit
CSR == "csr"

Message == [type : {QUOTE, TRADE, CLEAR, HEARTBEAT, BAD, CSR}, symbol : Nat,
            side : {BID, ASK}, price : 0 .. PriceMod - 1, qty : 0 .. QtyMod - 1,
            snapshot : BOOLEAN]

ASSUME WidthAssumption == PriceMod \in Nat \ {0} /\ QtyMod \in Nat \ {0}
ASSUME ContentAssumption == Content \subseteq Message
ASSUME ImbAssumption == \A c \in Config : c.imb \in {1, 2, 4, 8}
ASSUME OrderQtyAssumption == \A c \in Config : c.order_qty \in 0 .. QtyMod - 1
(* seq_monitor.v does not handle sequence numbers that wrap around. *)
ASSUME NoWrapAssumption ==
  /\ FirstSeq \in Nat /\ MaxSent \in Nat /\ FirstSeq + MaxSent < SeqMod
  /\ CsrSeq \subseteq 0 .. SeqMod - 2

VARIABLES
  log,          \* the messages sent; the sender's view of the feed
  cfg,          \* the CSR registers, in csr_block.v
  cnt_err_signal_conflict,
  base,         \* history: index in the log of the first message accepted
  last,         \* history: and of the last
  resumed       \* history: the gap flag was cleared by hand or by a snapshot

histVars == <<base, last, resumed>>
vars == <<seqVars, bookVars, sig, log, cfg,
          cnt_err_signal_conflict, histVars>>

Init ==
  /\ SeqReset /\ BookReset /\ SigReset
  /\ log = <<>>
  /\ cfg \in Config
  /\ cnt_err_signal_conflict = 0
  /\ base = 0 /\ last = 0
  /\ resumed = FALSE

-----------------------------------------------------------------------------

SeqOf(k) == (FirstSeq + k - 1) % SeqMod

(* The frames that can complete on a cycle: any message sent so far, and   *)
(* CSR frames, whose other fields md_parser.v decodes all the same.        *)
FeedFrames == {[index |-> k, seq |-> SeqOf(k), msg |-> log[k]] : k \in DOMAIN log}

CsrMessage == [type |-> CSR, symbol |-> 0, side |-> BID, price |-> 0, qty |-> 0,
               snapshot |-> FALSE]
CsrFrames == {[index |-> 0, seq |-> s, msg |-> CsrMessage] : s \in CsrSeq}

SeqIn(f, clear) ==
  [complete |-> TRUE, seq |-> f.seq, snapshot |-> f.msg.snapshot,
   seq_gap_clear |-> clear]

BookIn(f, dup) ==
  [valid |-> f.msg.type \notin {BAD, CSR}, type |-> f.msg.type,
   symbol |-> f.msg.symbol, side |-> f.msg.side, price |-> f.msg.price,
   qty |-> f.msg.qty, dup |-> dup, cfg |-> cfg]

(* Mutant: the rule looks at the book before the message. *)
SigIn_Committed(b) ==
  IF book_upd_valid(b)
  THEN LET s == filt_slot(b)
       IN [upd |-> TRUE, slot |-> s, bid |-> bid[s], ask |-> ask[s],
           crossed |-> crossed[s], cfg |-> cfg]
  ELSE [upd |-> FALSE]

SigIn(b) ==
  IF book_upd_valid(b)
  THEN [upd |-> TRUE, slot |-> filt_slot(b), bid |-> next_bid(b),
        ask |-> next_ask(b), crossed |-> next_crossed(b), cfg |-> cfg]
  ELSE [upd |-> FALSE]

CountersStep(conflict) ==
  cnt_err_signal_conflict' = IF conflict THEN 1 ELSE cnt_err_signal_conflict

HistoryStep(f, clear) ==
  LET in == SeqIn(f, clear)
      accepted == f.index # 0 /\ ~err_seq_dup(in)
  IN /\ base' = IF accepted /\ base = 0 THEN f.index ELSE base
     /\ last' = IF accepted THEN f.index ELSE last
     /\ resumed' = (resumed \/ clear \/ f.msg.snapshot)

(* A frame completes.  clear is CTRL bit 3, newCfg what a write leaves.    *)
Complete(f, clear, newCfg) ==
  LET b == BookIn(f, err_seq_dup(SeqIn(f, clear)))
  IN /\ SeqStep(SeqIn(f, clear))
     /\ BookStep(b)
     /\ SignalStep(SigIn(b))
     /\ CountersStep(err_signal_conflict(SigIn(b)))
     /\ HistoryStep(f, clear)
     /\ cfg' = newCfg
     /\ UNCHANGED log

Receive == \E f \in FeedFrames : Complete(f, FALSE, cfg)

Control == \E f \in CsrFrames, clear \in BOOLEAN, newCfg \in Config :
             Complete(f, clear, newCfg)

(* The cycle after a completion: sig_valid is a one-cycle pulse. *)
Quiet ==
  /\ sig # NoIntent
  /\ sig' = NoIntent
  /\ UNCHANGED <<seqVars, bookVars, log, cfg,
                 cnt_err_signal_conflict, histVars>>

Send ==
  /\ Len(log) < MaxSent
  /\ \E m \in Content : log' = Append(log, m)
  /\ UNCHANGED <<seqVars, bookVars, sig, cfg,
                 cnt_err_signal_conflict, histVars>>

Next == Receive \/ Control \/ Quiet \/ Send

Spec == Init /\ [][Next]_vars

-----------------------------------------------------------------------------

Quote == [price : 0 .. PriceMod - 1, qty : 0 .. QtyMod - 1, valid : BOOLEAN]

TypeOK ==
  /\ expected_seq \in 0 .. SeqMod - 1
  /\ seen_first \in BOOLEAN
  /\ seq_gap \in BOOLEAN
  /\ bid \in [Slot -> Quote]
  /\ ask \in [Slot -> Quote]
  /\ sig \in {NoIntent} \cup [slot : Slot, side : {BID, ASK},
                               price : 0 .. PriceMod - 1, qty : 0 .. QtyMod - 1]
  /\ log \in Seq(Content) /\ Len(log) <= MaxSent
  /\ cfg \in Config
  /\ cnt_err_signal_conflict \in 0 .. 1
  /\ base \in 0 .. Len(log) /\ last \in 0 .. Len(log)
  /\ resumed \in BOOLEAN

(* The side of slot s after messages base .. last of the sender's log: the *)
(* last quote for it, unless a clear or an empty quote came after.         *)
Concerns(k, s, side) ==
  /\ log[k].symbol = cfg.symbol[s]
  /\ log[k].type = CLEAR \/ (log[k].type = QUOTE /\ log[k].side = side)

LastWord(s, side) ==
  {k \in base .. last : /\ base # 0
                        /\ Concerns(k, s, side)
                        /\ \A j \in k + 1 .. last : ~Concerns(j, s, side)}

Shows(q, s, side) ==
  /\ LastWord(s, side) = {} => ~q.valid
  /\ \A k \in LastWord(s, side) :
       IF log[k].type = QUOTE /\ log[k].qty # 0
       THEN q.valid /\ q.price = log[k].price /\ q.qty = log[k].qty
       ELSE ~q.valid

(***************************************************************************)
(* As long as no gap is flagged, the book of every watched symbol is the   *)
(* one the sender's messages describe: whatever the network loses, repeats *)
(* or reorders, and whatever CSR frames come in between (FR-10 to FR-16).  *)
(***************************************************************************)
BookCurrent ==
  ~seq_gap /\ ~resumed =>
    \A s \in Slot : cfg.symbol_en[s] => Shows(bid[s], s, BID) /\ Shows(ask[s], s, ASK)

(***************************************************************************)
(* The book never goes back in time: only a message newer than every one   *)
(* accepted before changes it, with a gap flagged or not (FR-11).          *)
(***************************************************************************)
Newer == UNCHANGED bookVars \/ last' > last

BookMovesForward == [][Newer]_vars

(***************************************************************************)
(* An intent is justified by the book as it stands once its message is     *)
(* applied (D23), on a book with both sides valid and not crossed; and it  *)
(* trades at the opposite side's price (FR-35, FR-36, FR-38).              *)
(***************************************************************************)
IntentJustified ==
  sig # NoIntent =>
    LET b == bid[sig.slot]
        a == ask[sig.slot]
    IN /\ b.valid /\ a.valid /\ b.price < a.price
       /\ a.price - b.price >= cfg.min_spread
       /\ sig.side = BID => b.qty > a.qty * cfg.imb /\ sig.price = a.price
       /\ sig.side = ASK => a.qty > b.qty * cfg.imb /\ sig.price = b.price

(***************************************************************************)
(* FR-37: "Both rules satisfied simultaneously is impossible by            *)
(* construction".                                                          *)
(***************************************************************************)
NoConflict == cnt_err_signal_conflict = 0

(***************************************************************************)
(* D19: CSR frames are "zero-effect noise to every market-data-consuming   *)
(* module".  The gap flag may change, CTRL bit 3 clears it.                *)
(***************************************************************************)
CsrIsNoise == [][Control => UNCHANGED <<expected_seq, seen_first, bookVars>>]_vars

=============================================================================
