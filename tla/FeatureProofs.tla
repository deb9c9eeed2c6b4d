----------------------------- MODULE FeatureProofs -----------------------------
(***************************************************************************)
(* The ML branch agrees with its Python references: features, and verdict, *)
(* for every width, window, set of slots, messages and configuration; and  *)
(* what a feature is of the messages its slot has had.                     *)
(***************************************************************************)
EXTENDS FeaturePath, SumProofs

(* Both sides are built for one width and one window. *)
SameSizes == Word = WORD /\ window = WINDOW

(* The engine's memories hold the model the reference was given. *)
SameModel == NormWord = WORD /\ Weights = w_mem /\ Bias = bias_mem

(* A message takes longer to arrive than the branch is deep. *)
Spaced == SPACING >= 4

-----------------------------------------------------------------------------
(* The inductive invariant. *)

Quote == [price : Unsigned, qty : Unsigned, valid : BOOLEAN]

Entry == [is_update : BOOLEAN, delta : 0 .. Word \div 2]

Tracker ==
  [prev_bid : Unsigned, prev_ask : Unsigned, prev_bid_qty : Unsigned,
   prev_ask_qty : Unsigned, last_trade_dir : {-1, 0, 1}, window : Seq(Entry),
   seen_first_event : BOOLEAN]

Chapter ==
  [type : {QUOTE, TRADE, CLEAR, HEARTBEAT}, is_bid : BOOLEAN, bid : Quote, ask : Quote]

TypeInv ==
  /\ expected_seq \in 0 .. SeqMod - 1 /\ seen_message \in BOOLEAN /\ seq_gap \in BOOLEAN
  /\ bid \in [Slot -> Quote] /\ ask \in [Slot -> Quote]
  /\ prev \in [Slot -> [bp : Unsigned, bq : Unsigned, ap : Unsigned, aq : Unsigned]]
  /\ last_trade_dir \in [Slot -> {0, 1, WORD - 1}]
  /\ seen_first \in [Slot -> BOOLEAN]
  /\ win \in [Slot -> [1 .. WINDOW -> HistoryEntry]]
  /\ feat \in [valid : BOOLEAN, slot : Slot \cup {0}, f : [1 .. 8 -> Unsigned]]
  /\ norm \in [valid : BOOLEAN, slot : Slot \cup {0},
               x : [1 .. 8 -> -ByteHalf .. ByteHalf - 1]]
  /\ ml \in [valid : BOOLEAN, slot : Slot \cup {0}, z : Int]
  /\ adverse_risk \in BOOLEAN /\ held_risk \in BOOLEAN
  /\ ml_result \in [z : Int, risk_level : 0 .. MaxRisk, adverse_risk : BOOLEAN,
                    safe_forced : BOOLEAN]
  /\ states \in [Slot -> Tracker]
  /\ \A s \in Slot : Len(states[s].window) <= MAX_WINDOW
  /\ cfg \in Config
  /\ since \in 1 .. SPACING
  /\ history \in [Slot -> Seq(Chapter)]

(* Entry j of a slot's window, 1 the newest, as the reference's list w has it. *)
Listed(w, j) ==
  IF j <= Len(w)
  THEN [upd |-> w[Len(w) + 1 - j].is_update, abs |-> w[Len(w) + 1 - j].delta]
  ELSE NoEntry

(* The registers of a slot hold what the reference remembers of its symbol. *)
Mirrors(s) ==
  /\ prev[s] = [bp |-> states[s].prev_bid, bq |-> states[s].prev_bid_qty,
                ap |-> states[s].prev_ask, aq |-> states[s].prev_ask_qty]
  /\ seen_first[s] = states[s].seen_first_event
  /\ last_trade_dir[s] = states[s].last_trade_dir % WORD
  /\ \A j \in 1 .. WINDOW : win[s][j] = Listed(states[s].window, j)

MirrorInv ==
  /\ \A s \in Slot : Mirrors(s)
  /\ feat.valid => vector \in [1 .. 8 -> Int]
  /\ FeaturesAgree

(* Entry i of a slot's history, as its window has it. *)
Told(h, i) ==
  IF i \in BookEvents(h) THEN [upd |-> TRUE, abs |-> Absolute(MidMove(h, i))] ELSE NoEntry

(* The registers of a slot hold what its messages since the last clear leave. *)
Chronicles(s) ==
  LET h == history[s]
  IN /\ seen_first[s] = (BookEvents(h) # {})
     /\ \A i \in BookEvents(h) :
          (\A j \in BookEvents(h) : j <= i) =>
             prev[s].bp = h[i].bid.price /\ prev[s].ap = h[i].ask.price
     /\ last_trade_dir[s] = LastTrade(h) % WORD
     /\ \A j \in 1 .. WINDOW : win[s][j] = Told(h, Len(h) + 1 - j)

HistoryInv == (\A s \in Slot : Chronicles(s)) /\ FeaturesFromHistory

(* No difference leaves the normalizer's word (see the README). *)
OffsetsFit ==
  feat.valid =>
    \A i \in 1 .. 8 :
      AsSigned(feat.f[i]) - AsSigned(cfg.offset[i])
        \in -(NormWord \div 2) .. NormWord \div 2 - 1

(* The verdict the policy will come to on slot s, if the score is z. *)
Verdict(s, z) == Adverse([PolicyIn EXCEPT !.event = [slot |-> s, z |-> z]])

(* Where an event is tells when its message completed, the score it has or *)
(* will have is the reference's, and so will be the verdict.               *)
VerdictInv ==
  /\ ml_result.adverse_risk = held_risk
  /\ feat.valid =>
       /\ since = 1 /\ feat.slot \in Slot
       /\ ml_result.z = Score(Lanes(vector))
       /\ held_risk = Verdict(feat.slot, ml_result.z)
  /\ norm.valid =>
       /\ since = 2 /\ norm.slot \in Slot
       /\ ml_result.z = Score(norm.x)
       /\ held_risk = Verdict(norm.slot, ml_result.z)
  /\ ml.valid =>
       /\ since = 3 /\ ml.slot \in Slot
       /\ ml_result.z = ml.z
       /\ held_risk = Verdict(ml.slot, ml_result.z)
  /\ ~feat.valid /\ ~norm.valid /\ ~ml.valid => adverse_risk = held_risk

-----------------------------------------------------------------------------
(* Words. *)

LEMMA ModSmall ==
  ASSUME NEW m \in Nat \ {0}, NEW x \in 0 .. m - 1
  PROVE  x % m = x
OBVIOUS

LEMMA WordFacts ==
  /\ HALF \in Nat \ {0} /\ WORD = 2 * HALF /\ WORD \in Nat \ {0}
  /\ WINDOW \in Nat /\ 1 <= WINDOW /\ WINDOW <= WORD - 1
<1>1. PICK n \in 1 .. WORD : WORD = 2 * n
  BY PathAssumption
<1>2. WORD \div 2 = n
  BY <1>1
<1> QED
  BY <1>1, <1>2, PathAssumption DEF HALF

LEMMA SatSubType ==
  ASSUME NEW a \in Int, NEW b \in Int
  PROVE  sat_sub(a, b) \in Unsigned
BY WordFacts DEF sat_sub, Unsigned

(* A word's complement is the saturated difference's. *)
LEMMA SatAgrees ==
  ASSUME SameSizes, NEW a \in Int, NEW b \in Int
  PROVE  /\ sat_sub(a, b) = sat_signed32(a - b) % WORD
         /\ sat_signed32(a - b) \in -HALF .. HALF - 1
         /\ Absolute(sat_signed32(a - b)) \in 0 .. HALF
         /\ Absolute(sat_signed32(a - b))
              = IF sat_sub(a, b) >= HALF THEN WORD - sat_sub(a, b) ELSE sat_sub(a, b)
<1> DEFINE d == a - b
           x == sat_signed32(d)
<1>1. /\ RAW_SIGNED_MIN = -HALF /\ RAW_SIGNED_MAX = HALF - 1
  BY DEF SameSizes, RAW_SIGNED_MIN, RAW_SIGNED_MAX, HALF
<1>2. x = IF d > HALF - 1 THEN HALF - 1 ELSE IF d < -HALF THEN -HALF ELSE d
  BY <1>1, WordFacts DEF sat_signed32, Most, Least
<1>3. d \in Int
  OBVIOUS
<1>4. sat_sub(a, b) = IF d > HALF - 1 THEN HALF - 1 ELSE IF d < -HALF THEN HALF ELSE d % WORD
  BY DEF sat_sub
<1> HIDE DEF d, x
<1>5. x \in -HALF .. HALF - 1
  BY <1>2, <1>3, WordFacts
<1>6. x >= 0 => x % WORD = x
  BY <1>5, WordFacts, ModSmall
<1>7. x < 0 => x % WORD = x + WORD
  BY <1>5, WordFacts
<1>8. sat_sub(a, b) = x % WORD
  BY <1>2, <1>3, <1>4, <1>5, <1>6, <1>7, WordFacts
<1>9. /\ Absolute(x) \in 0 .. HALF
      /\ Absolute(x) = IF x % WORD >= HALF THEN WORD - (x % WORD) ELSE x % WORD
  BY <1>5, <1>6, <1>7, WordFacts DEF Absolute
<1> QED
  BY <1>5, <1>8, <1>9 DEF x, d

-----------------------------------------------------------------------------
(* Windows. *)

(* The last n entries of a sequence, counted from its end. *)
LEMMA NewestFacts ==
  ASSUME NEW E, NEW w \in Seq(E), NEW n \in Nat \ {0}
  PROVE  /\ Newest(n, w) \in Seq(E)
         /\ Len(Newest(n, w)) = Least(Len(w), n)
         /\ \A k \in 1 .. Len(Newest(n, w)) :
              Newest(n, w)[Len(Newest(n, w)) + 1 - k] = w[Len(w) + 1 - k]
<1> DEFINE first == Most(1, Len(w) - n + 1)
           N == Newest(n, w)
<1>1. Len(w) \in Nat
  OBVIOUS
<1>2. first \in 1 .. Len(w) + 1 /\ Len(w) - first + 1 = Least(Len(w), n)
  BY <1>1 DEF Most, Least
<1>3. N = SubSeq(w, first, Len(w))
  BY DEF Newest
<1> HIDE DEF first, N
<1>4. /\ N \in Seq(E) /\ Len(N) = Len(w) - first + 1
      /\ \A i \in 1 .. Len(N) : N[i] = w[first + i - 1]
  <2>1. \A i \in first .. Len(w) : w[i] \in E
    BY <1>1, <1>2
  <2> QED
    BY <1>1, <1>2, <1>3, <2>1
<1>5. \A k \in 1 .. Len(N) : N[Len(N) + 1 - k] = w[Len(w) + 1 - k]
  <2> TAKE k \in 1 .. Len(N)
  <2>1. /\ Len(N) + 1 - k \in 1 .. Len(N)
        /\ first + (Len(N) + 1 - k) - 1 = Len(w) + 1 - k
    BY <1>1, <1>2, <1>4
  <2> QED
    BY <1>4, <2>1
<1> QED
  BY <1>2, <1>4, <1>5 DEF N

LEMMA PushedFacts ==
  ASSUME NEW E, NEW w \in Seq(E), Len(w) <= MAX_WINDOW, NEW e \in E
  PROVE  /\ Pushed(w, e) \in Seq(E)
         /\ Len(Pushed(w, e)) <= MAX_WINDOW
         /\ Len(Pushed(w, e)) = Least(Len(w) + 1, MAX_WINDOW)
         /\ Pushed(w, e)[Len(Pushed(w, e))] = e
         /\ \A k \in 2 .. Len(Pushed(w, e)) :
              Pushed(w, e)[Len(Pushed(w, e)) + 1 - k] = w[Len(w) + 2 - k]
<1> DEFINE a == Append(w, e)
           P == Pushed(w, e)
<1>1. /\ a \in Seq(E) /\ Len(a) = Len(w) + 1 /\ Len(w) \in Nat /\ MAX_WINDOW \in Nat \ {0}
      /\ a[Len(w) + 1] = e /\ \A i \in 1 .. Len(w) : a[i] = w[i]
  BY WindowAssumption
<1> HIDE DEF a
<1>2. /\ P \in Seq(E) /\ Len(P) = Least(Len(a), MAX_WINDOW)
      /\ \A k \in 1 .. Len(P) : P[Len(P) + 1 - k] = a[Len(a) + 1 - k]
  BY <1>1, NewestFacts DEF Pushed, a
<1> HIDE DEF P
<1>3. Len(P) \in 1 .. MAX_WINDOW /\ Len(P) <= Len(w) + 1
  BY <1>1, <1>2 DEF Least
<1>4. P[Len(P)] = e
  <2>1. 1 \in 1 .. Len(P) /\ Len(P) + 1 - 1 = Len(P) /\ Len(a) + 1 - 1 = Len(w) + 1
    BY <1>1, <1>3
  <2> QED
    BY <1>1, <1>2, <2>1
<1>5. \A k \in 2 .. Len(P) : P[Len(P) + 1 - k] = w[Len(w) + 2 - k]
  <2> TAKE k \in 2 .. Len(P)
  <2>1. /\ k \in 1 .. Len(P) /\ Len(a) + 1 - k = Len(w) + 2 - k
        /\ Len(w) + 2 - k \in 1 .. Len(w)
    BY <1>1, <1>3
  <2> QED
    BY <1>1, <1>2, <2>1
<1> QED
  BY <1>1, <1>2, <1>3, <1>4, <1>5 DEF P

(* A window of registers, the newest entry first, and the end of a list    *)
(* with the newest last: as many updates, and the same sum of moves.       *)
Newer(n) == {i \in 1 .. n : i > n - WINDOW}

Shows(W, n, g) ==
  /\ n \in Nat
  /\ W \in [1 .. WINDOW -> [upd : BOOLEAN, abs : Nat]]
  /\ g \in [Newer(n) -> [upd : BOOLEAN, abs : Nat]]
  /\ \A j \in 1 .. WINDOW : W[j] = IF j <= n THEN g[n + 1 - j] ELSE NoEntry

HowMany(W) == Cardinality({j \in DOMAIN W : W[j].upd})
HowFar(W) == SumFunction([j \in DOMAIN W |-> W[j].abs])

LEMMA SameWindow ==
  ASSUME NEW W, NEW n, NEW g, Shows(W, n, g)
  PROVE  HowMany(W) = HowMany(g) /\ HowFar(W) = HowFar(g)
<1> USE DEF Shows, Newer
<1> DEFINE U == Newer(n)
           J == {j \in 1 .. WINDOW : j <= n}
           f == [j \in J |-> n + 1 - j]
<1>1. IsFiniteSet(1 .. WINDOW) /\ IsFiniteSet(1 .. n) /\ WINDOW \in Nat
  BY WordFacts, FS_Interval
<1>2. IsFiniteSet(J) /\ IsFiniteSet(U)
  BY <1>1, FS_Subset
<1>3. /\ \A j \in J : n + 1 - j \in U /\ W[j] = g[n + 1 - j]
      /\ \A i \in U : n + 1 - i \in J /\ n + 1 - (n + 1 - i) = i
  BY <1>1
<1>4. f \in Bijection(J, U)
  BY <1>3 DEF Bijection, Injection, IsInjective, Surjection
<1>5. Cardinality({j \in 1 .. WINDOW : W[j].upd}) = Cardinality({i \in U : g[i].upd})
  <2> DEFINE A == {j \in 1 .. WINDOW : W[j].upd}
             B == {i \in U : g[i].upd}
             h == [j \in A |-> n + 1 - j]
  <2>1. A \subseteq J
    BY DEF NoEntry
  <2>2. /\ \A j \in A : n + 1 - j \in B
        /\ \A i \in B : n + 1 - i \in A /\ n + 1 - (n + 1 - i) = i
    BY <1>3, <2>1
  <2>3. h \in Bijection(A, B)
    BY <2>2 DEF Bijection, Injection, IsInjective, Surjection
  <2>4. IsFiniteSet(A)
    BY <1>1, FS_Subset
  <2> HIDE DEF A, B, h
  <2>5. Cardinality(A) = Cardinality(B)
    BY <2>3, <2>4, FS_Bijection DEF ExistsBijection
  <2> QED
    BY <2>5 DEF A, B
<1>6. SumFunction([j \in 1 .. WINDOW |-> W[j].abs]) = SumFunction([i \in U |-> g[i].abs])
  <2> DEFINE a == [j \in 1 .. WINDOW |-> W[j].abs]
             b == [i \in U |-> g[i].abs]
  <2>1. /\ \A j \in 1 .. WINDOW : a[j] \in Int
        /\ \A j \in (1 .. WINDOW) \ J : a[j] = 0
        /\ \A j \in J : b[f[j]] = a[j]
        /\ \A j \in J : a[j] \in Int
    BY <1>1, <1>3 DEF NoEntry
  <2>2. SumFunction(a) = Sum(a, 1 .. WINDOW) /\ SumFunction(b) = Sum(b, U)
    BY DEF SumFunction, Sum
  <2>3. J \in SUBSET (1 .. WINDOW)
    OBVIOUS
  <2> HIDE DEF a, b, f, J
  <2>4. Sum(a, 1 .. WINDOW) = Sum(a, J)
    BY <1>1, <2>1, <2>3, SumOfSome
  <2>5. Renamed(a, J, b, U, f)
    BY <1>2, <1>4, <2>1 DEF Renamed
  <2>6. Sum(a, J) = Sum(b, U)
    BY <2>5, SumRenamed
  <2> QED
    BY <2>2, <2>4, <2>6 DEF a, b
<1>7. DOMAIN W = 1 .. WINDOW /\ DOMAIN g = U
  OBVIOUS
<1> QED
  BY <1>5, <1>6, <1>7 DEF HowMany, HowFar

-----------------------------------------------------------------------------
(* The wires of an edge. *)

Edge(m) ==
  /\ Clock(m)
  /\ \/ m = NoMessage /\ since' = Least(since + 1, SPACING)
     \/ m \in Content /\ since >= SPACING /\ since' = 1

LEMMA SomeEdge ==
  ASSUME Next
  PROVE  \E m : Edge(m)
BY DEF Next, Idle, Receive, Edge

LEMMA UpdatedType ==
  ASSUME NEW in, NEW side, NEW old \in Quote, in.price \in Unsigned, in.qty \in Unsigned
  PROVE  Updated(old, side, in) \in Quote
BY WordFacts DEF Updated, Quote

(* The lowest matching slot exists. *)
LEMMA SlotFound ==
  ASSUME NEW in, msg_applied(in)
  PROVE  filt_slot(in) \in Slot /\ in.valid
<1> DEFINE M == {s \in Slot : Matches(s, in)}
<1>1. M # {} /\ in.valid
  BY DEF msg_applied, filt_slot
<1>2. \E s \in M : \A r \in M : s <= r
  BY <1>1, SlotAssumption
<1>3. \E s \in Slot : Matches(s, in) /\ \A r \in Slot : Matches(r, in) => s <= r
  BY <1>2
<1> QED
  BY <1>1, <1>3 DEF msg_applied, filt_slot

(* A message that is applied is one that completes. *)
LEMMA Applied ==
  ASSUME TypeInv, NEW m, Edge(m), NEW b, b = BookIn(m), msg_applied(b),
         NEW s, s = filt_slot(b)
  PROVE  /\ s \in Slot /\ m \in Content /\ m # NoMessage /\ since >= SPACING /\ since' = 1
         /\ b.type \in {QUOTE, TRADE, CLEAR, HEARTBEAT}
         /\ next_bid(b) \in Quote /\ next_ask(b) \in Quote
         /\ bid' = [bid EXCEPT ![s] = next_bid(b)]
         /\ ask' = [ask EXCEPT ![s] = next_ask(b)]
         /\ bid'[s] = next_bid(b) /\ ask'[s] = next_ask(b)
<1>1. s \in Slot /\ b.valid
  BY SlotFound
<1>2. /\ m # NoMessage /\ b.type = m.type /\ b.price = m.price /\ b.qty = m.qty
  BY <1>1 DEF BookIn
<1>3. m \in Content /\ since >= SPACING /\ since' = 1
  BY <1>2 DEF Edge
<1>4. b.price \in Unsigned /\ b.qty \in Unsigned /\ b.type \in {QUOTE, TRADE, CLEAR, HEARTBEAT}
  BY <1>2, <1>3, ContentAssumption DEF Unsigned
<1>5. bid \in [Slot -> Quote] /\ ask \in [Slot -> Quote]
  BY DEF TypeInv
<1>6. next_bid(b) \in Quote /\ next_ask(b) \in Quote
  BY <1>1, <1>4, <1>5, UpdatedType DEF next_bid, next_ask
<1>7. BookStep(b)
  BY DEF Edge, Clock
<1>8. /\ bid' = [bid EXCEPT ![s] = next_bid(b)]
      /\ ask' = [ask EXCEPT ![s] = next_ask(b)]
  BY <1>7 DEF BookStep
<1> QED
  BY <1>1, <1>2, <1>3, <1>4, <1>5, <1>6, <1>8

LEMMA NotApplied ==
  ASSUME NEW m, Edge(m), ~msg_applied(BookIn(m))
  PROVE  bid' = bid /\ ask' = ask
BY DEF Edge, Clock, BookStep, bookVars

(* What the features are given. *)
WireFacts(in) ==
  /\ in.applied \in BOOLEAN /\ in.book \in BOOLEAN /\ (in.book => in.applied)
  /\ in.applied => /\ in.slot \in Slot /\ in.clear \in BOOLEAN /\ in.trade \in BOOLEAN
                   /\ in.is_bid \in BOOLEAN /\ in.bid \in Quote /\ in.ask \in Quote
                   /\ in.clear => in.book

LEMMA FeatureWires ==
  ASSUME TypeInv, NEW m, Edge(m), NEW b, b = BookIn(m), NEW in, in = FeatureIn(b)
  PROVE  /\ WireFacts(in)
         /\ in.applied = msg_applied(b) /\ in.book = book_upd_valid(b)
         /\ msg_applied(b) =>
              /\ in.slot = filt_slot(b) /\ in.clear = (b.type = CLEAR)
              /\ in.trade = (b.type = TRADE) /\ in.is_bid = (b.side = BID)
              /\ in.bid = next_bid(b) /\ in.ask = next_ask(b)
<1>1. CASE ~msg_applied(b)
  <2>1. in.applied = FALSE /\ in.book = FALSE
    BY <1>1 DEF FeatureIn
  <2>2. msg_applied(b) = FALSE /\ book_upd_valid(b) = FALSE
    BY <1>1 DEF book_upd_valid
  <2>3. WireFacts(in)
    BY <2>1, Zenon DEF WireFacts
  <2> QED
    BY <2>1, <2>2, <2>3
<1>2. CASE msg_applied(b)
  <2>1. /\ in.applied = TRUE /\ in.book = book_upd_valid(b)
        /\ in.slot = filt_slot(b) /\ in.clear = (b.type = CLEAR)
        /\ in.trade = (b.type = TRADE) /\ in.is_bid = (b.side = BID)
        /\ in.bid = next_bid(b) /\ in.ask = next_ask(b)
    BY <1>2 DEF FeatureIn
  <2>2. in.slot \in Slot /\ in.bid \in Quote /\ in.ask \in Quote
    BY <1>2, <2>1, Applied
  <2>3. in.book \in BOOLEAN /\ (in.clear => in.book)
    BY <1>2, <2>1 DEF book_upd_valid
  <2> HIDE DEF FeatureIn
  <2> QED
    BY <1>2, <2>1, <2>2, <2>3 DEF WireFacts
<1> QED
  BY <1>1, <1>2

-----------------------------------------------------------------------------
(* Type correctness. *)

LEMMA ShiftedType ==
  ASSUME TypeInv, NEW in, WireFacts(in), in.applied
  PROVE  /\ c_f1(in) \in Unsigned /\ c_absf1(in) \in 0 .. HALF
         /\ WindowShifted(in) \in [1 .. WINDOW -> HistoryEntry]
<1>1. in.bid.price \in Unsigned /\ in.ask.price \in Unsigned /\ in.slot \in Slot
  BY DEF WireFacts, Quote
<1>2. prev[in.slot].bp \in Unsigned /\ prev[in.slot].ap \in Unsigned
  BY <1>1 DEF TypeInv
<1>3. c_f1(in) \in Unsigned
  <2>1. /\ MidWord(in.bid.price, in.ask.price) \in Int
        /\ MidWord(prev[in.slot].bp, prev[in.slot].ap) \in Int
    BY <1>1, <1>2 DEF MidWord, Unsigned
  <2>2. 0 \in Unsigned
    BY WordFacts DEF Unsigned
  <2> QED
    BY <2>1, <2>2, SatSubType DEF c_f1
<1>4. c_absf1(in) \in 0 .. HALF
  BY <1>3, WordFacts DEF c_absf1, Unsigned
<1>5. ASSUME NEW j \in 1 .. WINDOW
      PROVE  (IF j = 1 THEN [upd |-> in.book, abs |-> IF in.book THEN c_absf1(in) ELSE 0]
              ELSE IF in.clear THEN NoEntry ELSE win[in.slot][j - 1]) \in HistoryEntry
  <2>1. NoEntry \in HistoryEntry
    BY WordFacts DEF NoEntry, HistoryEntry
  <2>2. j # 1 => win[in.slot][j - 1] \in HistoryEntry
    <3>1. j # 1 => j - 1 \in 1 .. WINDOW
      BY WordFacts
    <3>2. win[in.slot] \in [1 .. WINDOW -> HistoryEntry]
      BY <1>1 DEF TypeInv
    <3> QED
      BY <3>1, <3>2
  <2>3. [upd |-> in.book, abs |-> IF in.book THEN c_absf1(in) ELSE 0] \in HistoryEntry
    BY <1>4, WordFacts DEF HistoryEntry, WireFacts
  <2> QED
    BY <2>1, <2>2, <2>3
<1> QED
  BY <1>3, <1>4, <1>5 DEF WindowShifted

LEMMA FeaturesType ==
  ASSUME TypeInv, NEW in, WireFacts(in), in.applied
  PROVE  Features(in) \in [1 .. 8 -> Unsigned]
<1>1. /\ in.slot \in Slot /\ in.bid.price \in Unsigned /\ in.ask.price \in Unsigned
      /\ in.bid.qty \in Unsigned /\ in.ask.qty \in Unsigned
  BY DEF WireFacts, Quote
<1>2. /\ prev[in.slot].bq \in Unsigned /\ prev[in.slot].aq \in Unsigned
      /\ last_trade_dir[in.slot] \in Unsigned /\ 0 \in Unsigned
  <2>1. last_trade_dir[in.slot] \in {0, 1, WORD - 1}
    BY <1>1 DEF TypeInv
  <2>2. {0, 1, WORD - 1} \subseteq Unsigned
    BY WordFacts DEF Unsigned
  <2>3. prev[in.slot] \in [bp : Unsigned, bq : Unsigned, ap : Unsigned, aq : Unsigned]
    BY <1>1 DEF TypeInv
  <2> QED
    BY <2>1, <2>2, <2>3
<1>3. \A x, y \in Unsigned : sat_sub(x, y) \in Unsigned
  BY WordFacts, SatSubType DEF Unsigned
<1>4. c_f1(in) \in Unsigned /\ WindowShifted(in) \in [1 .. WINDOW -> HistoryEntry]
  BY ShiftedType
<1> DEFINE W == WindowShifted(in)
           n == Cardinality({j \in 1 .. WINDOW : W[j].upd})
<1>5. n \in Unsigned
  <2>1. IsFiniteSet(1 .. WINDOW) /\ Cardinality(1 .. WINDOW) = WINDOW
    BY WordFacts, FS_Interval
  <2> DEFINE D == {j \in 1 .. WINDOW : W[j].upd}
  <2>2. D \subseteq 1 .. WINDOW
    OBVIOUS
  <2> HIDE DEF D, W
  <2>3. IsFiniteSet(D) /\ Cardinality(D) <= WINDOW
    BY <2>1, <2>2, FS_Subset
  <2>4. Cardinality(D) \in Nat
    BY <2>3, FS_CardinalityType
  <2> QED
    BY <2>3, <2>4, WordFacts DEF D, Unsigned
<1>6. c_f7(in) \in Unsigned
  <2> DEFINE a == [j \in 1 .. WINDOW |-> W[j].abs]
  <2>1. \A j \in 1 .. WINDOW : a[j] \in Nat
    BY <1>4, WordFacts DEF HistoryEntry
  <2>2. SumFunction(a) = Sum(a, 1 .. WINDOW) /\ IsFiniteSet(1 .. WINDOW)
    BY WordFacts, FS_Interval DEF SumFunction, Sum
  <2>3. c_f7(in) = IF SumFunction(a) >= WORD THEN WORD - 1 ELSE SumFunction(a)
    BY DEF c_f7
  <2> HIDE DEF a
  <2>4. SumFunction(a) \in Nat
    BY <2>1, <2>2, SumNat
  <2> QED
    BY <2>3, <2>4, WordFacts DEF Unsigned
<1> DEFINE f1 == IF in.ask.price >= in.bid.price THEN in.ask.price - in.bid.price ELSE 0
           f3 == sat_sub(in.bid.qty, in.ask.qty)
           f4 == IF first_ev(in) THEN 0 ELSE sat_sub(in.bid.qty, prev[in.slot].bq)
           f5 == IF first_ev(in) THEN 0 ELSE sat_sub(in.ask.qty, prev[in.slot].aq)
           f7 == IF in.clear THEN 0 ELSE last_trade_dir[in.slot]
<1>7. f1 \in Unsigned
  BY <1>1, WordFacts DEF Unsigned
<1>8. f3 \in Unsigned /\ f4 \in Unsigned /\ f5 \in Unsigned /\ f7 \in Unsigned
  BY <1>1, <1>2, <1>3
<1>9. Features(in) = <<f1, c_f1(in), f3, f4, f5, n, f7, c_f7(in)>>
  BY DEF Features
<1> HIDE DEF f1, f3, f4, f5, f7, n
<1> QED
  BY <1>4, <1>5, <1>6, <1>7, <1>8, <1>9

LEMMA FeedType ==
  ASSUME TypeInv, NEW m, Edge(m)
  PROVE  /\ expected_seq' \in 0 .. SeqMod - 1 /\ seen_message' \in BOOLEAN
         /\ seq_gap' \in BOOLEAN
         /\ bid' \in [Slot -> Quote] /\ ask' \in [Slot -> Quote]
         /\ since' \in 1 .. SPACING /\ cfg' \in Config
<1>1. expected_seq' \in 0 .. SeqMod - 1
  <2>1. Seqs!ExpectedStep(SeqIn(m)) /\ SeqIn(m).seq = expected_seq + m.skew
    BY DEF Edge, Clock, Seqs!SeqStep, SeqIn
  <2>2. m.skew \in Int
    BY ContentAssumption DEF Edge, NoMessage
  <2>3. expected_seq \in 0 .. SeqMod - 1 /\ SeqMod \in Nat \ {0}
    BY PathAssumption DEF TypeInv
  <2> DEFINE q == SeqIn(m).seq + 1
  <2>4. q \in Int
    BY <2>1, <2>2, <2>3
  <2> HIDE DEF q
  <2>5. q % SeqMod \in 0 .. SeqMod - 1
    BY <2>3, <2>4
  <2> QED
    BY <2>1, <2>3, <2>5 DEF Seqs!ExpectedStep, q
<1>2. seen_message' \in BOOLEAN
  <2>1. seen_message' = (seen_message \/ SeqIn(m).complete)
    BY DEF Edge, Clock, Seqs!SeqStep, Seqs!ExpectedStep
  <2> QED
    BY <2>1
<1>3. seq_gap' \in BOOLEAN
  BY DEF Edge, Clock, Seqs!SeqStep, Seqs!GapStep
<1>4. bid' \in [Slot -> Quote] /\ ask' \in [Slot -> Quote]
  <2>1. CASE msg_applied(BookIn(m))
    <3> DEFINE b == BookIn(m)
               s == filt_slot(b)
    <3>1. /\ s \in Slot /\ next_bid(b) \in Quote /\ next_ask(b) \in Quote
          /\ bid' = [bid EXCEPT ![s] = next_bid(b)]
          /\ ask' = [ask EXCEPT ![s] = next_ask(b)]
      BY <2>1, Applied
    <3>2. bid \in [Slot -> Quote] /\ ask \in [Slot -> Quote]
      BY DEF TypeInv
    <3> HIDE DEF b, s
    <3> QED
      BY <3>1, <3>2
  <2>2. CASE ~msg_applied(BookIn(m))
    BY <2>2, NotApplied DEF TypeInv
  <2> QED
    BY <2>1, <2>2
<1>5. since' \in 1 .. SPACING
  <2>1. since \in 1 .. SPACING /\ SPACING \in Nat \ {0}
    BY PathAssumption DEF TypeInv
  <2>2. since' = 1 \/ since' = Least(since + 1, SPACING)
    BY DEF Edge
  <2> QED
    BY <2>1, <2>2 DEF Least
<1>6. cfg' \in Config
  BY DEF Edge, Clock, TypeInv
<1> QED
  BY <1>1, <1>2, <1>3, <1>4, <1>5, <1>6

LEMMA ExtractorType ==
  ASSUME TypeInv, NEW in, WireFacts(in), ExtractorStep(in)
  PROVE  /\ prev' \in [Slot -> [bp : Unsigned, bq : Unsigned, ap : Unsigned, aq : Unsigned]]
         /\ last_trade_dir' \in [Slot -> {0, 1, WORD - 1}]
         /\ seen_first' \in [Slot -> BOOLEAN]
         /\ win' \in [Slot -> [1 .. WINDOW -> HistoryEntry]]
         /\ feat' \in [valid : BOOLEAN, slot : Slot \cup {0}, f : [1 .. 8 -> Unsigned]]
<1>1. /\ prev \in [Slot -> [bp : Unsigned, bq : Unsigned, ap : Unsigned, aq : Unsigned]]
      /\ last_trade_dir \in [Slot -> {0, 1, WORD - 1}]
      /\ seen_first \in [Slot -> BOOLEAN]
      /\ win \in [Slot -> [1 .. WINDOW -> HistoryEntry]]
      /\ feat \in [valid : BOOLEAN, slot : Slot \cup {0}, f : [1 .. 8 -> Unsigned]]
  BY DEF TypeInv
<1>2. feat' \in [valid : BOOLEAN, slot : Slot \cup {0}, f : [1 .. 8 -> Unsigned]]
  <2>1. CASE in.book
    <3>1. feat' = [valid |-> TRUE, slot |-> in.slot, f |-> Features(in)]
      BY <2>1 DEF ExtractorStep
    <3>2. in.slot \in Slot /\ Features(in) \in [1 .. 8 -> Unsigned]
      BY <2>1, FeaturesType DEF WireFacts
    <3> QED
      BY <3>1, <3>2
  <2>2. CASE ~in.book
    BY <1>1, <2>2 DEF ExtractorStep
  <2> QED
    BY <2>1, <2>2
<1>3. /\ win' \in [Slot -> [1 .. WINDOW -> HistoryEntry]]
      /\ last_trade_dir' \in [Slot -> {0, 1, WORD - 1}]
  <2>1. CASE in.applied
    <3>1. /\ win' = [win EXCEPT ![in.slot] = WindowShifted(in)]
          /\ last_trade_dir' = [last_trade_dir EXCEPT ![in.slot] = TradeDir(in)]
      BY <2>1 DEF ExtractorStep
    <3>2. in.slot \in Slot /\ WindowShifted(in) \in [1 .. WINDOW -> HistoryEntry]
      BY <2>1, ShiftedType DEF WireFacts
    <3>3. TradeDir(in) \in {0, 1, WORD - 1}
      BY <1>1, <3>2 DEF TradeDir
    <3> QED
      BY <1>1, <3>1, <3>2, <3>3
  <2>2. CASE ~in.applied
    BY <1>1, <2>2 DEF ExtractorStep
  <2> QED
    BY <2>1, <2>2
<1>4. /\ prev' \in [Slot -> [bp : Unsigned, bq : Unsigned, ap : Unsigned, aq : Unsigned]]
      /\ seen_first' \in [Slot -> BOOLEAN]
  <2>1. CASE in.book
    <3> DEFINE p == [bp |-> in.bid.price, bq |-> in.bid.qty,
                     ap |-> in.ask.price, aq |-> in.ask.qty]
    <3>1. /\ prev' = [prev EXCEPT ![in.slot] = p]
          /\ seen_first' = [seen_first EXCEPT ![in.slot] = TRUE]
      BY <2>1 DEF ExtractorStep
    <3>2. p \in [bp : Unsigned, bq : Unsigned, ap : Unsigned, aq : Unsigned]
      BY <2>1 DEF WireFacts, Quote
    <3> HIDE DEF p
    <3> QED
      BY <1>1, <3>1, <3>2
  <2>2. CASE ~in.book
    BY <1>1, <2>2 DEF ExtractorStep
  <2> QED
    BY <2>1, <2>2
<1> QED
  BY <1>2, <1>3, <1>4

LEMMA NormFacts ==
  /\ NormWord \in Nat \ {0} /\ NormWord \div 2 \in Nat \ {0}
  /\ NormWord = 2 * (NormWord \div 2) /\ ByteHalf \in Nat \ {0}
<1>1. PICK n \in 1 .. NormWord : NormWord = 2 * n
  BY LaneAssumption
<1>2. NormWord \div 2 = n
  BY <1>1
<1> QED
  BY <1>1, <1>2, LaneAssumption

LEMMA SignedType ==
  ASSUME NEW x \in Int
  PROVE  AsSigned(x) \in Int /\ AsSigned(x % NormWord) \in Int
BY NormFacts DEF AsSigned

LEMMA LaneType ==
  ASSUME NEW x \in Int, NEW offset \in Int, NEW scale \in Nat \ {0}
  PROVE  /\ norm8(x, offset, scale) \in -ByteHalf .. ByteHalf - 1
         /\ Lane(x, offset, scale) \in -ByteHalf .. ByteHalf - 1
<1>1. norm8(x, offset, scale) \in -ByteHalf .. ByteHalf - 1
  <2> DEFINE d == AsSigned(x) - AsSigned(offset)
             diff == AsSigned(d % NormWord)
             shifted == diff \div scale
  <2>1. d \in Int
    BY SignedType
  <2> HIDE DEF d
  <2>2. diff \in Int
    BY <2>1, SignedType
  <2> HIDE DEF diff
  <2>3. shifted \in Int
    BY <2>2
  <2>4. norm8(x, offset, scale) = IF shifted > ByteHalf - 1 THEN ByteHalf - 1
                                  ELSE IF shifted < -ByteHalf THEN -ByteHalf ELSE shifted
    BY DEF norm8, diff, d
  <2> HIDE DEF shifted
  <2> QED
    BY <2>3, <2>4, NormFacts
<1>2. Lane(x, offset, scale) \in -ByteHalf .. ByteHalf - 1
  <2> DEFINE d == AsSigned(x % NormWord) - AsSigned(offset)
             shifted == d \div scale
  <2>1. d \in Int
    BY SignedType
  <2> HIDE DEF d
  <2>2. shifted \in Int
    BY <2>1
  <2>3. Lane(x, offset, scale) = IF shifted < -ByteHalf THEN -ByteHalf
                                 ELSE IF shifted > ByteHalf - 1 THEN ByteHalf - 1 ELSE shifted
    BY DEF Lane, d
  <2> HIDE DEF shifted
  <2> QED
    BY <2>2, <2>3, NormFacts
<1> QED
  BY <1>1, <1>2

LEMMA ConfigFacts ==
  ASSUME TypeInv
  PROVE  /\ \A i \in 1 .. 8 : cfg.offset[i] \in Int /\ cfg.scale[i] \in Nat \ {0}
         /\ cfg.ml_th_high \in Int /\ cfg.ml_th_low \in Int
<1>1. cfg \in Config
  BY DEF TypeInv
<1> QED
  BY <1>1, ConfigAssumption, NormFacts

LEMMA BranchType ==
  ASSUME TypeInv, NEW m, Edge(m)
  PROVE  /\ norm' \in [valid : BOOLEAN, slot : Slot \cup {0},
                       x : [1 .. 8 -> -ByteHalf .. ByteHalf - 1]]
         /\ ml' \in [valid : BOOLEAN, slot : Slot \cup {0}, z : Int]
         /\ adverse_risk' \in BOOLEAN
<1>1. norm' \in [valid : BOOLEAN, slot : Slot \cup {0},
                 x : [1 .. 8 -> -ByteHalf .. ByteHalf - 1]]
  <2>1. feat \in [valid : BOOLEAN, slot : Slot \cup {0}, f : [1 .. 8 -> Unsigned]]
    BY DEF TypeInv
  <2> DEFINE x == [i \in 1 .. 8 |-> norm8(feat.f[i], cfg.offset[i], cfg.scale[i])]
  <2>2. norm' = [valid |-> feat.valid, slot |-> feat.slot, x |-> x]
    BY PathAssumption DEF Edge, Clock, NormalizerStep
  <2>3. \A i \in 1 .. 8 : feat.f[i] \in Int
    BY <2>1, WordFacts DEF Unsigned
  <2>4. x \in [1 .. 8 -> -ByteHalf .. ByteHalf - 1]
    BY <2>3, ConfigFacts, LaneType
  <2> HIDE DEF x
  <2> QED
    BY <2>1, <2>2, <2>4
<1>2. ml' \in [valid : BOOLEAN, slot : Slot \cup {0}, z : Int]
  <2>1. norm \in [valid : BOOLEAN, slot : Slot \cup {0},
                  x : [1 .. 8 -> -ByteHalf .. ByteHalf - 1]]
    BY DEF TypeInv
  <2>2. ml' = [valid |-> norm.valid, slot |-> norm.slot, z |-> z_c]
    BY DEF Edge, Clock, ClassifierStep
  <2> DEFINE a == [i \in DOMAIN w_mem |-> w_mem[i] * norm.x[i]]
  <2>3. \A i \in 1 .. 8 : a[i] \in Int
    <3> TAKE i \in 1 .. 8
    <3>1. w_mem[i] \in Int /\ norm.x[i] \in Int /\ i \in DOMAIN w_mem
      BY <2>1, LaneAssumption, PathAssumption, NormFacts
    <3> QED
      BY <3>1
  <2>4. z_c = bias_mem + Sum(a, 1 .. 8)
    BY PathAssumption DEF z_c, SumFunction, Sum
  <2> HIDE DEF a
  <2>5. Sum(a, 1 .. 8) \in Int
    <3>1. IsFiniteSet(1 .. 8)
      <4>1. \A n \in Nat : IsFiniteSet(1 .. n)
        BY FS_Interval
      <4> QED
        BY <4>1
    <3> QED
      BY <2>3, <3>1, SumInt
  <2>6. z_c \in Int
    BY <2>4, <2>5, LaneAssumption
  <2> QED
    BY <2>1, <2>2, <2>6
<1>3. adverse_risk' \in BOOLEAN
  <2>1. PolicyStep(PolicyIn)
    BY DEF Edge, Clock
  <2>2. adverse_risk' = adverse_risk \/ adverse_risk' = Adverse(PolicyIn)
    BY <2>1, Zenon DEF PolicyStep
  <2>3. Adverse(PolicyIn) \in BOOLEAN
    BY DEF Adverse
  <2> QED
    BY <2>2, <2>3 DEF TypeInv
<1> QED
  BY <1>1, <1>2, <1>3

-----------------------------------------------------------------------------
(* The calls of the references. *)

(* What a book event of symbol s looks back on, and how far the mid moves. *)
Before(s, is_clear) == IF is_clear THEN Unseen ELSE states[s]

Change(st, now, before) ==
  IF st.seen_first_event THEN sat_signed32(now - before) ELSE 0

Move(st, b, a) ==
  Change(st, (b.price + a.price) \div 2, (st.prev_bid + st.prev_ask) \div 2)

After(st, b, a) ==
  Pushed(st.window, [is_update |-> TRUE, delta |-> Absolute(Move(st, b, a))])

LEMMA BookCall ==
  ASSUME NEW s, NEW c, NEW b, NEW a, on_book_event(s, c, b, a), NEW st, st = Before(s, c)
  PROVE  /\ vector' = <<sat_unsigned32(a.price - b.price), Move(st, b, a),
                        sat_signed32(b.qty - a.qty), Change(st, b.qty, st.prev_bid_qty),
                        Change(st, a.qty, st.prev_ask_qty),
                        Updates(active_window(After(st, b, a))), st.last_trade_dir,
                        sat_unsigned32(Volatility(active_window(After(st, b, a))))>>
         /\ states' = [states EXCEPT ![s] =
                         [prev_bid |-> b.price, prev_ask |-> a.price,
                          prev_bid_qty |-> b.qty, prev_ask_qty |-> a.qty,
                          last_trade_dir |-> st.last_trade_dir, window |-> After(st, b, a),
                          seen_first_event |-> TRUE]]
BY DEF on_book_event, Before, Change, Move, After

LEMMA ReferenceWord ==
  Word \in Nat \ {0} /\ Word \div 2 \in Nat \ {0} /\ Word = 2 * (Word \div 2)
<1>1. PICK n \in 1 .. Word : Word = 2 * n
  BY WindowAssumption
<1>2. Word \div 2 = n
  BY <1>1
<1> QED
  BY <1>1, <1>2

LEMMA SaturatedType ==
  ASSUME NEW x \in Int
  PROVE  /\ sat_signed32(x) \in Int /\ Absolute(sat_signed32(x)) \in 0 .. Word \div 2
         /\ sat_unsigned32(x) \in Int
BY ReferenceWord DEF sat_signed32, sat_unsigned32, Absolute, Most, Least,
   RAW_SIGNED_MIN, RAW_SIGNED_MAX, RAW_UNSIGNED_MAX

LEMMA UnseenType == Unseen \in Tracker /\ Len(Unseen.window) <= MAX_WINDOW
<1>1. <<>> \in Seq(Entry) /\ Len(<<>>) = 0 /\ 0 \in Unsigned
  BY WordFacts DEF Unsigned
<1> QED
  BY <1>1, WindowAssumption DEF Unseen, Tracker

LEMMA BeforeType ==
  ASSUME TypeInv, NEW s \in Slot, NEW c \in BOOLEAN
  PROVE  Before(s, c) \in Tracker /\ Len(Before(s, c).window) <= MAX_WINDOW
<1>1. states[s] \in Tracker /\ Len(states[s].window) <= MAX_WINDOW
  BY DEF TypeInv
<1> QED
  BY <1>1, UnseenType DEF Before

LEMMA MoveType ==
  ASSUME NEW st \in Tracker, NEW b \in Quote, NEW a \in Quote
  PROVE  /\ Move(st, b, a) \in Int /\ Absolute(Move(st, b, a)) \in 0 .. Word \div 2
         /\ Change(st, b.qty, st.prev_bid_qty) \in Int
         /\ Change(st, a.qty, st.prev_ask_qty) \in Int
<1>1. /\ b.price \in Int /\ a.price \in Int /\ b.qty \in Int /\ a.qty \in Int
      /\ st.prev_bid \in Int /\ st.prev_ask \in Int
      /\ st.prev_bid_qty \in Int /\ st.prev_ask_qty \in Int
  <2>1. /\ b.price \in Unsigned /\ a.price \in Unsigned
        /\ b.qty \in Unsigned /\ a.qty \in Unsigned
    BY DEF Quote
  <2>2. /\ st.prev_bid \in Unsigned /\ st.prev_ask \in Unsigned
        /\ st.prev_bid_qty \in Unsigned /\ st.prev_ask_qty \in Unsigned
    BY DEF Tracker
  <2> QED
    BY <2>1, <2>2 DEF Unsigned
<1>2. \A x, y \in Int : /\ Change(st, x, y) \in Int
                        /\ Absolute(Change(st, x, y)) \in 0 .. Word \div 2
  <2> TAKE x \in Int, y \in Int
  <2>1. x - y \in Int /\ 0 \in 0 .. Word \div 2 /\ Absolute(0) = 0
    BY ReferenceWord DEF Absolute
  <2> QED
    BY <2>1, SaturatedType DEF Change
<1>3. (b.price + a.price) \div 2 \in Int /\ (st.prev_bid + st.prev_ask) \div 2 \in Int
  BY <1>1
<1> QED
  BY <1>1, <1>2, <1>3 DEF Move

LEMMA AfterType ==
  ASSUME NEW st \in Tracker, Len(st.window) <= MAX_WINDOW, NEW b \in Quote, NEW a \in Quote
  PROVE  After(st, b, a) \in Seq(Entry) /\ Len(After(st, b, a)) <= MAX_WINDOW
<1>1. [is_update |-> TRUE, delta |-> Absolute(Move(st, b, a))] \in Entry
  BY MoveType DEF Entry
<1>2. st.window \in Seq(Entry)
  BY DEF Tracker
<1> QED
  BY <1>1, <1>2, PushedFacts DEF After

LEMMA ActiveType ==
  ASSUME NEW w \in Seq(Entry)
  PROVE  /\ active_window(w) \in Seq(Entry)
         /\ Updates(active_window(w)) \in Nat /\ Volatility(active_window(w)) \in Nat
<1> DEFINE A == active_window(w)
           D == {i \in DOMAIN A : A[i].is_update}
           a == [i \in DOMAIN A |-> A[i].delta]
<1>1. A \in Seq(Entry)
  BY WindowAssumption, NewestFacts DEF active_window
<1>2. DOMAIN A = 1 .. Len(A) /\ Len(A) \in Nat /\ \A i \in 1 .. Len(A) : A[i] \in Entry
  BY <1>1
<1>3. IsFiniteSet(DOMAIN A)
  BY <1>2, FS_Interval
<1>4. Updates(A) = Cardinality(D) /\ Volatility(A) = Sum(a, DOMAIN A)
  BY DEF Updates, Volatility, SumFunction, Sum
<1>5. D \subseteq DOMAIN A /\ \A i \in DOMAIN A : a[i] \in Nat
  BY <1>2, ReferenceWord DEF Entry
<1> HIDE DEF A, D, a
<1> QED
  BY <1>1, <1>3, <1>4, <1>5, FS_Subset, FS_CardinalityType, SumNat DEF A

LEMMA TrackerType ==
  ASSUME TypeInv, NEW m, Edge(m)
  PROVE  /\ states' \in [Slot -> Tracker]
         /\ \A s \in Slot : Len(states'[s].window) <= MAX_WINDOW
         /\ vector' = vector \/ vector' \in [1 .. 8 -> Int]
         /\ book_upd_valid(BookIn(m)) => vector' \in [1 .. 8 -> Int]
<1> DEFINE b == BookIn(m)
           s == filt_slot(b)
<1>1. References(b)
  BY DEF Edge, Clock
<1>2. /\ states \in [Slot -> Tracker]
      /\ \A r \in Slot : Len(states[r].window) <= MAX_WINDOW
  BY DEF TypeInv
<1>3. CASE ~msg_applied(b)
  BY <1>1, <1>2, <1>3 DEF References, featureVars, book_upd_valid
<1>4. CASE msg_applied(b) /\ book_upd_valid(b)
  <2> DEFINE c == b.type = CLEAR
             st == Before(s, c)
             p == next_bid(b)
             q == next_ask(b)
             W == After(st, p, q)
  <2>1. s \in Slot /\ p \in Quote /\ q \in Quote
    BY <1>4, Applied
  <2>2. on_book_event(s, c, p, q)
    BY <1>1, <1>4 DEF References
  <2>3. st \in Tracker /\ Len(st.window) <= MAX_WINDOW
    BY <2>1, BeforeType
  <2> HIDE DEF b, s, c, st, p, q
  <2>4. W \in Seq(Entry) /\ Len(W) <= MAX_WINDOW
    BY <2>1, <2>3, AfterType
  <2>5. /\ Move(st, p, q) \in Int /\ Change(st, p.qty, st.prev_bid_qty) \in Int
        /\ Change(st, q.qty, st.prev_ask_qty) \in Int
    BY <2>1, <2>3, MoveType
  <2>6. Updates(active_window(W)) \in Int /\ sat_unsigned32(Volatility(active_window(W))) \in Int
    <3>1. Updates(active_window(W)) \in Int /\ Volatility(active_window(W)) \in Int
      BY <2>4, ActiveType
    <3> QED
      BY <3>1, SaturatedType
  <2>7. sat_unsigned32(q.price - p.price) \in Int /\ sat_signed32(p.qty - q.qty) \in Int
    <3>1. q.price - p.price \in Int /\ p.qty - q.qty \in Int
      BY <2>1, WordFacts DEF Quote, Unsigned
    <3> QED
      BY <3>1, SaturatedType
  <2>8. st.last_trade_dir \in Int
    BY <2>3 DEF Tracker
  <2> DEFINE new == [prev_bid |-> p.price, prev_ask |-> q.price,
                     prev_bid_qty |-> p.qty, prev_ask_qty |-> q.qty,
                     last_trade_dir |-> st.last_trade_dir, window |-> W,
                     seen_first_event |-> TRUE]
  <2>9. /\ vector' = <<sat_unsigned32(q.price - p.price), Move(st, p, q),
                       sat_signed32(p.qty - q.qty), Change(st, p.qty, st.prev_bid_qty),
                       Change(st, q.qty, st.prev_ask_qty), Updates(active_window(W)),
                       st.last_trade_dir, sat_unsigned32(Volatility(active_window(W)))>>
        /\ states' = [states EXCEPT ![s] = new]
    BY <2>2, BookCall DEF st
  <2>10. new \in Tracker /\ new.window = W
    BY <2>1, <2>3, <2>4 DEF Tracker, Quote
  <2> HIDE DEF W, new
  <2>11. vector' \in [1 .. 8 -> Int]
    BY <2>5, <2>6, <2>7, <2>8, <2>9
  <2>12. /\ states' \in [Slot -> Tracker]
         /\ \A r \in Slot : Len(states'[r].window) <= MAX_WINDOW
    BY <1>2, <2>1, <2>4, <2>9, <2>10
  <2> QED
    BY <2>11, <2>12
<1>5. CASE msg_applied(b) /\ ~book_upd_valid(b)
  <2> DEFINE old == states[s]
             W == Pushed(old.window, Passive)
  <2>1. s \in Slot
    BY <1>5, Applied
  <2>2. old \in Tracker /\ Len(old.window) <= MAX_WINDOW
    BY <1>2, <2>1
  <2>3. Passive \in Entry
    BY ReferenceWord DEF Passive, Entry
  <2>4. W \in Seq(Entry) /\ Len(W) <= MAX_WINDOW
    <3>1. old.window \in Seq(Entry)
      BY <2>2 DEF Tracker
    <3> QED
      BY <2>2, <2>3, <3>1, PushedFacts
  <2>5. PICK d \in {-1, 0, 1} :
           states' = [states EXCEPT ![s] = [old EXCEPT !.last_trade_dir = d, !.window = W]]
    <3>1. CASE b.type = TRADE
      <4>1. on_trade(s, b.side = BID)
        BY <1>1, <1>5, <3>1 DEF References
      <4>2. states' = [states EXCEPT ![s].last_trade_dir = IF b.side = BID THEN 1 ELSE -1,
                                     ![s].window = Pushed(@, Passive)]
        BY <4>1 DEF on_trade
      <4>3. states' = [states EXCEPT ![s] = [old EXCEPT !.last_trade_dir =
                                               IF b.side = BID THEN 1 ELSE -1, !.window = W]]
        BY <1>2, <2>1, <4>2 DEF Tracker
      <4> QED
        BY <4>3
    <3>2. CASE b.type # TRADE
      <4>1. on_heartbeat(s)
        BY <1>1, <1>5, <3>2 DEF References
      <4>2. states' = [states EXCEPT ![s].window = W]
        BY <4>1 DEF on_heartbeat
      <4>3. [old EXCEPT !.last_trade_dir = old.last_trade_dir, !.window = W]
              = [old EXCEPT !.window = W]
        BY <2>2 DEF Tracker
      <4>4. old.last_trade_dir \in {-1, 0, 1}
        BY <2>2 DEF Tracker
      <4> QED
        BY <4>2, <4>3, <4>4
    <3> QED
      BY <3>1, <3>2
  <2>6. vector' = vector
    BY <1>1, <1>5 DEF References, on_trade, on_heartbeat
  <2> DEFINE new == [old EXCEPT !.last_trade_dir = d, !.window = W]
  <2>7. new \in Tracker /\ new.window = W
    BY <2>2, <2>4 DEF Tracker
  <2> HIDE DEF new, W, s, old
  <2>8. /\ states' \in [Slot -> Tracker]
        /\ \A r \in Slot : Len(states'[r].window) <= MAX_WINDOW
    BY <1>2, <2>1, <2>4, <2>5, <2>7 DEF new
  <2> QED
    BY <1>5, <2>6, <2>8
<1> QED
  BY <1>3, <1>4, <1>5

LEMMA ScoreType ==
  ASSUME NEW x, \A i \in 1 .. 8 : x[i] \in Int
  PROVE  Score(x) \in Int
<1> DEFINE a == [i \in DOMAIN Weights |-> Weights[i] * x[i]]
<1>1. \A i \in 1 .. 8 : a[i] \in Int
  <2> TAKE i \in 1 .. 8
  <2>1. Weights[i] \in Int /\ i \in DOMAIN Weights
    BY ScoreAssumption, PathAssumption
  <2> QED
    BY <2>1
<1>2. Score(x) = Bias + Sum(a, 1 .. 8)
  BY PathAssumption DEF Score, SumFunction, Sum
<1> HIDE DEF a
<1>3. IsFiniteSet(1 .. 8)
  <2>1. \A n \in Nat : IsFiniteSet(1 .. n)
    BY FS_Interval
  <2> QED
    BY <2>1
<1>4. Sum(a, 1 .. 8) \in Int
  BY <1>1, <1>3, SumInt
<1> QED
  BY <1>2, <1>4, ScoreAssumption

LEMMA LanesType ==
  ASSUME TypeInv, NEW v \in [1 .. 8 -> Int]
  PROVE  Lanes(v) \in [1 .. 8 -> -ByteHalf .. ByteHalf - 1]
<1>1. \A i \in 1 .. 8 : v[i] \in Int /\ cfg.offset[i] \in Int /\ cfg.scale[i] \in Nat \ {0}
  BY ConfigFacts
<1>2. \A i \in 1 .. 8 : Lane(v[i], cfg.offset[i], cfg.scale[i]) \in -ByteHalf .. ByteHalf - 1
  BY <1>1, LaneType
<1> QED
  BY <1>2 DEF Lanes

LEMMA RiskType ==
  ASSUME NEW z \in Int
  PROVE  RiskLevel(z) \in 0 .. MaxRisk
<1> DEFINE shifted == (z + score_offset) \div score_scale
<1>1. shifted \in Int /\ MaxRisk \in Nat
  BY ScoreAssumption
<1>2. RiskLevel(z) = IF shifted < 0 THEN 0 ELSE IF shifted > MaxRisk THEN MaxRisk ELSE shifted
  BY DEF RiskLevel
<1> HIDE DEF shifted
<1> QED
  BY <1>1, <1>2

(* What the reference is told of the book and the flag. *)
Forced(b) ==
  \/ ~next_bid(b).valid \/ ~next_ask(b).valid \/ next_crossed(b) \/ seq_gap'

Result(b, z) ==
  \/ Forced(b)
  \/ z >= cfg.ml_th_high
  \/ z > cfg.ml_th_low /\ held_risk

LEMMA Classified ==
  ASSUME TypeInv, NEW m, Edge(m), NEW b, b = BookIn(m), book_upd_valid(b),
         NEW z, z = Score(Lanes(vector'))
  PROVE  /\ z \in Int
         /\ held_risk' = Result(b, z)
         /\ ml_result' = [z |-> z, risk_level |-> RiskLevel(z),
                          adverse_risk |-> Result(b, z), safe_forced |-> Forced(b)]
<1>1. msg_applied(b)
  BY DEF book_upd_valid
<1>2. References(b)
  BY DEF Edge, Clock
<1>3. classify(Lanes(vector'), next_bid(b).valid, next_ask(b).valid, next_crossed(b),
               seq_gap', [high |-> cfg.ml_th_high, low |-> cfg.ml_th_low])
  BY <1>1, <1>2 DEF References
<1>4. vector' \in [1 .. 8 -> Int]
  BY TrackerType
<1>5. Lanes(vector') \in [1 .. 8 -> -ByteHalf .. ByteHalf - 1]
  BY <1>4, LanesType
<1>6. z \in Int
  <2>1. \A i \in 1 .. 8 : Lanes(vector')[i] \in Int
    BY <1>5, NormFacts
  <2> QED
    BY <2>1, ScoreType
<1> QED
  BY <1>3, <1>6 DEF classify, Result, Forced

LEMMA NotClassified ==
  ASSUME NEW m, Edge(m), ~book_upd_valid(BookIn(m))
  PROVE  held_risk' = held_risk /\ ml_result' = ml_result
BY DEF Edge, Clock, References, mlGoldenVars

LEMMA ReferenceType ==
  ASSUME TypeInv, NEW m, Edge(m)
  PROVE  /\ held_risk' \in BOOLEAN
         /\ ml_result' \in [z : Int, risk_level : 0 .. MaxRisk, adverse_risk : BOOLEAN,
                            safe_forced : BOOLEAN]
<1> DEFINE b == BookIn(m)
           z == Score(Lanes(vector'))
<1>1. CASE book_upd_valid(b)
  <2>1. /\ z \in Int /\ held_risk' = Result(b, z)
        /\ ml_result' = [z |-> z, risk_level |-> RiskLevel(z),
                         adverse_risk |-> Result(b, z), safe_forced |-> Forced(b)]
    BY <1>1, Classified
  <2>2. Result(b, z) \in BOOLEAN /\ Forced(b) \in BOOLEAN
    BY DEF Result, Forced
  <2>3. RiskLevel(z) \in 0 .. MaxRisk
    BY <2>1, RiskType
  <2> HIDE DEF z, b
  <2> QED
    BY <2>1, <2>2, <2>3
<1>2. CASE ~book_upd_valid(b)
  BY <1>2, NotClassified DEF TypeInv
<1> QED
  BY <1>1, <1>2

(* What a message adds to the history of its slot. *)
Event(b) ==
  [type |-> b.type, is_bid |-> b.side = BID, bid |-> next_bid(b), ask |-> next_ask(b)]

LEMMA Chronicled ==
  ASSUME TypeInv, NEW m, Edge(m), NEW b, b = BookIn(m), msg_applied(b),
         NEW s, s = filt_slot(b)
  PROVE  /\ Event(b) \in Chapter
         /\ history' = [history EXCEPT ![s] = IF b.type = CLEAR THEN <<Event(b)>>
                                              ELSE Append(history[s], Event(b))]
         /\ history'[s] = IF b.type = CLEAR THEN <<Event(b)>> ELSE Append(history[s], Event(b))
         /\ history'[s] \in Seq(Chapter)
<1>1. /\ s \in Slot /\ next_bid(b) \in Quote /\ next_ask(b) \in Quote
      /\ b.type \in {QUOTE, TRADE, CLEAR, HEARTBEAT}
      /\ bid'[s] = next_bid(b) /\ ask'[s] = next_ask(b)
  BY Applied
<1>2. Event(b) \in Chapter
  BY <1>1 DEF Event, Chapter
<1>3. history' = [history EXCEPT ![s] = IF b.type = CLEAR THEN <<Event(b)>>
                                        ELSE Append(history[s], Event(b))]
  <2>1. Chronicle(b)
    BY DEF Edge, Clock
  <2> QED
    BY <1>1, <2>1 DEF Chronicle, Event
<1>4. history \in [Slot -> Seq(Chapter)] /\ history[s] \in Seq(Chapter)
  BY <1>1 DEF TypeInv
<1> DEFINE h == IF b.type = CLEAR THEN <<Event(b)>> ELSE Append(history[s], Event(b))
<1>5. h \in Seq(Chapter)
  BY <1>2, <1>4
<1> HIDE DEF h
<1>6. history'[s] = h
  BY <1>1, <1>3, <1>4 DEF h
<1> QED
  BY <1>2, <1>3, <1>5, <1>6 DEF h

LEMMA HistoryType ==
  ASSUME TypeInv, NEW m, Edge(m)
  PROVE  history' \in [Slot -> Seq(Chapter)]
<1>1. history \in [Slot -> Seq(Chapter)]
  BY DEF TypeInv
<1> DEFINE b == BookIn(m)
           s == filt_slot(b)
<1>2. CASE msg_applied(b)
  <2>1. s \in Slot
    BY <1>2, Applied
  <2> DEFINE h == IF b.type = CLEAR THEN <<Event(b)>> ELSE Append(history[s], Event(b))
  <2>2. history' = [history EXCEPT ![s] = h] /\ history'[s] \in Seq(Chapter)
    BY <1>2, Chronicled
  <2> HIDE DEF s, h
  <2> QED
    BY <1>1, <2>1, <2>2
<1>3. CASE ~msg_applied(b)
  <2>1. Chronicle(b)
    BY DEF Edge, Clock
  <2> QED
    BY <1>1, <1>3, <2>1 DEF Chronicle
<1> QED
  BY <1>2, <1>3

LEMMA TypeStep ==
  ASSUME TypeInv, NEW m, Edge(m)
  PROVE  TypeInv'
<1>1. WireFacts(FeatureIn(BookIn(m)))
  BY FeatureWires
<1>2. ExtractorStep(FeatureIn(BookIn(m)))
  BY DEF Edge, Clock
<1>3. /\ prev' \in [Slot -> [bp : Unsigned, bq : Unsigned, ap : Unsigned, aq : Unsigned]]
      /\ last_trade_dir' \in [Slot -> {0, 1, WORD - 1}]
      /\ seen_first' \in [Slot -> BOOLEAN]
      /\ win' \in [Slot -> [1 .. WINDOW -> HistoryEntry]]
      /\ feat' \in [valid : BOOLEAN, slot : Slot \cup {0}, f : [1 .. 8 -> Unsigned]]
  BY <1>1, <1>2, ExtractorType
<1> QED
  BY <1>3, FeedType, BranchType, TrackerType, ReferenceType, HistoryType DEF TypeInv

LEMMA TypeInit == Init => TypeInv
<1> SUFFICES ASSUME Init PROVE TypeInv
  OBVIOUS
<1>1. 0 \in Unsigned /\ 0 \in 0 .. HALF
  BY WordFacts DEF Unsigned
<1>2. bid \in [Slot -> Quote] /\ ask \in [Slot -> Quote]
  BY <1>1 DEF Init, BookReset, NoQuote, Quote
<1>3. /\ prev \in [Slot -> [bp : Unsigned, bq : Unsigned, ap : Unsigned, aq : Unsigned]]
      /\ last_trade_dir \in [Slot -> {0, 1, WORD - 1}]
      /\ seen_first \in [Slot -> BOOLEAN]
      /\ win \in [Slot -> [1 .. WINDOW -> HistoryEntry]]
  BY <1>1, PathAssumption DEF Init, ExtractorReset, NoEntry, HistoryEntry
<1>4. feat \in [valid : BOOLEAN, slot : Slot \cup {0}, f : [1 .. 8 -> Unsigned]]
  BY <1>1 DEF Init, ExtractorReset
<1>5. /\ norm \in [valid : BOOLEAN, slot : Slot \cup {0},
                   x : [1 .. 8 -> -ByteHalf .. ByteHalf - 1]]
      /\ ml \in [valid : BOOLEAN, slot : Slot \cup {0}, z : Int]
  <2>1. 0 \in -ByteHalf .. ByteHalf - 1
    BY NormFacts
  <2> QED
    BY <2>1, PathAssumption DEF Init, ClassifierReset
<1>6. /\ adverse_risk \in BOOLEAN /\ held_risk \in BOOLEAN
      /\ ml_result \in [z : Int, risk_level : 0 .. MaxRisk, adverse_risk : BOOLEAN,
                        safe_forced : BOOLEAN]
  <2>1. 0 \in 0 .. MaxRisk
    BY ScoreAssumption
  <2> QED
    <3>1. adverse_risk = FALSE /\ held_risk = FALSE
      BY DEF Init, MlReset, MlGoldenInit
    <3>2. ml_result = [z |-> 0, risk_level |-> 0, adverse_risk |-> FALSE,
                       safe_forced |-> FALSE]
      BY DEF Init, MlGoldenInit
    <3>3. FALSE \in BOOLEAN /\ 0 \in Int
      OBVIOUS
    <3> QED
      BY <2>1, <3>1, <3>2, <3>3
<1>7. /\ states \in [Slot -> Tracker]
      /\ \A s \in Slot : Len(states[s].window) <= MAX_WINDOW
  BY UnseenType, PathAssumption DEF Init, FeatureInit
<1>8. history \in [Slot -> Seq(Chapter)]
  <2>1. <<>> \in Seq(Chapter)
    OBVIOUS
  <2> QED
    BY <2>1 DEF Init
<1>9. /\ expected_seq \in 0 .. SeqMod - 1 /\ seen_message \in BOOLEAN /\ seq_gap \in BOOLEAN
      /\ cfg \in Config /\ since \in 1 .. SPACING
  <2>1. 0 \in 0 .. SeqMod - 1 /\ SPACING \in 1 .. SPACING
    BY PathAssumption
  <2>2. expected_seq = 0 /\ seen_message = FALSE /\ seq_gap = FALSE
    BY DEF Init, Seqs!SeqReset
  <2> QED
    BY <2>1, <2>2 DEF Init
<1> QED
  BY <1>2, <1>3, <1>4, <1>5, <1>6, <1>7, <1>8, <1>9 DEF TypeInv

LEMMA TypeCorrect == Spec => []TypeInv
<1>1. Init => TypeInv
  BY TypeInit
<1>2. TypeInv /\ [Next]_vars => TypeInv'
  <2> SUFFICES ASSUME TypeInv, [Next]_vars PROVE TypeInv'
    OBVIOUS
  <2>1. CASE Next
    BY <2>1, SomeEdge, TypeStep
  <2>2. CASE UNCHANGED vars
    <3>1. /\ UNCHANGED <<expected_seq, seen_message, seq_gap, bid, ask, prev,
                         last_trade_dir, seen_first, win, feat>>
          /\ UNCHANGED <<norm, ml, adverse_risk, held_risk, ml_result, states, cfg,
                         since, history>>
      BY <2>2 DEF vars, sequenceVars, bookVars, extractorVars, classifierVars,
         mlVars, featureVars, mlGoldenVars
    <3>2. /\ (bid \in [Slot -> Quote] /\ ask \in [Slot -> Quote])'
          /\ (states \in [Slot -> Tracker])'
          /\ (\A s \in Slot : Len(states[s].window) <= MAX_WINDOW)'
          /\ (history \in [Slot -> Seq(Chapter)])'
      BY <3>1 DEF TypeInv
    <3>3. /\ (prev \in [Slot -> [bp : Unsigned, bq : Unsigned, ap : Unsigned, aq : Unsigned]])'
          /\ (last_trade_dir \in [Slot -> {0, 1, WORD - 1}])'
          /\ (seen_first \in [Slot -> BOOLEAN])'
          /\ (win \in [Slot -> [1 .. WINDOW -> HistoryEntry]])'
      BY <3>1 DEF TypeInv
    <3>4. /\ (feat \in [valid : BOOLEAN, slot : Slot \cup {0}, f : [1 .. 8 -> Unsigned]])'
          /\ (norm \in [valid : BOOLEAN, slot : Slot \cup {0},
                        x : [1 .. 8 -> -ByteHalf .. ByteHalf - 1]])'
          /\ (ml \in [valid : BOOLEAN, slot : Slot \cup {0}, z : Int])'
      BY <3>1 DEF TypeInv
    <3>5. (ml_result \in [z : Int, risk_level : 0 .. MaxRisk, adverse_risk : BOOLEAN,
                          safe_forced : BOOLEAN])'
      BY <3>1 DEF TypeInv
    <3> QED
      BY <3>1, <3>2, <3>3, <3>4, <3>5 DEF TypeInv
  <2> QED
    BY <2>1, <2>2
<1> QED
  BY <1>1, <1>2, PTL DEF Spec

(* Every register of the branch and what its references remember keep to   *)
(* their ranges: feature_extractor.v saturates, feature_normalizer.v fits  *)
(* its bytes, feature_golden.py's history never exceeds MAX_WINDOW.        *)
THEOREM TypeSafe == Spec => []TypeOK
<1>1. TypeInv => TypeOK
  <2> SUFFICES ASSUME TypeInv PROVE TypeOK
    OBVIOUS
  <2>1. \A i \in 1 .. 8 : feat.f[i] \in Unsigned
    BY DEF TypeInv
  <2>2. \A i \in 1 .. 8 : norm.x[i] \in -ByteHalf .. ByteHalf - 1
    BY DEF TypeInv
  <2>3. ml_result.risk_level \in 0 .. MaxRisk
    BY DEF TypeInv
  <2> QED
    BY <2>1, <2>2, <2>3, PathAssumption DEF TypeInv, TypeOK
<1> QED
  BY <1>1, TypeCorrect, PTL

-----------------------------------------------------------------------------
(* Features and their reference. *)

LEMMA SizeFacts ==
  ASSUME SameSizes
  PROVE  /\ Word \div 2 = HALF /\ window = WINDOW
         /\ WINDOW <= MAX_WINDOW /\ MAX_WINDOW \in Nat \ {0} /\ WINDOW \in Nat \ {0}
BY WindowAssumption, WordFacts DEF SameSizes, HALF

(* An entry pushed on the list comes first in the window. *)
LEMMA PushedListed ==
  ASSUME SameSizes, NEW w \in Seq(Entry), Len(w) <= MAX_WINDOW, NEW e \in Entry,
         NEW j \in 1 .. WINDOW
  PROVE  Listed(Pushed(w, e), j)
           = IF j = 1 THEN [upd |-> e.is_update, abs |-> e.delta] ELSE Listed(w, j - 1)
<1> DEFINE P == Pushed(w, e)
<1>1. /\ Len(P) = Least(Len(w) + 1, MAX_WINDOW) /\ P[Len(P)] = e
      /\ \A k \in 2 .. Len(P) : P[Len(P) + 1 - k] = w[Len(w) + 2 - k]
  <2>1. /\ Len(Pushed(w, e)) = Least(Len(w) + 1, MAX_WINDOW)
        /\ Pushed(w, e)[Len(Pushed(w, e))] = e
    BY PushedFacts
  <2>2. \A k \in 2 .. Len(Pushed(w, e)) :
          Pushed(w, e)[Len(Pushed(w, e)) + 1 - k] = w[Len(w) + 2 - k]
    BY PushedFacts
  <2> QED
    BY <2>1, <2>2
<1>2. Len(w) \in Nat
  OBVIOUS
<1> HIDE DEF P
<1>3. Len(P) \in Nat /\ (j <= Len(P) <=> j - 1 <= Len(w)) /\ 1 <= Len(P)
  BY <1>1, <1>2, SizeFacts DEF Least
<1>4. CASE j = 1
  <2>1. Len(P) + 1 - j = Len(P)
    BY <1>3, <1>4
  <2> QED
    BY <1>1, <1>3, <1>4, <2>1 DEF Listed, P
<1>5. CASE j # 1 /\ j <= Len(P)
  <2>1. P[Len(P) + 1 - j] = w[Len(w) + 1 - (j - 1)]
    <3>1. j \in 2 .. Len(P) /\ Len(w) + 2 - j = Len(w) + 1 - (j - 1)
      BY <1>2, <1>3, <1>5, SizeFacts
    <3> QED
      BY <1>1, <3>1
  <2> QED
    BY <1>3, <1>5, <2>1 DEF Listed, P
<1>6. CASE j # 1 /\ ~(j <= Len(P))
  BY <1>3, <1>6 DEF Listed, P
<1> QED
  BY <1>4, <1>5, <1>6

(* The window of registers counts and sums what the list's end does. *)
LEMMA ActiveAgrees ==
  ASSUME SameSizes, NEW w \in Seq(Entry), NEW W \in [1 .. WINDOW -> HistoryEntry],
         \A j \in 1 .. WINDOW : W[j] = Listed(w, j)
  PROVE  HowMany(W) = Updates(active_window(w)) /\ HowFar(W) = Volatility(active_window(w))
<1> DEFINE A == active_window(w)
           n == Len(A)
           U == Newer(n)
           g == [i \in U |-> [upd |-> A[i].is_update, abs |-> A[i].delta]]
<1>1. /\ A \in Seq(Entry) /\ n = Least(Len(w), WINDOW)
      /\ \A k \in 1 .. n : A[n + 1 - k] = w[Len(w) + 1 - k]
  BY SizeFacts, NewestFacts DEF active_window
<1>2. Len(w) \in Nat
  OBVIOUS
<1>3. DOMAIN A = 1 .. n /\ \A i \in 1 .. n : A[i] \in Entry
  BY <1>1
<1> HIDE DEF A
<1>4. n \in Nat /\ n <= WINDOW
  BY <1>1, <1>2, SizeFacts DEF Least
<1> HIDE DEF n
<1>5. U = 1 .. n
  BY <1>4, SizeFacts DEF Newer
<1>6. g \in [U -> [upd : BOOLEAN, abs : Nat]]
  BY <1>3, <1>5, SizeFacts, WordFacts DEF Entry
<1>7. W \in [1 .. WINDOW -> [upd : BOOLEAN, abs : Nat]]
  BY WordFacts DEF HistoryEntry
<1>8. ASSUME NEW j \in 1 .. WINDOW
      PROVE  W[j] = IF j <= n THEN g[n + 1 - j] ELSE NoEntry
  <2>1. j <= n <=> j <= Len(w)
    BY <1>1, <1>2, SizeFacts DEF Least
  <2>2. CASE j <= n
    <3>1. n + 1 - j \in U /\ j \in 1 .. n
      BY <1>4, <1>5, <2>2
    <3>2. A[n + 1 - j] = w[Len(w) + 1 - j]
      BY <1>1, <3>1
    <3> QED
      BY <2>1, <2>2, <3>1, <3>2 DEF Listed
  <2>3. CASE ~(j <= n)
    BY <2>1, <2>3 DEF Listed
  <2> QED
    BY <2>2, <2>3
<1>9. HowMany(g) = Updates(A) /\ HowFar(g) = Volatility(A)
  <2>1. /\ {i \in DOMAIN g : g[i].upd} = {i \in DOMAIN A : A[i].is_update}
        /\ [i \in DOMAIN g |-> g[i].abs] = [i \in DOMAIN A |-> A[i].delta]
    BY <1>3, <1>5
  <2> QED
    BY <2>1 DEF HowMany, HowFar, Updates, Volatility
<1> HIDE DEF g, U
<1>10. HowMany(W) = HowMany(g) /\ HowFar(W) = HowFar(g)
  <2>1. Shows(W, n, g)
    BY <1>4, <1>6, <1>7, <1>8 DEF Shows, U
  <2> QED
    BY <2>1, SameWindow
<1> QED
  BY <1>9, <1>10 DEF A

(* What the extractor reads of a slot is what the reference looks back on. *)
LEMMA SameBefore ==
  ASSUME TypeInv, NEW in, WireFacts(in), in.book, Mirrors(in.slot),
         NEW st, st = Before(in.slot, in.clear)
  PROVE  /\ first_ev(in) = ~st.seen_first_event
         /\ ~first_ev(in) =>
              /\ prev[in.slot].bp = st.prev_bid /\ prev[in.slot].ap = st.prev_ask
              /\ prev[in.slot].bq = st.prev_bid_qty /\ prev[in.slot].aq = st.prev_ask_qty
         /\ (IF in.clear THEN 0 ELSE last_trade_dir[in.slot]) = st.last_trade_dir % WORD
<1>1. CASE in.clear
  <2>1. st.seen_first_event = FALSE /\ st.last_trade_dir = 0 /\ first_ev(in) = TRUE
    BY <1>1 DEF Before, Unseen, first_ev
  <2>2. 0 % WORD = 0
    BY WordFacts
  <2> QED
    BY <1>1, <2>1, <2>2
<1>2. CASE ~in.clear
  <2>1. st = states[in.slot] /\ first_ev(in) = ~seen_first[in.slot]
    BY <1>2 DEF Before, first_ev
  <2> QED
    BY <1>2, <2>1 DEF Mirrors
<1> QED
  BY <1>1, <1>2 DEF WireFacts

LEMMA MoveAgrees ==
  ASSUME SameSizes, TypeInv, NEW in, WireFacts(in), in.book, Mirrors(in.slot),
         NEW st, st = Before(in.slot, in.clear)
  PROVE  /\ c_f1(in) = Move(st, in.bid, in.ask) % WORD
         /\ c_absf1(in) = Absolute(Move(st, in.bid, in.ask))
         /\ (IF first_ev(in) THEN 0 ELSE sat_sub(in.bid.qty, prev[in.slot].bq))
              = Change(st, in.bid.qty, st.prev_bid_qty) % WORD
         /\ (IF first_ev(in) THEN 0 ELSE sat_sub(in.ask.qty, prev[in.slot].aq))
              = Change(st, in.ask.qty, st.prev_ask_qty) % WORD
<1>1. in.slot \in Slot /\ in.bid \in Quote /\ in.ask \in Quote /\ in.clear \in BOOLEAN
  BY DEF WireFacts
<1>2. st \in Tracker
  BY <1>1, BeforeType
<1>3. /\ in.bid.price \in Int /\ in.ask.price \in Int
      /\ in.bid.qty \in Int /\ in.ask.qty \in Int
      /\ st.prev_bid \in Int /\ st.prev_ask \in Int
      /\ st.prev_bid_qty \in Int /\ st.prev_ask_qty \in Int
  <2>1. /\ in.bid.price \in Unsigned /\ in.ask.price \in Unsigned
        /\ in.bid.qty \in Unsigned /\ in.ask.qty \in Unsigned
    BY <1>1 DEF Quote
  <2>2. /\ st.prev_bid \in Unsigned /\ st.prev_ask \in Unsigned
        /\ st.prev_bid_qty \in Unsigned /\ st.prev_ask_qty \in Unsigned
    BY <1>2 DEF Tracker
  <2> QED
    BY <2>1, <2>2 DEF Unsigned
<1>4. CASE first_ev(in)
  <2>1. st.seen_first_event = FALSE
    BY <1>2, <1>4, SameBefore DEF Tracker
  <2>2. /\ Move(st, in.bid, in.ask) = 0
        /\ Change(st, in.bid.qty, st.prev_bid_qty) = 0
        /\ Change(st, in.ask.qty, st.prev_ask_qty) = 0
    BY <2>1 DEF Move, Change
  <2>3. c_f1(in) = 0
    BY <1>4 DEF c_f1
  <2>4. 0 % WORD = 0 /\ Absolute(0) = 0 /\ ~(0 >= HALF)
    BY WordFacts DEF Absolute
  <2>5. c_absf1(in) = 0
    BY <2>3, <2>4 DEF c_absf1
  <2> QED
    BY <1>4, <2>2, <2>3, <2>4, <2>5
<1>5. CASE ~first_ev(in)
  <2>1. /\ st.seen_first_event = TRUE
        /\ prev[in.slot].bp = st.prev_bid /\ prev[in.slot].ap = st.prev_ask
        /\ prev[in.slot].bq = st.prev_bid_qty /\ prev[in.slot].aq = st.prev_ask_qty
    BY <1>2, <1>5, SameBefore DEF Tracker
  <2> DEFINE x == (in.bid.price + in.ask.price) \div 2
             y == (st.prev_bid + st.prev_ask) \div 2
  <2>2. x \in Int /\ y \in Int
    BY <1>3
  <2>3. Move(st, in.bid, in.ask) = sat_signed32(x - y)
    BY <2>1 DEF Move, Change
  <2>4. c_f1(in) = sat_sub(x, y)
    BY <1>5, <2>1 DEF c_f1, MidWord
  <2> HIDE DEF x, y
  <2>5. /\ c_f1(in) = Move(st, in.bid, in.ask) % WORD
        /\ c_absf1(in) = Absolute(Move(st, in.bid, in.ask))
    BY <2>2, <2>3, <2>4, SatAgrees DEF c_absf1
  <2>6. /\ sat_sub(in.bid.qty, prev[in.slot].bq)
             = Change(st, in.bid.qty, st.prev_bid_qty) % WORD
        /\ sat_sub(in.ask.qty, prev[in.slot].aq)
             = Change(st, in.ask.qty, st.prev_ask_qty) % WORD
    <3>1. \A u, v \in Int : sat_sub(u, v) = sat_signed32(u - v) % WORD
      BY SatAgrees
    <3>2. /\ Change(st, in.bid.qty, st.prev_bid_qty) = sat_signed32(in.bid.qty - st.prev_bid_qty)
          /\ Change(st, in.ask.qty, st.prev_ask_qty) = sat_signed32(in.ask.qty - st.prev_ask_qty)
      BY <2>1 DEF Change
    <3>3. /\ sat_sub(in.bid.qty, st.prev_bid_qty)
               = sat_signed32(in.bid.qty - st.prev_bid_qty) % WORD
          /\ sat_sub(in.ask.qty, st.prev_ask_qty)
               = sat_signed32(in.ask.qty - st.prev_ask_qty) % WORD
      BY <1>3, <3>1
    <3> QED
      BY <2>1, <3>2, <3>3
  <2> QED
    BY <1>5, <2>5, <2>6
<1> QED
  BY <1>4, <1>5

(* After a book event the window is the end of the reference's list. *)
LEMMA ShiftAgrees ==
  ASSUME SameSizes, TypeInv, NEW in, WireFacts(in), in.book, Mirrors(in.slot),
         NEW st, st = Before(in.slot, in.clear), NEW j \in 1 .. WINDOW
  PROVE  WindowShifted(in)[j] = Listed(After(st, in.bid, in.ask), j)
<1>1. in.slot \in Slot /\ in.bid \in Quote /\ in.ask \in Quote /\ in.clear \in BOOLEAN
  BY DEF WireFacts
<1>2. st \in Tracker /\ Len(st.window) <= MAX_WINDOW
  BY <1>1, BeforeType
<1> DEFINE e == [is_update |-> TRUE, delta |-> Absolute(Move(st, in.bid, in.ask))]
<1>3. e \in Entry
  BY <1>1, <1>2, MoveType DEF Entry
<1>4. st.window \in Seq(Entry)
  BY <1>2 DEF Tracker
<1>5. Listed(After(st, in.bid, in.ask), j)
        = IF j = 1 THEN [upd |-> TRUE, abs |-> Absolute(Move(st, in.bid, in.ask))]
          ELSE Listed(st.window, j - 1)
  <2>1. After(st, in.bid, in.ask) = Pushed(st.window, e)
        /\ e.is_update = TRUE /\ e.delta = Absolute(Move(st, in.bid, in.ask))
    BY DEF After
  <2> HIDE DEF e
  <2>2. Listed(Pushed(st.window, e), j)
          = IF j = 1 THEN [upd |-> e.is_update, abs |-> e.delta] ELSE Listed(st.window, j - 1)
    BY <1>2, <1>3, <1>4, PushedListed
  <2> QED
    BY <2>1, <2>2
<1>6. WindowShifted(in)[j]
        = IF j = 1 THEN [upd |-> TRUE, abs |-> c_absf1(in)]
          ELSE IF in.clear THEN NoEntry ELSE win[in.slot][j - 1]
  BY DEF WindowShifted, WireFacts
<1>7. CASE j = 1
  BY <1>5, <1>6, <1>7, MoveAgrees
<1>8. CASE j # 1
  <2>1. j - 1 \in 1 .. WINDOW
    BY <1>8, WordFacts
  <2>2. CASE in.clear
    <3>1. st.window = <<>>
      BY <2>2 DEF Before, Unseen
    <3>2. Listed(st.window, j - 1) = NoEntry
      BY <2>1, <3>1 DEF Listed
    <3> QED
      BY <1>5, <1>6, <1>8, <2>2, <3>2
  <2>3. CASE ~in.clear
    <3>1. st = states[in.slot]
      BY <2>3 DEF Before
    <3> QED
      BY <1>5, <1>6, <1>8, <2>1, <2>3, <3>1 DEF Mirrors
  <2> QED
    BY <2>2, <2>3
<1> QED
  BY <1>7, <1>8

(* The eight words of a book event are the reference's vector. *)
LEMMA VectorAgrees ==
  ASSUME SameSizes, TypeInv, NEW m, Edge(m), NEW b, b = BookIn(m), book_upd_valid(b),
         Mirrors(filt_slot(b))
  PROVE  /\ feat'.valid /\ feat'.slot = filt_slot(b)
         /\ feat'.f = [i \in 1 .. 8 |-> vector'[i] % WORD]
<1> DEFINE in == FeatureIn(b)
           s == in.slot
           p == in.bid
           q == in.ask
           st == Before(s, in.clear)
           W == WindowShifted(in)
           L == After(st, p, q)
<1>1. msg_applied(b)
  BY DEF book_upd_valid
<1>2. /\ WireFacts(in) /\ in.applied /\ in.book /\ s = filt_slot(b)
      /\ in.clear = (b.type = CLEAR) /\ p = next_bid(b) /\ q = next_ask(b)
  BY <1>1, FeatureWires
<1>3. ExtractorStep(in)
  BY DEF Edge, Clock
<1>4. on_book_event(s, in.clear, p, q)
  <2>1. References(b)
    BY DEF Edge, Clock
  <2>2. on_book_event(filt_slot(b), b.type = CLEAR, next_bid(b), next_ask(b))
    BY <1>1, <2>1 DEF References
  <2> QED
    BY <1>2, <2>2
<1> HIDE DEF in
<1>5. /\ s \in Slot /\ p \in Quote /\ q \in Quote /\ in.clear \in BOOLEAN
  BY <1>2 DEF WireFacts
<1>6. st \in Tracker /\ Len(st.window) <= MAX_WINDOW
  BY <1>5, BeforeType
<1>7. vector' = <<sat_unsigned32(q.price - p.price), Move(st, p, q),
                  sat_signed32(p.qty - q.qty), Change(st, p.qty, st.prev_bid_qty),
                  Change(st, q.qty, st.prev_ask_qty), Updates(active_window(L)),
                  st.last_trade_dir, sat_unsigned32(Volatility(active_window(L)))>>
  BY <1>4, BookCall
<1>8. feat' = [valid |-> TRUE, slot |-> s, f |-> Features(in)]
  BY <1>2, <1>3 DEF ExtractorStep
<1>9. Mirrors(in.slot)
  BY <1>2
<1> DEFINE f1 == IF q.price >= p.price THEN q.price - p.price ELSE 0
           f3 == sat_sub(p.qty, q.qty)
           f4 == IF first_ev(in) THEN 0 ELSE sat_sub(p.qty, prev[s].bq)
           f5 == IF first_ev(in) THEN 0 ELSE sat_sub(q.qty, prev[s].aq)
           f6 == HowMany(W)
           f7 == IF in.clear THEN 0 ELSE last_trade_dir[s]
           f8 == IF HowFar(W) >= WORD THEN WORD - 1 ELSE HowFar(W)
<1>10. W \in [1 .. WINDOW -> HistoryEntry]
  BY <1>2, ShiftedType
<1>11. Features(in) = <<f1, c_f1(in), f3, f4, f5, f6, f7, f8>>
  <2>1. DOMAIN W = 1 .. WINDOW
    BY <1>10
  <2>2. f6 = Cardinality({j \in 1 .. WINDOW : W[j].upd}) /\ f8 = c_f7(in)
    BY <2>1 DEF HowMany, HowFar, c_f7
  <2> QED
    BY <2>2 DEF Features
<1>12. L \in Seq(Entry)
  BY <1>5, <1>6, AfterType
<1>13. \A j \in 1 .. WINDOW : W[j] = Listed(L, j)
  BY <1>2, <1>9, ShiftAgrees
<1>14. /\ p.price \in 0 .. WORD - 1 /\ q.price \in 0 .. WORD - 1
       /\ p.qty \in 0 .. WORD - 1 /\ q.qty \in 0 .. WORD - 1
  BY <1>5 DEF Quote, Unsigned
<1>15. /\ c_f1(in) = Move(st, p, q) % WORD
       /\ f4 = Change(st, p.qty, st.prev_bid_qty) % WORD
       /\ f5 = Change(st, q.qty, st.prev_ask_qty) % WORD
  BY <1>2, <1>9, MoveAgrees
<1>16. f7 = st.last_trade_dir % WORD
  BY <1>2, <1>9, SameBefore
<1>17. f6 = Updates(active_window(L)) /\ HowFar(W) = Volatility(active_window(L))
  BY <1>10, <1>12, <1>13, ActiveAgrees
<1>18. Updates(active_window(L)) \in Nat /\ Volatility(active_window(L)) \in Nat
  BY <1>12, ActiveType
<1>19. f6 <= WINDOW
  <2> DEFINE D == {j \in DOMAIN W : W[j].upd}
  <2>1. DOMAIN W = 1 .. WINDOW
    BY <1>10
  <2>2. D \subseteq 1 .. WINDOW
    BY <2>1
  <2>3. IsFiniteSet(1 .. WINDOW) /\ Cardinality(1 .. WINDOW) = WINDOW
    BY WordFacts, FS_Interval
  <2>4. f6 = Cardinality(D)
    BY DEF HowMany
  <2> HIDE DEF D, W
  <2> QED
    BY <2>2, <2>3, <2>4, FS_Subset
<1> HIDE DEF st, W, L, f4, f5, f6, f7
<1>20. \A x \in Nat : /\ sat_unsigned32(x) = IF x >= WORD THEN WORD - 1 ELSE x
                      /\ sat_unsigned32(x) \in 0 .. WORD - 1
  BY WordFacts DEF SameSizes, sat_unsigned32, Most, Least, RAW_UNSIGNED_MAX
<1>21. f1 = sat_unsigned32(q.price - p.price) % WORD
  <2>1. f1 = sat_unsigned32(q.price - p.price)
    BY <1>14, WordFacts DEF SameSizes, sat_unsigned32, Most, Least, RAW_UNSIGNED_MAX
  <2>2. f1 \in 0 .. WORD - 1
    BY <1>14, WordFacts
  <2> QED
    BY <2>1, <2>2, WordFacts, ModSmall
<1>22. f3 = sat_signed32(p.qty - q.qty) % WORD
  <2>1. \A u, v \in Int : sat_sub(u, v) = sat_signed32(u - v) % WORD
    BY SatAgrees
  <2>2. p.qty \in Int /\ q.qty \in Int
    BY <1>14
  <2> QED
    BY <2>1, <2>2
<1>23. f6 = Updates(active_window(L)) % WORD
  <2>1. f6 \in 0 .. WORD - 1
    BY <1>17, <1>18, <1>19, WordFacts
  <2> QED
    BY <1>17, <2>1, WordFacts, ModSmall
<1>24. f8 = sat_unsigned32(Volatility(active_window(L))) % WORD
  <2>1. /\ f8 = sat_unsigned32(Volatility(active_window(L)))
        /\ sat_unsigned32(Volatility(active_window(L))) \in 0 .. WORD - 1
    BY <1>17, <1>18, <1>20
  <2> QED
    BY <2>1, WordFacts, ModSmall
<1> HIDE DEF f1, f3, f8
<1>25. <<f1, c_f1(in), f3, f4, f5, f6, f7, f8>> = [i \in 1 .. 8 |-> vector'[i] % WORD]
  BY <1>7, <1>15, <1>16, <1>21, <1>22, <1>23, <1>24
<1> QED
  BY <1>2, <1>8, <1>11, <1>25

(* A trade or a heartbeat moves the window on. *)
LEMMA PassiveShift ==
  ASSUME NEW in, in.book \in BOOLEAN, ~in.book, ~in.clear, NEW j \in 1 .. WINDOW
  PROVE  WindowShifted(in)[j] = IF j = 1 THEN NoEntry ELSE win[in.slot][j - 1]
BY DEF WindowShifted, NoEntry

LEMMA MirrorStep ==
  ASSUME SameSizes, TypeInv, MirrorInv, NEW m, Edge(m)
  PROVE  MirrorInv'
<1> DEFINE b == BookIn(m)
           in == FeatureIn(b)
           s == filt_slot(b)
<1>1. /\ WireFacts(in) /\ in.applied = msg_applied(b) /\ in.book = book_upd_valid(b)
      /\ msg_applied(b) =>
           /\ in.slot = s /\ in.clear = (b.type = CLEAR)
           /\ in.trade = (b.type = TRADE) /\ in.is_bid = (b.side = BID)
           /\ in.bid = next_bid(b) /\ in.ask = next_ask(b)
  BY FeatureWires
<1>2. ExtractorStep(in) /\ References(b)
  BY DEF Edge, Clock
<1>3. /\ prev \in [Slot -> [bp : Unsigned, bq : Unsigned, ap : Unsigned, aq : Unsigned]]
      /\ last_trade_dir \in [Slot -> {0, 1, WORD - 1}]
      /\ seen_first \in [Slot -> BOOLEAN]
      /\ win \in [Slot -> [1 .. WINDOW -> HistoryEntry]]
      /\ states \in [Slot -> Tracker]
      /\ \A r \in Slot : Len(states[r].window) <= MAX_WINDOW
  BY DEF TypeInv
<1>4. \A r \in Slot : Mirrors(r)
  BY DEF MirrorInv
<1>5. CASE ~msg_applied(b)
  <2>1. UNCHANGED <<prev, last_trade_dir, seen_first, win, states>> /\ feat'.valid = FALSE
    <3>1. ~in.applied /\ ~in.book
      BY <1>1, <1>5 DEF WireFacts
    <3>2. feat \in [valid : BOOLEAN, slot : Slot \cup {0}, f : [1 .. 8 -> Unsigned]]
      BY DEF TypeInv
    <3>3. UNCHANGED <<prev, last_trade_dir, seen_first, win>> /\ feat'.valid = FALSE
      BY <1>2, <3>1, <3>2 DEF ExtractorStep
    <3>4. states' = states
      BY <1>2, <1>5 DEF References, featureVars
    <3> QED
      BY <3>3, <3>4
  <2>2. (\A r \in Slot : Mirrors(r))'
    BY <1>4, <2>1 DEF Mirrors
  <2> QED
    BY <2>1, <2>2 DEF MirrorInv, FeaturesAgree
<1>6. CASE book_upd_valid(b)
  <2> DEFINE st == Before(s, in.clear)
             p == next_bid(b)
             q == next_ask(b)
             L == After(st, p, q)
             new == [prev_bid |-> p.price, prev_ask |-> q.price,
                     prev_bid_qty |-> p.qty, prev_ask_qty |-> q.qty,
                     last_trade_dir |-> st.last_trade_dir, window |-> L,
                     seen_first_event |-> TRUE]
             P == [bp |-> p.price, bq |-> p.qty, ap |-> q.price, aq |-> q.qty]
  <2>1. msg_applied(b)
    BY <1>6 DEF book_upd_valid
  <2>2. s \in Slot /\ in.clear \in BOOLEAN /\ in.slot = s /\ in.applied /\ in.book
    BY <1>1, <1>6, <2>1 DEF WireFacts
  <2>3. states' = [states EXCEPT ![s] = new]
    <3>1. on_book_event(s, b.type = CLEAR, p, q)
      BY <1>2, <1>6, <2>1 DEF References
    <3>2. on_book_event(s, in.clear, p, q)
      BY <1>1, <2>1, <3>1
    <3> QED
      BY <3>2, BookCall
  <2>4. /\ win' = [win EXCEPT ![s] = WindowShifted(in)]
        /\ last_trade_dir' = [last_trade_dir EXCEPT ![s] = TradeDir(in)]
        /\ seen_first' = [seen_first EXCEPT ![s] = TRUE]
        /\ prev' = [prev EXCEPT ![s] = P]
    BY <1>1, <1>2, <2>1, <2>2 DEF ExtractorStep
  <2>5. Mirrors(in.slot)
    BY <1>4, <2>2
  <2>6. TradeDir(in) = st.last_trade_dir % WORD
    <3>1. (IF in.clear THEN 0 ELSE last_trade_dir[s]) = st.last_trade_dir % WORD
      BY <1>1, <2>2, <2>5, SameBefore
    <3>2. ~in.trade
      BY <1>1, <1>6, <2>1 DEF book_upd_valid, TRADE, QUOTE, CLEAR
    <3> QED
      BY <2>2, <3>1, <3>2 DEF TradeDir
  <2>7. \A j \in 1 .. WINDOW : WindowShifted(in)[j] = Listed(L, j)
    <3>1. \A j \in 1 .. WINDOW : WindowShifted(in)[j] = Listed(After(st, in.bid, in.ask), j)
      BY <1>1, <2>2, <2>5, ShiftAgrees
    <3> QED
      BY <1>1, <2>1, <3>1
  <2>8. /\ new.prev_bid = P.bp /\ new.prev_bid_qty = P.bq
        /\ new.prev_ask = P.ap /\ new.prev_ask_qty = P.aq
        /\ P = [bp |-> new.prev_bid, bq |-> new.prev_bid_qty,
                ap |-> new.prev_ask, aq |-> new.prev_ask_qty]
        /\ new.seen_first_event = TRUE /\ new.window = L
        /\ new.last_trade_dir = st.last_trade_dir
    OBVIOUS
  <2>9. ASSUME NEW r \in Slot
        PROVE  Mirrors(r)'
    <3> HIDE DEF b, in, s, st, p, q, L, new, P
    <3>1. CASE r = s
      <4>1. /\ states'[r] = new /\ win'[r] = WindowShifted(in) /\ prev'[r] = P
            /\ last_trade_dir'[r] = TradeDir(in) /\ seen_first'[r] = TRUE
        BY <1>3, <2>2, <2>3, <2>4, <3>1
      <4> QED
        BY <2>6, <2>7, <2>8, <4>1 DEF Mirrors
    <3>2. CASE r # s
      <4>1. /\ states'[r] = states[r] /\ win'[r] = win[r] /\ prev'[r] = prev[r]
            /\ last_trade_dir'[r] = last_trade_dir[r] /\ seen_first'[r] = seen_first[r]
        BY <1>3, <2>2, <2>3, <2>4, <3>2
      <4> QED
        BY <1>4, <4>1 DEF Mirrors
    <3> QED
      BY <3>1, <3>2
  <2>10. FeaturesAgree' /\ vector' \in [1 .. 8 -> Int]
    BY <1>4, <1>6, <2>2, VectorAgrees, TrackerType DEF FeaturesAgree
  <2> QED
    BY <2>9, <2>10 DEF MirrorInv
<1>7. CASE msg_applied(b) /\ ~book_upd_valid(b)
  <2> DEFINE old == states[s]
             L == Pushed(old.window, Passive)
  <2>1. /\ s \in Slot /\ in.slot = s /\ in.applied /\ ~in.book /\ ~in.clear
        /\ in.book \in BOOLEAN /\ in.trade = (b.type = TRADE) /\ in.is_bid = (b.side = BID)
    BY <1>1, <1>7, Applied DEF WireFacts
  <2>2. old \in Tracker /\ Len(old.window) <= MAX_WINDOW /\ Mirrors(s)
    BY <1>3, <1>4, <2>1
  <2>3. /\ win' = [win EXCEPT ![s] = WindowShifted(in)]
        /\ last_trade_dir' = [last_trade_dir EXCEPT ![s] = TradeDir(in)]
        /\ seen_first' = seen_first /\ prev' = prev
    BY <1>2, <2>1 DEF ExtractorStep
  <2>4. feat'.valid = FALSE
    <3>1. feat \in [valid : BOOLEAN, slot : Slot \cup {0}, f : [1 .. 8 -> Unsigned]]
      BY DEF TypeInv
    <3> QED
      BY <1>2, <2>1, <3>1 DEF ExtractorStep
  <2>5. Passive \in Entry /\ old.window \in Seq(Entry)
    BY <2>2, SizeFacts, WordFacts DEF Passive, Entry, Tracker
  <2>6. \A j \in 1 .. WINDOW : WindowShifted(in)[j] = Listed(L, j)
    <3> TAKE j \in 1 .. WINDOW
    <3>1. WindowShifted(in)[j] = IF j = 1 THEN NoEntry ELSE win[s][j - 1]
      <4>1. in.book \in BOOLEAN /\ ~in.book /\ ~in.clear /\ in.slot = s
        BY <2>1
      <4> HIDE DEF in, s
      <4> QED
        BY <4>1, PassiveShift
    <3>2. Listed(L, j) = IF j = 1 THEN [upd |-> Passive.is_update, abs |-> Passive.delta]
                         ELSE Listed(old.window, j - 1)
      BY <2>2, <2>5, PushedListed
    <3>3. [upd |-> Passive.is_update, abs |-> Passive.delta] = NoEntry
      BY DEF Passive, NoEntry
    <3>4. j # 1 => j - 1 \in 1 .. WINDOW
      BY WordFacts
    <3>5. j # 1 => win[s][j - 1] = Listed(old.window, j - 1)
      BY <2>2, <3>4 DEF Mirrors
    <3> QED
      BY <3>1, <3>2, <3>3, <3>5
  <2>7. PICK d \in {-1, 0, 1} :
           /\ states' = [states EXCEPT ![s] = [old EXCEPT !.last_trade_dir = d, !.window = L]]
           /\ TradeDir(in) = d % WORD
    <3>1. /\ 1 % WORD = 1 /\ -1 % WORD = WORD - 1
      BY WordFacts
    <3>2. CASE b.type = TRADE
      <4>1. on_trade(s, b.side = BID)
        BY <1>2, <1>7, <3>2 DEF References
      <4>2. states' = [states EXCEPT ![s].last_trade_dir = IF b.side = BID THEN 1 ELSE -1,
                                     ![s].window = Pushed(@, Passive)]
        BY <4>1 DEF on_trade
      <4>3. states' = [states EXCEPT ![s] = [old EXCEPT !.last_trade_dir =
                                               IF b.side = BID THEN 1 ELSE -1, !.window = L]]
        BY <1>3, <2>1, <4>2 DEF Tracker
      <4>4. TradeDir(in) = IF b.side = BID THEN 1 ELSE WORD - 1
        BY <2>1, <3>2 DEF TradeDir
      <4> QED
        BY <3>1, <4>3, <4>4
    <3>3. CASE b.type # TRADE
      <4>1. on_heartbeat(s)
        BY <1>2, <1>7, <3>3 DEF References
      <4>2. states' = [states EXCEPT ![s].window = L]
        BY <4>1 DEF on_heartbeat
      <4>3. [old EXCEPT !.last_trade_dir = old.last_trade_dir, !.window = L]
              = [old EXCEPT !.window = L]
        BY <2>2 DEF Tracker
      <4>4. old.last_trade_dir \in {-1, 0, 1}
        BY <2>2 DEF Tracker
      <4>5. TradeDir(in) = old.last_trade_dir % WORD
        BY <2>1, <2>2, <3>3 DEF TradeDir, Mirrors
      <4> QED
        BY <4>2, <4>3, <4>4, <4>5
    <3> QED
      BY <3>2, <3>3
  <2> DEFINE new == [old EXCEPT !.last_trade_dir = d, !.window = L]
  <2>8. /\ new.window = L /\ new.last_trade_dir = d
        /\ new.prev_bid = old.prev_bid /\ new.prev_bid_qty = old.prev_bid_qty
        /\ new.prev_ask = old.prev_ask /\ new.prev_ask_qty = old.prev_ask_qty
        /\ new.seen_first_event = old.seen_first_event
    BY <2>2 DEF Tracker
  <2>9. ASSUME NEW r \in Slot
        PROVE  Mirrors(r)'
    <3>1. states' = [states EXCEPT ![s] = new]
      BY <2>7
    <3> HIDE DEF b, in, s, L, new
    <3>2. CASE r = s
      <4>1. /\ states'[r] = new /\ win'[r] = WindowShifted(in) /\ prev'[r] = prev[r]
            /\ last_trade_dir'[r] = TradeDir(in) /\ seen_first'[r] = seen_first[r]
        BY <1>3, <2>1, <2>3, <3>1, <3>2
      <4>2. Mirrors(r) /\ old = states[r]
        BY <2>2, <3>2
      <4> QED
        BY <2>6, <2>7, <2>8, <4>1, <4>2 DEF Mirrors
    <3>3. CASE r # s
      <4>1. /\ states'[r] = states[r] /\ win'[r] = win[r] /\ prev'[r] = prev[r]
            /\ last_trade_dir'[r] = last_trade_dir[r] /\ seen_first'[r] = seen_first[r]
        BY <1>3, <2>1, <2>3, <3>1, <3>3
      <4> QED
        BY <1>4, <4>1 DEF Mirrors
    <3> QED
      BY <3>2, <3>3
  <2> QED
    BY <2>4, <2>9 DEF MirrorInv, FeaturesAgree
<1> QED
  BY <1>5, <1>6, <1>7

LEMMA MirrorInit ==
  ASSUME Init
  PROVE  MirrorInv
<1>1. feat.valid = FALSE
  BY DEF Init, ExtractorReset
<1>2. ASSUME NEW s \in Slot
      PROVE  Mirrors(s)
  <2>1. /\ prev[s] = [bp |-> 0, bq |-> 0, ap |-> 0, aq |-> 0]
        /\ last_trade_dir[s] = 0 /\ seen_first[s] = FALSE
        /\ win[s] = [j \in 1 .. WINDOW |-> NoEntry] /\ states[s] = Unseen
    BY PathAssumption DEF Init, ExtractorReset, FeatureInit
  <2>2. 0 % WORD = 0
    BY WordFacts
  <2>3. \A j \in 1 .. WINDOW : Listed(<<>>, j) = NoEntry
    BY WordFacts DEF Listed
  <2>4. \A j \in 1 .. WINDOW : win[s][j] = NoEntry
    BY <2>1
  <2>5. /\ Unseen.prev_bid = 0 /\ Unseen.prev_bid_qty = 0
        /\ Unseen.prev_ask = 0 /\ Unseen.prev_ask_qty = 0
        /\ Unseen.seen_first_event = FALSE /\ Unseen.last_trade_dir = 0
        /\ Unseen.window = <<>>
    BY DEF Unseen
  <2> QED
    BY <2>1, <2>2, <2>3, <2>4, <2>5 DEF Mirrors
<1> QED
  BY <1>1, <1>2 DEF MirrorInv, FeaturesAgree

LEMMA MirrorCorrect ==
  ASSUME SameSizes
  PROVE  Spec => []MirrorInv
<1>1. Init => MirrorInv
  BY MirrorInit
<1>2. TypeInv /\ MirrorInv /\ [Next]_vars => MirrorInv'
  <2> SUFFICES ASSUME TypeInv, MirrorInv, [Next]_vars PROVE MirrorInv'
    OBVIOUS
  <2>1. CASE Next
    BY <2>1, SomeEdge, MirrorStep
  <2>2. CASE UNCHANGED vars
    <3>1. UNCHANGED <<prev, last_trade_dir, seen_first, win, feat, states, vector>>
      BY <2>2 DEF vars, extractorVars, featureVars
    <3>2. (\A s \in Slot : Mirrors(s))'
      BY <3>1 DEF MirrorInv, Mirrors
    <3> QED
      BY <3>1, <3>2 DEF MirrorInv, FeaturesAgree
  <2> QED
    BY <2>1, <2>2
<1> QED
  BY <1>1, <1>2, TypeCorrect, PTL DEF Spec

(* For every book event of every slot the eight words of                   *)
(* feature_extractor.v are those of feature_golden.py's vector, "bit-for-  *)
(* bit", whatever came before: the shift registers hold the end of the     *)
(* reference's list, and the post-update wires are the book it is given.   *)
THEOREM FeaturesSafe ==
  ASSUME SameSizes
  PROVE  Spec => []FeaturesAgree
<1>1. MirrorInv => FeaturesAgree
  BY DEF MirrorInv
<1> QED
  BY <1>1, MirrorCorrect, PTL

-----------------------------------------------------------------------------
(* Features and the messages they come from. *)

Latest(B) == CHOOSE j \in B : \A k \in B : k <= j

LEMMA LatestFacts ==
  ASSUME NEW n \in Nat, NEW B \in SUBSET (1 .. n), B # {}
  PROVE  Latest(B) \in B /\ \A k \in B : k <= Latest(B)
<1> DEFINE D == {x \in Nat : n - x \in B}
<1>1. D # {}
  <2>1. PICK k \in B : k \in 1 .. n
    OBVIOUS
  <2>2. n - k \in Nat /\ n - (n - k) = k
    BY <2>1
  <2> QED
    BY <2>1, <2>2
<1>2. PICK d \in D : \A x \in D : d <= x
  BY <1>1, LeastNatural
<1>3. n - d \in B /\ d \in Nat
  BY <1>2
<1>4. \A k \in B : k <= n - d
  <2> TAKE k \in B
  <2>1. k \in 1 .. n /\ n - k \in Nat /\ n - (n - k) = k
    OBVIOUS
  <2>2. d <= n - k
    BY <1>2, <2>1
  <2> QED
    BY <1>3, <2>1, <2>2
<1> QED
  BY <1>3, <1>4 DEF Latest

Earlier(h, i) == {j \in BookEvents(h) : j < i}
Trades(h) == {i \in DOMAIN h : h[i].type = TRADE}

LEMMA HistoryTerms ==
  ASSUME NEW h
  PROVE  /\ \A i : MidMove(h, i)
                     = IF i \notin BookEvents(h) \/ Earlier(h, i) = {} THEN 0
                       ELSE sat_signed32(MidOf(h[i]) - MidOf(h[Latest(Earlier(h, i))]))
         /\ LastTrade(h) = IF Trades(h) = {} THEN 0
                           ELSE IF h[Latest(Trades(h))].is_bid THEN 1 ELSE -1
BY DEF MidMove, LastTrade, Earlier, Trades, Latest

LEMMA MidType ==
  ASSUME NEW c \in Chapter
  PROVE  MidOf(c) \in Int
<1>1. c.bid.price \in Unsigned /\ c.ask.price \in Unsigned
  BY DEF Chapter, Quote
<1> QED
  BY <1>1 DEF MidOf, Unsigned

(* How far a book event moved the mid. *)
LEMMA MidMoveType ==
  ASSUME SameSizes, NEW h \in Seq(Chapter), NEW i
  PROVE  MidMove(h, i) \in Int /\ Absolute(MidMove(h, i)) \in 0 .. HALF
<1>1. CASE i \notin BookEvents(h) \/ Earlier(h, i) = {}
  <2>1. MidMove(h, i) = 0
    BY <1>1, HistoryTerms
  <2> QED
    BY <2>1, WordFacts DEF Absolute
<1>2. CASE i \in BookEvents(h) /\ Earlier(h, i) # {}
  <2>1. Len(h) \in Nat /\ DOMAIN h = 1 .. Len(h)
    OBVIOUS
  <2>2. Earlier(h, i) \in SUBSET (1 .. Len(h)) /\ i \in 1 .. Len(h)
    BY <1>2, <2>1 DEF Earlier, BookEvents
  <2>3. Latest(Earlier(h, i)) \in 1 .. Len(h)
    BY <1>2, <2>1, <2>2, LatestFacts
  <2>4. \A k \in 1 .. Len(h) : MidOf(h[k]) \in Int
    <3> TAKE k \in 1 .. Len(h)
    <3>1. h[k] \in Chapter
      OBVIOUS
    <3> QED
      BY <3>1, MidType
  <2>5. MidMove(h, i) = sat_signed32(MidOf(h[i]) - MidOf(h[Latest(Earlier(h, i))]))
    BY <1>2, HistoryTerms
  <2> DEFINE x == MidOf(h[i])
             y == MidOf(h[Latest(Earlier(h, i))])
  <2>6. x \in Int /\ y \in Int
    BY <2>2, <2>3, <2>4
  <2> HIDE DEF x, y
  <2>7. sat_signed32(x - y) \in -HALF .. HALF - 1 /\ Absolute(sat_signed32(x - y)) \in 0 .. HALF
    BY <2>6, SatAgrees
  <2> QED
    BY <2>5, <2>7, WordFacts DEF x, y
<1> QED
  BY <1>1, <1>2

(* What a message leaves of the history before it. *)
Grows(h, e, g) ==
  /\ Len(h) \in Nat /\ Len(g) = Len(h) + 1 /\ g[Len(h) + 1] = e
  /\ \A i \in 1 .. Len(h) : g[i] = h[i]
  /\ BookEvents(h) \in SUBSET (1 .. Len(h))
  /\ BookEvents(g) = BookEvents(h) \cup
       (IF e.type \in {QUOTE, CLEAR} THEN {Len(h) + 1} ELSE {})
  /\ Trades(h) \in SUBSET (1 .. Len(h))
  /\ Trades(g) = Trades(h) \cup (IF e.type = TRADE THEN {Len(h) + 1} ELSE {})
  /\ Earlier(g, Len(h) + 1) = BookEvents(h)

LEMMA Grown ==
  ASSUME NEW h \in Seq(Chapter), NEW e \in Chapter
  PROVE  Grows(h, e, Append(h, e))
<1> DEFINE g == Append(h, e)
<1>1. /\ Len(h) \in Nat /\ Len(g) = Len(h) + 1 /\ g[Len(h) + 1] = e
      /\ \A i \in 1 .. Len(h) : g[i] = h[i]
  OBVIOUS
<1>2. DOMAIN h = 1 .. Len(h) /\ DOMAIN g = 1 .. Len(h) + 1
  OBVIOUS
<1>3. BookEvents(h) \in SUBSET (1 .. Len(h)) /\ Trades(h) \in SUBSET (1 .. Len(h))
  BY <1>2 DEF BookEvents, Trades
<1>4. \A i : i \in 1 .. Len(h) + 1 <=> i \in 1 .. Len(h) \/ i = Len(h) + 1
  BY <1>1
<1>5. BookEvents(g) = BookEvents(h) \cup
        (IF e.type \in {QUOTE, CLEAR} THEN {Len(h) + 1} ELSE {})
  BY <1>1, <1>2, <1>4 DEF BookEvents
<1>6. Trades(g) = Trades(h) \cup (IF e.type = TRADE THEN {Len(h) + 1} ELSE {})
  BY <1>1, <1>2, <1>4 DEF Trades
<1>7. Earlier(g, Len(h) + 1) = BookEvents(h)
  <2>1. \A j \in 1 .. Len(h) : j < Len(h) + 1
    BY <1>1
  <2>2. ~(Len(h) + 1 < Len(h) + 1)
    BY <1>1
  <2> QED
    BY <1>3, <1>5, <2>1, <2>2 DEF Earlier
<1> QED
  BY <1>1, <1>3, <1>5, <1>6, <1>7 DEF Grows

LEMMA MovesKept ==
  ASSUME NEW h \in Seq(Chapter), NEW e \in Chapter, NEW g, g = Append(h, e),
         NEW i \in Int, i <= Len(h)
  PROVE  MidMove(g, i) = MidMove(h, i) /\ Told(g, i) = Told(h, i)
<1>1. /\ Len(h) \in Nat /\ \A k \in 1 .. Len(h) : g[k] = h[k]
      /\ BookEvents(h) \in SUBSET (1 .. Len(h))
      /\ \A k : k \in BookEvents(g) =>
           k \in BookEvents(h) \/ k = Len(h) + 1
      /\ BookEvents(h) \subseteq BookEvents(g)
  <2>1. /\ Len(h) \in Nat /\ \A k \in 1 .. Len(h) : g[k] = h[k]
        /\ BookEvents(h) \in SUBSET (1 .. Len(h))
        /\ BookEvents(g) = BookEvents(h) \cup
             (IF e.type \in {QUOTE, CLEAR} THEN {Len(h) + 1} ELSE {})
    BY Grown DEF Grows
  <2> QED
    BY <2>1
<1>2. i \in BookEvents(g) <=> i \in BookEvents(h)
  BY <1>1
<1>3. Earlier(g, i) = Earlier(h, i)
  <2>1. ~(Len(h) + 1 < i)
    BY <1>1
  <2> QED
    BY <1>1, <2>1 DEF Earlier
<1>4. MidMove(g, i) = MidMove(h, i)
  <2>1. CASE i \notin BookEvents(h) \/ Earlier(h, i) = {}
    BY <1>2, <1>3, <2>1, HistoryTerms
  <2>2. CASE i \in BookEvents(h) /\ Earlier(h, i) # {}
    <3>1. Earlier(h, i) \in SUBSET (1 .. Len(h)) /\ i \in 1 .. Len(h)
      BY <1>1, <2>2 DEF Earlier
    <3>2. Latest(Earlier(h, i)) \in 1 .. Len(h)
      BY <1>1, <2>2, <3>1, LatestFacts
    <3>3. g[i] = h[i] /\ g[Latest(Earlier(h, i))] = h[Latest(Earlier(h, i))]
      BY <1>1, <3>1, <3>2
    <3> QED
      BY <1>2, <1>3, <3>3, HistoryTerms
  <2> QED
    BY <2>1, <2>2
<1> QED
  BY <1>2, <1>4 DEF Told

LEMMA LastTradeGrown ==
  ASSUME NEW h \in Seq(Chapter), NEW e \in Chapter
  PROVE  LastTrade(Append(h, e))
           = IF e.type = TRADE THEN IF e.is_bid THEN 1 ELSE -1 ELSE LastTrade(h)
<1> DEFINE g == Append(h, e)
           n == Len(h)
<1>1. /\ n \in Nat /\ g[n + 1] = e /\ \A k \in 1 .. n : g[k] = h[k]
      /\ Trades(h) \in SUBSET (1 .. n)
      /\ Trades(g) = Trades(h) \cup (IF e.type = TRADE THEN {n + 1} ELSE {})
  <2> HIDE DEF g
  <2>1. Grows(h, e, g)
    BY Grown DEF g
  <2> QED
    BY <2>1 DEF Grows
<1> HIDE DEF g, n
<1>2. CASE e.type = TRADE
  <2>1. Trades(g) \in SUBSET (1 .. n + 1) /\ n + 1 \in Trades(g) /\ n + 1 \in Nat
    BY <1>1, <1>2
  <2>2. Latest(Trades(g)) \in Trades(g) /\ n + 1 <= Latest(Trades(g))
    <3>1. Latest(Trades(g)) \in Trades(g) /\ \A k \in Trades(g) : k <= Latest(Trades(g))
      BY <2>1, LatestFacts
    <3> QED
      BY <2>1, <3>1
  <2>3. Latest(Trades(g)) = n + 1
    BY <1>1, <2>1, <2>2
  <2> QED
    BY <1>1, <1>2, <2>1, <2>3, HistoryTerms DEF g
<1>3. CASE e.type # TRADE
  <2>1. Trades(g) = Trades(h)
    BY <1>1, <1>3
  <2>2. Trades(h) # {} => Latest(Trades(h)) \in 1 .. n
    BY <1>1, LatestFacts
  <2>3. Trades(h) # {} => g[Latest(Trades(h))] = h[Latest(Trades(h))]
    BY <1>1, <2>2
  <2> QED
    BY <1>3, <2>1, <2>3, HistoryTerms DEF g
<1> QED
  BY <1>2, <1>3

(* The first message of a history. *)
LEMMA Started ==
  ASSUME NEW e \in Chapter, e.type = CLEAR, NEW g, g = <<e>>
  PROVE  /\ Len(g) = 1 /\ g[1] = e /\ g \in Seq(Chapter)
         /\ BookEvents(g) = {1} /\ MidMove(g, 1) = 0 /\ LastTrade(g) = 0
<1>1. Len(g) = 1 /\ g[1] = e /\ g \in Seq(Chapter) /\ DOMAIN g = {1}
  OBVIOUS
<1>2. BookEvents(g) = {1} /\ Trades(g) = {}
  BY <1>1 DEF BookEvents, Trades, CLEAR, TRADE
<1>3. Earlier(g, 1) = {}
  BY <1>2 DEF Earlier
<1> QED
  BY <1>1, <1>2, <1>3, HistoryTerms

(* The registers give the move of the new event as its history does. *)
LEMMA MoveTold ==
  ASSUME SameSizes, TypeInv, NEW in, WireFacts(in), in.book, ~in.clear,
         Chronicles(in.slot), NEW e \in Chapter, e.bid = in.bid, e.ask = in.ask,
         e.type \in {QUOTE, CLEAR}, NEW h, h = history[in.slot],
         NEW g, g = Append(h, e)
  PROVE  /\ c_f1(in) = MidMove(g, Len(g)) % WORD
         /\ c_absf1(in) = Absolute(MidMove(g, Len(g)))
<1> DEFINE B == BookEvents(h)
           n == Len(h)
<1>1. in.slot \in Slot /\ h \in Seq(Chapter)
  BY DEF WireFacts, TypeInv
<1>2. /\ n \in Nat /\ Len(g) = n + 1 /\ g[n + 1] = e /\ \A k \in 1 .. n : g[k] = h[k]
      /\ B \in SUBSET (1 .. n) /\ Earlier(g, n + 1) = B /\ n + 1 \in BookEvents(g)
  <2>1. /\ Len(h) \in Nat /\ Len(g) = Len(h) + 1 /\ g[Len(h) + 1] = e
        /\ \A k \in 1 .. Len(h) : g[k] = h[k]
        /\ BookEvents(h) \in SUBSET (1 .. Len(h))
        /\ BookEvents(g) = BookEvents(h) \cup
             (IF e.type \in {QUOTE, CLEAR} THEN {Len(h) + 1} ELSE {})
        /\ Earlier(g, Len(h) + 1) = BookEvents(h)
    <3>1. Grows(h, e, g)
      BY <1>1, Grown
    <3> QED
      BY <3>1 DEF Grows
  <2> QED
    BY <2>1
<1> HIDE DEF B, n
<1>3. first_ev(in) <=> B = {}
  BY DEF first_ev, Chronicles, B
<1>4. CASE B = {}
  <2>1. MidMove(g, n + 1) = 0 /\ c_f1(in) = 0
    BY <1>2, <1>3, <1>4, HistoryTerms DEF c_f1
  <2>2. 0 % WORD = 0 /\ Absolute(0) = 0 /\ ~(0 >= HALF)
    BY WordFacts DEF Absolute
  <2> QED
    BY <1>2, <2>1, <2>2 DEF c_absf1
<1>5. CASE B # {}
  <2> DEFINE k == Latest(B)
             x == MidOf(e)
             y == MidOf(h[k])
  <2>1. k \in B /\ \A j \in B : j <= k
    BY <1>2, <1>5, LatestFacts
  <2>2. prev[in.slot].bp = h[k].bid.price /\ prev[in.slot].ap = h[k].ask.price
    BY <2>1 DEF Chronicles, B
  <2>3. k \in 1 .. n /\ g[k] = h[k] /\ h[k] \in Chapter
    <3>1. \A i \in 1 .. n : h[i] \in Chapter
      BY <1>1 DEF n
    <3>2. k \in 1 .. n
      BY <1>2, <2>1
    <3> QED
      BY <1>2, <3>1, <3>2
  <2>4. MidMove(g, n + 1) = sat_signed32(x - y)
    <3>1. MidMove(g, n + 1) = sat_signed32(MidOf(g[n + 1]) - MidOf(g[k]))
      <4>1. \A i : i \in BookEvents(g) /\ Earlier(g, i) # {} =>
              MidMove(g, i) = sat_signed32(MidOf(g[i]) - MidOf(g[Latest(Earlier(g, i))]))
        BY HistoryTerms
      <4> QED
        BY <1>2, <1>5, <4>1
    <3> QED
      BY <1>2, <2>3, <3>1
  <2>5. x \in Int /\ y \in Int
    BY <2>3, MidType
  <2>6. c_f1(in) = sat_sub(x, y)
    BY <1>3, <1>5, <2>2 DEF c_f1, MidWord, MidOf
  <2> HIDE DEF x, y
  <2> QED
    BY <1>2, <2>4, <2>5, <2>6, SatAgrees DEF c_absf1
<1> QED
  BY <1>4, <1>5

(* The window as the slot's messages tell it. *)
Tells(W, h) == \A j \in 1 .. WINDOW : W[j] = Told(h, Len(h) + 1 - j)

Shifted(W, old, entry) == W[1] = entry /\ \A j \in 2 .. WINDOW : W[j] = old[j - 1]

LEMMA ToldShift ==
  ASSUME NEW h \in Seq(Chapter), NEW e \in Chapter, NEW g, g = Append(h, e),
         NEW W, NEW old, Tells(old, h), Shifted(W, old, Told(g, Len(g)))
  PROVE  Tells(W, g)
<1> USE DEF Shifted
<1> DEFINE n == Len(h)
<1>1. n \in Nat /\ Len(g) = n + 1
  OBVIOUS
<1>2. ASSUME NEW j \in 1 .. WINDOW
      PROVE  W[j] = Told(g, Len(g) + 1 - j)
  <2>1. CASE j = 1
    <3>1. Len(g) + 1 - j = Len(g)
      BY <1>1, <2>1
    <3> QED
      BY <2>1, <3>1
  <2>2. CASE j # 1
    <3>1. /\ j \in 2 .. WINDOW /\ j - 1 \in 1 .. WINDOW
          /\ Len(g) + 1 - j = n + 1 - (j - 1) /\ n + 1 - (j - 1) \in Int
          /\ n + 1 - (j - 1) <= n
      BY <1>1, <2>2, WordFacts
    <3>2. W[j] = Told(h, n + 1 - (j - 1))
      BY <3>1 DEF Tells
    <3>3. Told(g, n + 1 - (j - 1)) = Told(h, n + 1 - (j - 1))
      BY <3>1, MovesKept
    <3> QED
      BY <3>1, <3>2, <3>3
  <2> QED
    BY <2>1, <2>2
<1> QED
  BY <1>2 DEF Tells

(* The two sums of FeaturesFromHistory are those of the told window. *)
LEMMA ToldSums ==
  ASSUME SameSizes, NEW h \in Seq(Chapter), NEW W \in [1 .. WINDOW -> HistoryEntry],
         Tells(W, h), NEW recent, recent = {i \in DOMAIN h : i > Len(h) - WINDOW}
  PROVE  /\ HowMany(W) = Cardinality(recent \cap BookEvents(h))
         /\ HowFar(W) = SumFunction([i \in recent |-> Absolute(MidMove(h, i))])
<1> DEFINE n == Len(h)
           U == Newer(n)
           g == [i \in U |-> Told(h, i)]
<1>1. n \in Nat /\ recent = U
  BY DEF Newer
<1>2. ASSUME NEW i \in U
      PROVE  /\ Told(h, i) \in [upd : BOOLEAN, abs : Nat]
             /\ Told(h, i).upd = (i \in BookEvents(h))
             /\ Told(h, i).abs = Absolute(MidMove(h, i))
  <2>1. CASE i \in BookEvents(h)
    <3>1. Absolute(MidMove(h, i)) \in 0 .. HALF
      BY MidMoveType
    <3>2. Absolute(MidMove(h, i)) \in Nat
      BY <3>1, WordFacts
    <3>3. /\ Told(h, i) = [upd |-> TRUE, abs |-> Absolute(MidMove(h, i))]
          /\ (i \in BookEvents(h)) = TRUE
      BY <2>1 DEF Told
    <3>4. Told(h, i) \in [upd : BOOLEAN, abs : Nat]
      BY <3>2, <3>3
    <3>5. Told(h, i).upd = TRUE /\ Told(h, i).abs = Absolute(MidMove(h, i))
      BY <3>3
    <3> QED
      BY <3>3, <3>4, <3>5, Zenon
  <2>2. CASE i \notin BookEvents(h)
    <3>1. Told(h, i) = NoEntry
      BY <2>2 DEF Told
    <3>2. MidMove(h, i) = 0 /\ Absolute(0) = 0
      BY <2>2, HistoryTerms DEF Absolute
    <3>3. /\ NoEntry \in [upd : BOOLEAN, abs : Nat]
          /\ NoEntry.upd = FALSE /\ NoEntry.abs = 0
      BY DEF NoEntry
    <3>4. (i \in BookEvents(h)) = FALSE
      BY <2>2
    <3> QED
      BY <3>1, <3>2, <3>3, <3>4
  <2> QED
    BY <2>1, <2>2
<1>3. g \in [U -> [upd : BOOLEAN, abs : Nat]]
  BY <1>2
<1>4. W \in [1 .. WINDOW -> [upd : BOOLEAN, abs : Nat]]
  BY WordFacts DEF HistoryEntry
<1>5. ASSUME NEW j \in 1 .. WINDOW
      PROVE  W[j] = IF j <= n THEN g[n + 1 - j] ELSE NoEntry
  <2>1. W[j] = Told(h, n + 1 - j)
    BY DEF Tells
  <2>2. CASE j <= n
    <3>1. n + 1 - j \in U
      BY <1>1, <2>2, WordFacts DEF Newer
    <3> QED
      BY <2>1, <2>2, <3>1
  <2>3. CASE ~(j <= n)
    <3>1. ~(n + 1 - j \in 1 .. n)
      BY <1>1, <2>3, WordFacts
    <3>2. n + 1 - j \notin BookEvents(h)
      BY <3>1 DEF BookEvents
    <3> QED
      BY <2>1, <2>3, <3>2 DEF Told
  <2> QED
    BY <2>2, <2>3
<1>6. {i \in DOMAIN g : g[i].upd} = recent \cap BookEvents(h)
  BY <1>1, <1>2
<1>7. [i \in DOMAIN g |-> g[i].abs] = [i \in recent |-> Absolute(MidMove(h, i))]
  BY <1>1, <1>2
<1> HIDE DEF g, U, n
<1>8. Shows(W, n, g)
  BY <1>1, <1>3, <1>4, <1>5 DEF Shows, U
<1>9. HowMany(W) = HowMany(g) /\ HowFar(W) = HowFar(g)
  BY <1>8, SameWindow
<1> QED
  BY <1>6, <1>7, <1>9 DEF HowMany, HowFar

(* A book event: its own entry in the history is the newest. *)
BookTold(in, g) ==
  /\ g \in Seq(Chapter)
  /\ Len(g) \in BookEvents(g) /\ \A j \in BookEvents(g) : j <= Len(g)
  /\ g[Len(g)].bid = in.bid /\ g[Len(g)].ask = in.ask
  /\ TradeDir(in) = LastTrade(g) % WORD
  /\ (IF in.clear THEN 0 ELSE last_trade_dir[in.slot]) = LastTrade(g) % WORD
  /\ c_f1(in) = MidMove(g, Len(g)) % WORD
  /\ Tells(WindowShifted(in), g)

LEMMA BookEventTold ==
  ASSUME SameSizes, TypeInv, HistoryInv, NEW m, Edge(m), NEW b, b = BookIn(m),
         book_upd_valid(b), NEW in, in = FeatureIn(b), NEW g, g = history'[in.slot]
  PROVE  BookTold(in, g)
<1> DEFINE e == Event(b)
           h == history[in.slot]
<1>1. msg_applied(b) /\ b.type \in {QUOTE, CLEAR}
  BY DEF book_upd_valid
<1>2. /\ WireFacts(in) /\ in.applied /\ in.book /\ in.slot = filt_slot(b)
      /\ in.clear = (b.type = CLEAR) /\ in.trade = (b.type = TRADE)
      /\ in.bid = next_bid(b) /\ in.ask = next_ask(b)
  BY <1>1, FeatureWires
<1>3. in.slot \in Slot /\ in.clear \in BOOLEAN /\ in.book \in BOOLEAN
  BY <1>2 DEF WireFacts
<1>4. /\ e \in Chapter /\ g = (IF b.type = CLEAR THEN <<e>> ELSE Append(h, e))
      /\ g \in Seq(Chapter)
  BY <1>1, <1>2, Chronicled
<1>5. e.type = b.type /\ e.bid = in.bid /\ e.ask = in.ask
  BY <1>2 DEF Event
<1>6. Chronicles(in.slot) /\ h \in Seq(Chapter)
  BY <1>3 DEF HistoryInv, TypeInv
<1>7. /\ WindowShifted(in)[1] = [upd |-> TRUE, abs |-> c_absf1(in)]
      /\ \A j \in 2 .. WINDOW : WindowShifted(in)[j] = IF in.clear THEN NoEntry
                                                       ELSE win[in.slot][j - 1]
  <2>1. 1 \in 1 .. WINDOW /\ \A j \in 2 .. WINDOW : j \in 1 .. WINDOW /\ j # 1
    BY WordFacts
  <2> QED
    BY <1>2, <1>3, <2>1 DEF WindowShifted
<1> HIDE DEF e, h
<1>8. CASE in.clear
  <2>1. /\ g = <<e>> /\ e.type = CLEAR
    BY <1>2, <1>4, <1>5, <1>8
  <2>2. /\ Len(g) = 1 /\ g[1] = e /\ BookEvents(g) = {1}
        /\ MidMove(g, 1) = 0 /\ LastTrade(g) = 0
    BY <1>4, <2>1, Started
  <2>3. c_f1(in) = 0 /\ c_absf1(in) = 0
    <3>1. ~(0 >= HALF)
      BY WordFacts
    <3> QED
      BY <1>8, <3>1 DEF c_f1, c_absf1, first_ev
  <2>4. TradeDir(in) = 0 /\ 0 % WORD = 0 /\ Absolute(0) = 0
    BY <1>8, WordFacts DEF TradeDir, Absolute
  <2>5. ASSUME NEW j \in 1 .. WINDOW
        PROVE  WindowShifted(in)[j] = Told(g, 1 + 1 - j)
    <3>1. CASE j = 1
      <4>1. Told(g, 1) = [upd |-> TRUE, abs |-> 0]
        BY <2>2, <2>4 DEF Told
      <4> QED
        BY <1>7, <2>3, <3>1, <4>1
    <3>2. CASE j # 1
      <4>1. j \in 2 .. WINDOW /\ 1 + 1 - j # 1
        BY <3>2, WordFacts
      <4>2. Told(g, 1 + 1 - j) = NoEntry
        BY <2>2, <4>1 DEF Told
      <4> QED
        BY <1>7, <1>8, <4>1, <4>2
    <3> QED
      BY <3>1, <3>2
  <2>6. Tells(WindowShifted(in), g)
    BY <2>2, <2>5 DEF Tells
  <2> QED
    BY <1>4, <1>5, <1>8, <2>2, <2>3, <2>4, <2>6 DEF BookTold
<1>9. CASE ~in.clear
  <2>1. g = Append(h, e) /\ e.type = QUOTE /\ e.type # TRADE /\ ~in.trade
    BY <1>1, <1>2, <1>4, <1>5, <1>9 DEF QUOTE, CLEAR, TRADE
  <2>2. Grows(h, e, g)
    BY <1>4, <1>6, <2>1, Grown
  <2>3. /\ Len(g) \in Nat /\ Len(g) \in BookEvents(g) /\ g[Len(g)] = e
        /\ \A j \in BookEvents(g) : j <= Len(g)
    BY <2>1, <2>2 DEF Grows
  <2>4. LastTrade(g) = LastTrade(h)
    BY <1>4, <1>6, <2>1, LastTradeGrown
  <2>5. TradeDir(in) = LastTrade(g) % WORD /\ last_trade_dir[in.slot] = LastTrade(g) % WORD
    BY <1>6, <1>9, <2>1, <2>4 DEF TradeDir, Chronicles, h
  <2>6. /\ c_f1(in) = MidMove(g, Len(g)) % WORD
        /\ c_absf1(in) = Absolute(MidMove(g, Len(g)))
    <3>1. /\ WireFacts(in) /\ in.book /\ ~in.clear /\ Chronicles(in.slot)
          /\ e \in Chapter /\ e.bid = in.bid /\ e.ask = in.ask
          /\ e.type \in {QUOTE, CLEAR}
          /\ h = history[in.slot] /\ g = Append(h, e)
      BY <1>2, <1>4, <1>5, <1>6, <1>9, <2>1 DEF h
    <3> QED
      BY <3>1, MoveTold
  <2>7. WindowShifted(in)[1] = Told(g, Len(g))
    BY <1>7, <2>3, <2>6 DEF Told
  <2>8. Tells(win[in.slot], h)
    BY <1>6 DEF Tells, Chronicles, h
  <2>9. \A j \in 2 .. WINDOW : WindowShifted(in)[j] = win[in.slot][j - 1]
    BY <1>7, <1>9
  <2>10. Tells(WindowShifted(in), g)
    <3>1. Shifted(WindowShifted(in), win[in.slot], Told(g, Len(g)))
      BY <2>7, <2>9 DEF Shifted
    <3> QED
      BY <1>4, <1>6, <2>1, <2>8, <3>1, ToldShift
  <2> QED
    BY <1>4, <1>5, <1>9, <2>3, <2>5, <2>6, <2>10 DEF BookTold
<1> QED
  BY <1>8, <1>9

(* A trade or a heartbeat: an entry without an update. *)
PassiveTold(in, h, g) ==
  /\ g \in Seq(Chapter)
  /\ BookEvents(g) = BookEvents(h) /\ \A i \in BookEvents(h) : g[i] = h[i]
  /\ TradeDir(in) = LastTrade(g) % WORD
  /\ Tells(WindowShifted(in), g)

LEMMA PassiveEventTold ==
  ASSUME SameSizes, TypeInv, HistoryInv, NEW m, Edge(m), NEW b, b = BookIn(m),
         msg_applied(b), ~book_upd_valid(b), NEW in, in = FeatureIn(b),
         NEW g, g = history'[in.slot]
  PROVE  PassiveTold(in, history[in.slot], g)
<1> DEFINE e == Event(b)
           h == history[in.slot]
<1>1. b.type \notin {QUOTE, CLEAR} /\ b.type # CLEAR
  BY DEF book_upd_valid
<1>2. /\ WireFacts(in) /\ in.applied /\ ~in.book /\ in.slot = filt_slot(b)
      /\ ~in.clear /\ in.trade = (b.type = TRADE) /\ in.is_bid = (b.side = BID)
  BY <1>1, FeatureWires
<1>3. in.slot \in Slot /\ in.book \in BOOLEAN
  BY <1>2 DEF WireFacts
<1>4. e \in Chapter /\ g = Append(h, e) /\ g \in Seq(Chapter)
  <2>1. /\ e \in Chapter /\ g = (IF b.type = CLEAR THEN <<e>> ELSE Append(h, e))
        /\ g \in Seq(Chapter)
    BY <1>2, Chronicled
  <2> QED
    BY <1>1, <2>1
<1>5. e.type = b.type /\ e.is_bid = (b.side = BID)
  BY DEF Event
<1>6. Chronicles(in.slot) /\ h \in Seq(Chapter)
  BY <1>3 DEF HistoryInv, TypeInv
<1>7. /\ WindowShifted(in)[1] = NoEntry
      /\ \A j \in 2 .. WINDOW : WindowShifted(in)[j] = win[in.slot][j - 1]
  <2>1. \A j \in 1 .. WINDOW :
          WindowShifted(in)[j] = IF j = 1 THEN NoEntry ELSE win[in.slot][j - 1]
    BY <1>2, <1>3, PassiveShift
  <2>2. 1 \in 1 .. WINDOW /\ \A j \in 2 .. WINDOW : j \in 1 .. WINDOW /\ j # 1
    BY WordFacts
  <2> QED
    BY <2>1, <2>2
<1> HIDE DEF e, h
<1>8. Grows(h, e, g)
  BY <1>4, <1>6, Grown
<1>9. /\ BookEvents(g) = BookEvents(h) /\ \A i \in BookEvents(h) : g[i] = h[i]
      /\ Len(g) \notin BookEvents(g)
  BY <1>1, <1>5, <1>8 DEF Grows
<1>10. TradeDir(in) = LastTrade(g) % WORD
  <2>1. LastTrade(g) = IF b.type = TRADE THEN IF b.side = BID THEN 1 ELSE -1 ELSE LastTrade(h)
    BY <1>4, <1>5, <1>6, LastTradeGrown
  <2>2. TradeDir(in) = IF b.type = TRADE THEN IF b.side = BID THEN 1 ELSE WORD - 1
                       ELSE last_trade_dir[in.slot]
    BY <1>2 DEF TradeDir
  <2>3. 1 % WORD = 1 /\ -1 % WORD = WORD - 1
    BY WordFacts
  <2>4. last_trade_dir[in.slot] = LastTrade(h) % WORD
    BY <1>6 DEF Chronicles, h
  <2> QED
    BY <2>1, <2>2, <2>3, <2>4
<1>11. WindowShifted(in)[1] = Told(g, Len(g))
  BY <1>7, <1>9 DEF Told
<1>12. Tells(win[in.slot], h)
  BY <1>6 DEF Tells, Chronicles, h
<1>13. Tells(WindowShifted(in), g)
  <2>1. Shifted(WindowShifted(in), win[in.slot], Told(g, Len(g)))
    BY <1>7, <1>11 DEF Shifted
  <2> QED
    BY <1>4, <1>6, <1>12, <2>1, ToldShift
<1> QED
  BY <1>4, <1>9, <1>10, <1>13 DEF PassiveTold, h

(* What leaves one slot's registers to its own messages. *)
LEMMA ChroniclesStep ==
  ASSUME SameSizes, TypeInv, HistoryInv, NEW m, Edge(m), NEW s \in Slot
  PROVE  Chronicles(s)'
<1> DEFINE b == BookIn(m)
           in == FeatureIn(b)
           g == history'[s]
<1>1. /\ WireFacts(in) /\ in.applied = msg_applied(b) /\ in.book = book_upd_valid(b)
      /\ msg_applied(b) => in.slot = filt_slot(b)
  BY FeatureWires
<1>2. ExtractorStep(in) /\ Chronicle(b)
  BY DEF Edge, Clock
<1>3. /\ prev \in [Slot -> [bp : Unsigned, bq : Unsigned, ap : Unsigned, aq : Unsigned]]
      /\ last_trade_dir \in [Slot -> {0, 1, WORD - 1}]
      /\ seen_first \in [Slot -> BOOLEAN]
      /\ win \in [Slot -> [1 .. WINDOW -> HistoryEntry]]
      /\ history \in [Slot -> Seq(Chapter)]
  BY DEF TypeInv
<1>4. Chronicles(s)
  BY DEF HistoryInv
<1>5. CASE ~msg_applied(b) \/ filt_slot(b) # s
  <2>1. /\ history'[s] = history[s] /\ win'[s] = win[s] /\ prev'[s] = prev[s]
        /\ seen_first'[s] = seen_first[s] /\ last_trade_dir'[s] = last_trade_dir[s]
    <3>1. CASE ~msg_applied(b)
      <4>1. history' = history
        BY <1>2, <3>1 DEF Chronicle
      <4>2. UNCHANGED <<prev, seen_first, win, last_trade_dir>>
        <5>1. ~in.applied /\ ~in.book
          BY <1>1, <3>1 DEF WireFacts
        <5> QED
          BY <1>2, <5>1 DEF ExtractorStep
      <4> QED
        BY <4>1, <4>2
    <3>2. CASE msg_applied(b) /\ filt_slot(b) # s
      <4>1. history'[s] = history[s]
        BY <1>2, <1>3, <3>2 DEF Chronicle
      <4>2. /\ win'[s] = win[s] /\ prev'[s] = prev[s]
            /\ seen_first'[s] = seen_first[s] /\ last_trade_dir'[s] = last_trade_dir[s]
        <5>1. in.slot # s
          BY <1>1, <3>2
        <5> HIDE DEF in, b
        <5> QED
          BY <1>2, <1>3, <5>1 DEF ExtractorStep
      <4> QED
        BY <4>1, <4>2
    <3> QED
      BY <1>5, <3>1, <3>2
  <2> QED
    BY <1>4, <2>1 DEF Chronicles
<1>6. CASE book_upd_valid(b) /\ filt_slot(b) = s
  <2>1. msg_applied(b) /\ in.slot = s /\ in.applied /\ in.book
    BY <1>1, <1>6 DEF book_upd_valid
  <2>2. BookTold(in, g)
    BY <1>6, <2>1, BookEventTold
  <2> HIDE DEF in, b, g
  <2>3. /\ win'[s] = WindowShifted(in) /\ last_trade_dir'[s] = TradeDir(in)
        /\ seen_first'[s] = TRUE
        /\ prev'[s] = [bp |-> in.bid.price, bq |-> in.bid.qty,
                       ap |-> in.ask.price, aq |-> in.ask.qty]
    BY <1>2, <1>3, <2>1 DEF ExtractorStep
  <2>4. /\ Len(g) \in BookEvents(g) /\ \A j \in BookEvents(g) : j <= Len(g)
        /\ g[Len(g)].bid = in.bid /\ g[Len(g)].ask = in.ask
        /\ TradeDir(in) = LastTrade(g) % WORD
        /\ \A j \in 1 .. WINDOW : WindowShifted(in)[j] = Told(g, Len(g) + 1 - j)
        /\ g \in Seq(Chapter)
    BY <2>2 DEF BookTold, Tells
  <2>5. \A i \in BookEvents(g) :
          (\A j \in BookEvents(g) : j <= i) =>
             prev'[s].bp = g[i].bid.price /\ prev'[s].ap = g[i].ask.price
    <3> SUFFICES ASSUME NEW i \in BookEvents(g), \A j \in BookEvents(g) : j <= i
                 PROVE  prev'[s].bp = g[i].bid.price /\ prev'[s].ap = g[i].ask.price
      OBVIOUS
    <3>1. i <= Len(g) /\ Len(g) <= i
      BY <2>4
    <3>2. i \in Nat /\ Len(g) \in Nat
      BY <2>4 DEF BookEvents
    <3>3. i = Len(g)
      BY <3>1, <3>2
    <3> QED
      BY <2>3, <2>4, <3>3
  <2>6. BookEvents(g) # {} /\ seen_first'[s] = (BookEvents(g) # {})
    BY <2>3, <2>4
  <2> QED
    BY <2>3, <2>4, <2>5, <2>6 DEF Chronicles, g
<1>7. CASE msg_applied(b) /\ ~book_upd_valid(b) /\ filt_slot(b) = s
  <2>1. in.slot = s /\ in.applied /\ ~in.book
    BY <1>1, <1>7
  <2>2. PassiveTold(in, history[s], g)
    BY <1>7, <2>1, PassiveEventTold
  <2> HIDE DEF in, b, g
  <2>3. /\ win'[s] = WindowShifted(in) /\ last_trade_dir'[s] = TradeDir(in)
        /\ seen_first'[s] = seen_first[s] /\ prev'[s] = prev[s]
    BY <1>2, <1>3, <2>1 DEF ExtractorStep
  <2>4. /\ BookEvents(g) = BookEvents(history[s])
        /\ \A i \in BookEvents(history[s]) : g[i] = history[s][i]
        /\ TradeDir(in) = LastTrade(g) % WORD
        /\ \A j \in 1 .. WINDOW : WindowShifted(in)[j] = Told(g, Len(g) + 1 - j)
    BY <2>2 DEF PassiveTold, Tells
  <2>5. /\ seen_first[s] = (BookEvents(history[s]) # {})
        /\ \A i \in BookEvents(history[s]) :
             (\A j \in BookEvents(history[s]) : j <= i) =>
               /\ prev[s].bp = history[s][i].bid.price
               /\ prev[s].ap = history[s][i].ask.price
    BY <1>4 DEF Chronicles
  <2>6. \A i \in BookEvents(g) :
          (\A j \in BookEvents(g) : j <= i) =>
             prev'[s].bp = g[i].bid.price /\ prev'[s].ap = g[i].ask.price
    BY <2>3, <2>4, <2>5
  <2>7. seen_first'[s] = (BookEvents(g) # {})
    BY <2>3, <2>4, <2>5
  <2> QED
    BY <2>3, <2>4, <2>6, <2>7 DEF Chronicles, g
<1> QED
  BY <1>5, <1>6, <1>7 DEF book_upd_valid

LEMMA FromHistoryStep ==
  ASSUME SameSizes, TypeInv, HistoryInv, NEW m, Edge(m)
  PROVE  FeaturesFromHistory'
<1> DEFINE b == BookIn(m)
           in == FeatureIn(b)
           g == history'[in.slot]
           recent == {i \in DOMAIN g : i > Len(g) - WINDOW}
           W == WindowShifted(in)
<1>1. ExtractorStep(in)
  BY DEF Edge, Clock
<1>2. /\ WireFacts(in) /\ in.applied = msg_applied(b) /\ in.book = book_upd_valid(b)
      /\ msg_applied(b) => in.trade = (b.type = TRADE)
  BY FeatureWires
<1>3. CASE ~book_upd_valid(b)
  <2>1. ~in.book /\ feat \in [valid : BOOLEAN, slot : Slot \cup {0}, f : [1 .. 8 -> Unsigned]]
    BY <1>2, <1>3 DEF TypeInv
  <2>2. feat'.valid = FALSE
    BY <1>1, <2>1 DEF ExtractorStep
  <2> QED
    BY <2>2 DEF FeaturesFromHistory
<1>4. CASE book_upd_valid(b)
  <2>1. in.book /\ in.applied
    BY <1>2, <1>4 DEF WireFacts
  <2>2. BookTold(in, g)
    BY <1>4, BookEventTold
  <2>3. feat' = [valid |-> TRUE, slot |-> in.slot, f |-> Features(in)]
    BY <1>1, <2>1 DEF ExtractorStep
  <2>4. W \in [1 .. WINDOW -> HistoryEntry]
    BY <1>2, <2>1, ShiftedType
  <2> HIDE DEF in, b, g, recent
  <2>5. /\ g \in Seq(Chapter) /\ Tells(W, g)
        /\ (IF in.clear THEN 0 ELSE last_trade_dir[in.slot]) = LastTrade(g) % WORD
        /\ c_f1(in) = MidMove(g, Len(g)) % WORD
    BY <2>2 DEF BookTold
  <2>6. /\ HowMany(W) = Cardinality(recent \cap BookEvents(g))
        /\ HowFar(W) = SumFunction([i \in recent |-> Absolute(MidMove(g, i))])
    <3>1. recent = {i \in DOMAIN g : i > Len(g) - WINDOW}
      BY DEF recent
    <3> HIDE DEF W
    <3> QED
      BY <2>4, <2>5, <3>1, ToldSums
  <2>7. DOMAIN W = 1 .. WINDOW
    BY <2>4
  <2>8. /\ HowMany(W) = Cardinality({j \in 1 .. WINDOW : W[j].upd})
        /\ c_f7(in) = IF HowFar(W) >= WORD THEN WORD - 1 ELSE HowFar(W)
    BY <2>7 DEF HowMany, HowFar, c_f7
  <2>9. /\ feat'.f[2] = c_f1(in) /\ feat'.f[6] = HowMany(W)
        /\ feat'.f[7] = (IF in.clear THEN 0 ELSE last_trade_dir[in.slot])
        /\ feat'.f[8] = c_f7(in)
    BY <2>3, <2>8 DEF Features
  <2>10. HowFar(W) \in Nat
    <3> DEFINE a == [j \in DOMAIN W |-> W[j].abs]
    <3>1. \A j \in 1 .. WINDOW : a[j] \in Nat
      BY <2>4, <2>7, WordFacts DEF HistoryEntry
    <3>2. HowFar(W) = Sum(a, 1 .. WINDOW) /\ IsFiniteSet(1 .. WINDOW)
      BY <2>7, WordFacts, FS_Interval DEF HowFar, SumFunction, Sum
    <3> HIDE DEF a
    <3> QED
      BY <3>1, <3>2, SumNat
  <2> HIDE DEF W
  <2>11. feat'.f[8] = Least(WORD - 1, HowFar(W))
    BY <2>8, <2>9, <2>10, WordFacts DEF Least
  <2>12. /\ feat'.slot = in.slot
         /\ feat'.f[2] = MidMove(g, Len(g)) % WORD
         /\ feat'.f[6] = Cardinality(recent \cap BookEvents(g))
         /\ feat'.f[7] = LastTrade(g) % WORD
         /\ feat'.f[8] = Least(WORD - 1,
                               SumFunction([i \in recent |-> Absolute(MidMove(g, i))]))
    BY <2>3, <2>5, <2>6, <2>9, <2>11
  <2> QED
    BY <2>12 DEF FeaturesFromHistory, g, recent
<1> QED
  BY <1>3, <1>4

LEMMA HistoryInit ==
  ASSUME Init
  PROVE  HistoryInv
<1>1. feat.valid = FALSE
  BY DEF Init, ExtractorReset
<1>2. ASSUME NEW s \in Slot
      PROVE  Chronicles(s)
  <2>1. /\ seen_first[s] = FALSE /\ last_trade_dir[s] = 0
        /\ \A j \in 1 .. WINDOW : win[s][j] = NoEntry
        /\ history[s] = <<>>
    BY PathAssumption DEF Init, ExtractorReset
  <2>2. BookEvents(<<>>) = {} /\ Trades(<<>>) = {}
    BY DEF BookEvents, Trades
  <2>3. \A i : Told(<<>>, i) = NoEntry
    BY <2>2 DEF Told
  <2>4. LastTrade(<<>>) = 0
    BY <2>2, HistoryTerms
  <2>5. 0 % WORD = 0
    BY WordFacts
  <2> QED
    BY <2>1, <2>2, <2>3, <2>4, <2>5 DEF Chronicles
<1> QED
  BY <1>1, <1>2 DEF HistoryInv, FeaturesFromHistory

(* The features feature_extractor.v puts out are a function of the         *)
(* messages its slot has had since its last clear (D13, FR-21, FR-25),     *)
(* whatever the widths, the window, the slots and the messages: nothing    *)
(* from before the clear, and nothing of another slot, shows in them.      *)
THEOREM HistorySafe ==
  ASSUME SameSizes
  PROVE  Spec => []FeaturesFromHistory
<1>1. Init => HistoryInv
  BY HistoryInit
<1>2. TypeInv /\ HistoryInv /\ [Next]_vars => HistoryInv'
  <2> SUFFICES ASSUME TypeInv, HistoryInv, [Next]_vars PROVE HistoryInv'
    OBVIOUS
  <2>1. CASE Next
    <3>1. PICK m : Edge(m)
      BY <2>1, SomeEdge
    <3>2. \A s \in Slot : Chronicles(s)'
      BY <3>1, ChroniclesStep
    <3>3. FeaturesFromHistory'
      BY <3>1, FromHistoryStep
    <3> QED
      BY <3>2, <3>3 DEF HistoryInv
  <2>2. CASE UNCHANGED vars
    <3>1. UNCHANGED <<prev, last_trade_dir, seen_first, win, feat, history>>
      BY <2>2 DEF vars, extractorVars
    <3>2. \A s \in Slot : Chronicles(s)'
      BY <3>1 DEF HistoryInv, Chronicles
    <3>3. FeaturesFromHistory'
      BY <3>1 DEF HistoryInv, FeaturesFromHistory
    <3> QED
      BY <3>2, <3>3 DEF HistoryInv
  <2> QED
    BY <2>1, <2>2
<1>3. HistoryInv => FeaturesFromHistory
  BY DEF HistoryInv
<1> QED
  BY <1>1, <1>2, <1>3, TypeCorrect, PTL DEF Spec

-----------------------------------------------------------------------------
(* The verdict and its reference. *)

(* A difference that fits a word survives it. *)
LEMMA SignedBack ==
  ASSUME NEW d \in -(NormWord \div 2) .. NormWord \div 2 - 1
  PROVE  AsSigned(d % NormWord) = d
<1> DEFINE H == NormWord \div 2
<1>1. H \in Nat \ {0} /\ NormWord = 2 * H /\ d \in Int /\ -H <= d /\ d <= H - 1
  BY NormFacts
<1> HIDE DEF H
<1>2. CASE d >= 0
  <2>1. d % NormWord = d /\ ~(d >= H)
    BY <1>1, <1>2, ModSmall
  <2> QED
    BY <2>1 DEF AsSigned, H
<1>3. CASE d < 0
  <2> DEFINE y == d % NormWord
  <2>1. y = d + NormWord
    BY <1>1, <1>3
  <2> HIDE DEF y
  <2>2. y >= H /\ y - NormWord = d
    BY <1>1, <2>1
  <2>3. AsSigned(y) = y - NormWord
    BY <2>2 DEF AsSigned, H
  <2> QED
    BY <2>2, <2>3 DEF y
<1> QED
  BY <1>1, <1>2, <1>3

(* The normalizer's byte is the one its comment gives. *)
LEMMA LaneAgrees ==
  ASSUME NEW v \in Int, NEW r, r = v % NormWord, NEW offset \in Int,
         NEW scale \in Nat \ {0},
         AsSigned(r) - AsSigned(offset) \in -(NormWord \div 2) .. NormWord \div 2 - 1
  PROVE  norm8(r, offset, scale) = Lane(v, offset, scale)
<1> DEFINE d == AsSigned(r) - AsSigned(offset)
           x == d \div scale
<1>1. AsSigned(d % NormWord) = d
  BY SignedBack
<1>2. d \in Int
  BY SignedType
<1>3. norm8(r, offset, scale) = IF x > ByteHalf - 1 THEN ByteHalf - 1
                                ELSE IF x < -ByteHalf THEN -ByteHalf ELSE x
  BY <1>1 DEF norm8
<1>4. Lane(v, offset, scale) = IF x < -ByteHalf THEN -ByteHalf
                               ELSE IF x > ByteHalf - 1 THEN ByteHalf - 1 ELSE x
  BY DEF Lane
<1> HIDE DEF d
<1>5. x \in Int
  BY <1>2
<1> HIDE DEF x
<1> QED
  BY <1>3, <1>4, <1>5, NormFacts

Judged(s) ==
  \/ ~bid'[s].valid \/ ~ask'[s].valid \/ crossed'[s] \/ seq_gap'
  \/ ml_result'.z >= cfg'.ml_th_high
  \/ ml_result'.z > cfg'.ml_th_low /\ adverse_risk'

LEMMA VerdictIs ==
  ASSUME NEW s, NEW z
  PROVE  Verdict(s, z) =
           (\/ ~bid[s].valid \/ ~ask[s].valid \/ crossed[s] \/ seq_gap
            \/ z >= cfg.ml_th_high
            \/ z > cfg.ml_th_low /\ adverse_risk)
BY DEF Verdict, Adverse, safe_state, PolicyIn

(* The same on the next state, of the events as they then are. *)
LEMMA NextVerdict ==
  /\ Verdict(feat.slot, ml_result.z)' = Judged(feat'.slot)
  /\ Verdict(norm.slot, ml_result.z)' = Judged(norm'.slot)
  /\ Verdict(ml.slot, ml_result.z)' = Judged(ml'.slot)
BY DEF Verdict, Adverse, safe_state, PolicyIn, Judged

(* A verdict stands while what it depends on does. *)
LEMMA SameVerdict ==
  ASSUME bid' = bid, ask' = ask, crossed' = crossed, seq_gap' = seq_gap, cfg' = cfg,
         ml_result' = ml_result, adverse_risk' = adverse_risk, NEW s
  PROVE  Judged(s) = Verdict(s, ml_result.z)
<1>1. Verdict(s, ml_result.z) =
        (\/ ~bid[s].valid \/ ~ask[s].valid \/ crossed[s] \/ seq_gap
         \/ ml_result.z >= cfg.ml_th_high
         \/ ml_result.z > cfg.ml_th_low /\ adverse_risk)
  BY VerdictIs
<1> HIDE DEF crossed
<1>2. Judged(s) =
        (\/ ~bid[s].valid \/ ~ask[s].valid \/ crossed[s] \/ seq_gap
         \/ ml_result.z >= cfg.ml_th_high
         \/ ml_result.z > cfg.ml_th_low /\ adverse_risk)
  BY DEF Judged
<1> QED
  BY <1>1, <1>2

(* What the policy does, told by the event before it. *)
LEMMA PolicyCall ==
  ASSUME TypeInv, NEW m, Edge(m)
  PROVE  /\ ~ml.valid => adverse_risk' = adverse_risk
         /\ ml.valid => adverse_risk' = Verdict(ml.slot, ml.z)
<1>1. PolicyStep(PolicyIn)
  BY DEF Edge, Clock
<1>2. CASE ~ml.valid
  BY <1>1, <1>2 DEF PolicyStep, PolicyIn
<1>3. CASE ml.valid
  <2>1. PolicyIn.event = [slot |-> ml.slot, z |-> ml.z]
    BY <1>3 DEF PolicyIn
  <2>2. PolicyIn.event # NoEvent
    <3>1. ml.slot \in Slot \cup {0} /\ ml.z \in Int
      BY DEF TypeInv
    <3>2. [slot |-> ml.slot, z |-> ml.z] \in [slot : Slot \cup {0}, z : Int]
      BY <3>1
    <3> QED
      BY <2>1, <3>2, EventAssumption
  <2>3. adverse_risk' = Adverse(PolicyIn)
    BY <1>1, <2>2 DEF PolicyStep
  <2>4. [PolicyIn EXCEPT !.event = [slot |-> ml.slot, z |-> ml.z]] = PolicyIn
    BY <2>1 DEF PolicyIn
  <2> QED
    BY <1>3, <2>3, <2>4 DEF Verdict
<1> QED
  BY <1>2, <1>3

(* An edge without a message leaves what a verdict depends on alone. *)
LEMMA QuietEdge ==
  ASSUME TypeInv, NEW m, Edge(m), m = NoMessage
  PROVE  /\ bid' = bid /\ ask' = ask /\ crossed' = crossed /\ seq_gap' = seq_gap
         /\ cfg' = cfg /\ vector' = vector /\ held_risk' = held_risk
         /\ ml_result' = ml_result /\ feat'.valid = FALSE
<1> DEFINE b == BookIn(m)
<1>1. ~b.valid
  BY DEF BookIn
<1>2. ~msg_applied(b) /\ ~book_upd_valid(b)
  <2>1. filt_slot(b) = NoSlot
    BY <1>1 DEF filt_slot
  <2> QED
    BY <2>1 DEF msg_applied, book_upd_valid
<1>3. bid' = bid /\ ask' = ask
  BY <1>2, NotApplied
<1>4. crossed' = crossed
  BY <1>3 DEF crossed
<1>5. seq_gap' = seq_gap
  <2>1. Seqs!GapStep(SeqIn(m)) /\ SeqIn(m).complete = FALSE /\ SeqIn(m).seq_gap_clear = FALSE
    BY DEF Edge, Clock, Seqs!SeqStep, SeqIn
  <2>2. seq_gap \in BOOLEAN
    BY DEF TypeInv
  <2> QED
    BY <2>1, <2>2 DEF Seqs!GapStep, Seqs!seq_gap_pulse
<1>6. cfg' = cfg /\ References(b) /\ ExtractorStep(FeatureIn(b))
  BY DEF Edge, Clock
<1>7. vector' = vector /\ held_risk' = held_risk /\ ml_result' = ml_result
  BY <1>2, <1>6 DEF References, featureVars, mlGoldenVars
<1>8. feat'.valid = FALSE
  <2>1. FeatureIn(b).book = FALSE
    BY <1>2 DEF FeatureIn
  <2>2. feat \in [valid : BOOLEAN, slot : Slot \cup {0}, f : [1 .. 8 -> Unsigned]]
    BY DEF TypeInv
  <2> QED
    BY <1>6, <2>1, <2>2 DEF ExtractorStep
<1> QED
  BY <1>3, <1>4, <1>5, <1>6, <1>7, <1>8

LEMMA QuietVerdict ==
  ASSUME TypeInv, VerdictInv, SameModel, Spaced, MirrorInv, OffsetsFit,
         NEW m, Edge(m), m = NoMessage
  PROVE  VerdictInv'
<1>1. /\ bid' = bid /\ ask' = ask /\ crossed' = crossed /\ seq_gap' = seq_gap
      /\ cfg' = cfg /\ vector' = vector /\ held_risk' = held_risk
      /\ ml_result' = ml_result /\ feat'.valid = FALSE
  BY QuietEdge
<1>2. ~ml.valid => adverse_risk' = adverse_risk
  BY PolicyCall
<1>3. since' = Least(since + 1, SPACING)
  BY ContentAssumption DEF Edge, NoMessage, QUOTE, TRADE, CLEAR, HEARTBEAT
<1>4. /\ since = 1 => since' = 2
      /\ since = 2 => since' = 3
  BY <1>3, PathAssumption DEF Least, Spaced
<1>5. /\ feat \in [valid : BOOLEAN, slot : Slot \cup {0}, f : [1 .. 8 -> Unsigned]]
      /\ norm \in [valid : BOOLEAN, slot : Slot \cup {0},
                   x : [1 .. 8 -> -ByteHalf .. ByteHalf - 1]]
      /\ ml \in [valid : BOOLEAN, slot : Slot \cup {0}, z : Int]
  BY DEF TypeInv
<1>6. /\ norm' = [valid |-> feat.valid, slot |-> feat.slot,
                  x |-> [i \in 1 .. 8 |-> norm8(feat.f[i], cfg.offset[i], cfg.scale[i])]]
      /\ ml' = [valid |-> norm.valid, slot |-> norm.slot, z |-> z_c]
  BY PathAssumption DEF Edge, Clock, NormalizerStep, ClassifierStep
<1>7. ml_result'.adverse_risk = held_risk'
  BY <1>1 DEF VerdictInv
<1>8. norm'.valid =>
        /\ since' = 2 /\ norm'.slot \in Slot
        /\ ml_result'.z = Score(norm'.x)
        /\ held_risk' = Verdict(norm.slot, ml_result.z)'
  <2> SUFFICES ASSUME feat.valid
               PROVE  /\ since' = 2 /\ norm'.slot \in Slot
                      /\ ml_result'.z = Score(norm'.x)
                      /\ held_risk' = Verdict(norm.slot, ml_result.z)'
    BY <1>6
  <2>1. /\ since = 1 /\ feat.slot \in Slot /\ ml_result.z = Score(Lanes(vector))
        /\ held_risk = Verdict(feat.slot, ml_result.z)
        /\ ~ml.valid
    BY DEF VerdictInv
  <2>2. norm'.slot = feat.slot
    BY <1>6
  <2>3. norm'.x = Lanes(vector)
    <3>1. vector \in [1 .. 8 -> Int] /\ feat.f = [i \in 1 .. 8 |-> vector[i] % WORD]
      BY DEF MirrorInv, FeaturesAgree
    <3>2. ASSUME NEW i \in 1 .. 8
          PROVE  norm8(feat.f[i], cfg.offset[i], cfg.scale[i])
                   = Lane(vector[i], cfg.offset[i], cfg.scale[i])
      <4>1. vector[i] \in Int /\ feat.f[i] = vector[i] % NormWord
        BY <3>1 DEF SameModel
      <4>2. cfg.offset[i] \in Int /\ cfg.scale[i] \in Nat \ {0}
        BY ConfigFacts
      <4>3. AsSigned(feat.f[i]) - AsSigned(cfg.offset[i])
              \in -(NormWord \div 2) .. NormWord \div 2 - 1
        BY DEF OffsetsFit
      <4> QED
        BY <4>1, <4>2, <4>3, LaneAgrees
    <3>3. norm'.x = [i \in 1 .. 8 |-> norm8(feat.f[i], cfg.offset[i], cfg.scale[i])]
      BY <1>6
    <3>4. Lanes(vector) = [i \in 1 .. 8 |-> Lane(vector[i], cfg.offset[i], cfg.scale[i])]
      BY <3>1 DEF Lanes
    <3> QED
      BY <3>2, <3>3, <3>4
  <2>4. Verdict(norm.slot, ml_result.z)' = Verdict(feat.slot, ml_result.z)
    BY <1>1, <1>2, <2>1, <2>2, SameVerdict, NextVerdict
  <2> QED
    BY <1>1, <1>4, <2>1, <2>2, <2>3, <2>4
<1>9. ml'.valid =>
        /\ since' = 3 /\ ml'.slot \in Slot
        /\ ml_result'.z = ml'.z
        /\ held_risk' = Verdict(ml.slot, ml_result.z)'
  <2> SUFFICES ASSUME norm.valid
               PROVE  /\ since' = 3 /\ ml'.slot \in Slot
                      /\ ml_result'.z = ml'.z
                      /\ held_risk' = Verdict(ml.slot, ml_result.z)'
    BY <1>6
  <2>1. /\ since = 2 /\ norm.slot \in Slot /\ ml_result.z = Score(norm.x)
        /\ held_risk = Verdict(norm.slot, ml_result.z)
        /\ ~ml.valid
    BY DEF VerdictInv
  <2>2. ml'.slot = norm.slot /\ ml'.z = z_c
    BY <1>6
  <2>3. z_c = Score(norm.x)
    BY DEF SameModel, z_c, Score
  <2>4. Verdict(ml.slot, ml_result.z)' = Verdict(norm.slot, ml_result.z)
    BY <1>1, <1>2, <2>1, <2>2, SameVerdict, NextVerdict
  <2> QED
    BY <1>1, <1>4, <2>1, <2>2, <2>3, <2>4
<1>10. ~feat'.valid /\ ~norm'.valid /\ ~ml'.valid => adverse_risk' = held_risk'
  <2>1. ~norm'.valid /\ ~ml'.valid => ~feat.valid /\ ~norm.valid
    BY <1>6
  <2>2. CASE ml.valid
    <3>1. ml_result.z = ml.z /\ held_risk = Verdict(ml.slot, ml_result.z)
      BY <2>2 DEF VerdictInv
    <3> QED
      BY <1>1, <2>2, <3>1, PolicyCall
  <2>3. CASE ~ml.valid
    <3>1. adverse_risk' = adverse_risk
      BY <2>3, PolicyCall
    <3> QED
      BY <1>1, <2>1, <2>3, <3>1 DEF VerdictInv
  <2> QED
    BY <2>2, <2>3
<1> QED
  BY <1>1, <1>7, <1>8, <1>9, <1>10 DEF VerdictInv

LEMMA MessageVerdict ==
  ASSUME TypeInv, VerdictInv, Spaced, NEW m, Edge(m), m # NoMessage
  PROVE  VerdictInv'
<1> DEFINE b == BookIn(m)
           s == filt_slot(b)
           z == Score(Lanes(vector'))
<1>1. since >= 4 /\ since' = 1
  BY PathAssumption DEF Edge, Spaced, TypeInv
<1>2. ~feat.valid /\ ~norm.valid /\ ~ml.valid
  BY <1>1 DEF VerdictInv
<1>3. /\ norm'.valid = feat.valid /\ ml'.valid = norm.valid /\ cfg' = cfg
      /\ ExtractorStep(FeatureIn(b))
  BY DEF Edge, Clock, NormalizerStep, ClassifierStep
<1>4. adverse_risk' = adverse_risk /\ adverse_risk = held_risk
  BY <1>2, PolicyCall DEF VerdictInv
<1>5. /\ feat \in [valid : BOOLEAN, slot : Slot \cup {0}, f : [1 .. 8 -> Unsigned]]
      /\ norm.valid \in BOOLEAN /\ held_risk \in BOOLEAN
  BY DEF TypeInv
<1>6. FeatureIn(b).book = book_upd_valid(b)
  BY FeatureWires
<1>7. CASE ~book_upd_valid(b)
  <2>1. held_risk' = held_risk /\ ml_result' = ml_result
    BY <1>7, NotClassified
  <2>2. feat'.valid = FALSE
    BY <1>3, <1>5, <1>6, <1>7 DEF ExtractorStep
  <2> QED
    BY <1>2, <1>3, <1>4, <2>1, <2>2 DEF VerdictInv
<1>8. CASE book_upd_valid(b)
  <2>1. msg_applied(b)
    BY <1>8 DEF book_upd_valid
  <2>2. /\ s \in Slot /\ bid'[s] = next_bid(b) /\ ask'[s] = next_ask(b)
    BY <2>1, Applied
  <2>3. /\ held_risk' = Result(b, z)
        /\ ml_result' = [z |-> z, risk_level |-> RiskLevel(z),
                         adverse_risk |-> Result(b, z), safe_forced |-> Forced(b)]
    BY <1>8, Classified
  <2>4. feat'.valid = TRUE /\ feat'.slot = s
    <3>1. FeatureIn(b).book /\ FeatureIn(b).slot = s
      BY <1>6, <1>8, <2>1, FeatureWires
    <3> QED
      BY <1>3, <3>1 DEF ExtractorStep
  <2>5. Lanes(vector)' = Lanes(vector')
    BY <1>3 DEF Lanes
  <2>6. Score(Lanes(vector))' = z
    BY <2>5 DEF Score
  <2>7. crossed'[s] = next_crossed(b)
    BY <2>2 DEF crossed, next_crossed
  <2> HIDE DEF b, s, z
  <2>8. ml_result'.z = z /\ ml_result'.adverse_risk = Result(b, z)
    BY <2>3
  <2>9. held_risk' = Judged(s)
    <3>1. Judged(s) =
            (\/ ~next_bid(b).valid \/ ~next_ask(b).valid \/ next_crossed(b) \/ seq_gap'
             \/ z >= cfg.ml_th_high
             \/ z > cfg.ml_th_low /\ held_risk)
      BY <1>3, <1>4, <2>2, <2>7, <2>8 DEF Judged
    <3> QED
      BY <2>3, <3>1 DEF Result, Forced
  <2>10. held_risk' = Verdict(feat.slot, ml_result.z)'
    BY <2>4, <2>9, NextVerdict
  <2> QED
    BY <1>1, <1>2, <1>3, <2>2, <2>3, <2>4, <2>6, <2>8, <2>10 DEF VerdictInv
<1> QED
  BY <1>7, <1>8

(* Once a message has gone through the branch the policy's verdict is      *)
(* ml_golden.py's, though ml_policy.v reads the book, the gap flag and its *)
(* own level three cycles after the reference did (FR-26, FR-31): the      *)
(* parser leaves at least four cycles between two messages.  The engine's  *)
(* memories must hold the reference's weights, and no difference the       *)
(* normalizer takes may leave its word.                                    *)
THEOREM VerdictSafe ==
  ASSUME SameSizes, SameModel, Spaced
  PROVE  Spec /\ []OffsetsFit => []VerdictsAgree
<1>1. Init => VerdictInv
  <2> SUFFICES ASSUME Init PROVE VerdictInv
    OBVIOUS
  <2>1. ~feat.valid /\ ~norm.valid /\ ~ml.valid
    BY DEF Init, ExtractorReset, ClassifierReset
  <2>2. adverse_risk = FALSE /\ held_risk = FALSE /\ ml_result.adverse_risk = FALSE
    BY DEF Init, MlReset, MlGoldenInit
  <2> QED
    BY <2>1, <2>2 DEF VerdictInv
<1>2. TypeInv /\ MirrorInv /\ OffsetsFit /\ VerdictInv /\ [Next]_vars => VerdictInv'
  <2> SUFFICES ASSUME TypeInv, MirrorInv, OffsetsFit, VerdictInv, [Next]_vars
               PROVE  VerdictInv'
    OBVIOUS
  <2>1. CASE Next
    <3>1. PICK m : Edge(m)
      BY <2>1, SomeEdge
    <3> QED
      BY <3>1, QuietVerdict, MessageVerdict
  <2>2. CASE UNCHANGED vars
    <3>1. /\ UNCHANGED <<seq_gap, bid, ask, feat, norm, ml, adverse_risk, vector>>
          /\ UNCHANGED <<held_risk, ml_result, cfg, since>>
      BY <2>2 DEF vars, sequenceVars, bookVars, extractorVars, classifierVars,
         mlVars, featureVars, mlGoldenVars
    <3>2. crossed' = crossed
      BY <3>1 DEF crossed
    <3>3. /\ Verdict(feat.slot, ml_result.z)' = Verdict(feat.slot, ml_result.z)
          /\ Verdict(norm.slot, ml_result.z)' = Verdict(norm.slot, ml_result.z)
          /\ Verdict(ml.slot, ml_result.z)' = Verdict(ml.slot, ml_result.z)
      BY <3>1, <3>2, SameVerdict, NextVerdict
    <3>4. Score(Lanes(vector))' = Score(Lanes(vector)) /\ Score(norm.x)' = Score(norm.x)
      BY <3>1 DEF Score, Lanes
    <3> QED
      BY <3>1, <3>3, <3>4 DEF VerdictInv
  <2> QED
    BY <2>1, <2>2
<1>3. VerdictInv => VerdictsAgree
  BY DEF VerdictInv, VerdictsAgree
<1> QED
  BY <1>1, <1>2, <1>3, TypeCorrect, MirrorCorrect, PTL DEF Spec

(* The offsets csr_block.v resets to are zero: then every difference fits, *)
(* and the verdicts agree whatever the messages and the other settings.    *)
THEOREM VerdictSafeAtReset ==
  ASSUME SameSizes, SameModel, Spaced, \A c \in Config, i \in 1 .. 8 : c.offset[i] = 0
  PROVE  Spec => []VerdictsAgree
<1>1. TypeInv => OffsetsFit
  <2> SUFFICES ASSUME TypeInv, NEW i \in 1 .. 8
               PROVE  AsSigned(feat.f[i]) - AsSigned(cfg.offset[i])
                        \in -(NormWord \div 2) .. NormWord \div 2 - 1
    BY DEF OffsetsFit
  <2> DEFINE r == feat.f[i]
             H == NormWord \div 2
  <2>1. r \in Int /\ 0 <= r /\ r < NormWord
    <3>1. r \in Unsigned
      BY DEF TypeInv
    <3> QED
      BY <3>1, WordFacts DEF Unsigned, SameModel
  <2>2. cfg.offset[i] = 0
    BY DEF TypeInv
  <2>3. NormWord = 2 * H /\ H \in Nat \ {0}
    BY NormFacts
  <2>4. AsSigned(0) = 0
    BY <2>3 DEF AsSigned, H
  <2>5. AsSigned(r) = IF r >= H THEN r - NormWord ELSE r
    BY DEF AsSigned
  <2> HIDE DEF r, H
  <2>6. AsSigned(r) - 0 \in -H .. H - 1
    BY <2>1, <2>3, <2>5
  <2> QED
    BY <2>2, <2>4, <2>6 DEF r, H
<1> QED
  BY <1>1, TypeCorrect, VerdictSafe, PTL

=============================================================================
