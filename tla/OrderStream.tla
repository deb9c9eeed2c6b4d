----------------------------- MODULE OrderStream -----------------------------
(***************************************************************************)
(* What the transmit path promises the rest of the engine, without its     *)
(* clock: decisions are sent in the order they were made (FR-51), each at  *)
(* most once; one is dropped only when Depth others are pending (spec      *)
(* 7.5); a reply to a CSR read never goes ahead of a decision; and every   *)
(* decision that was not dropped is sent.                                  *)
(***************************************************************************)
EXTENDS Naturals, Sequences

CONSTANTS
  Item,       \* decisions that ask for a frame
  Nothing,    \* no decision, or an empty wire
  Reply,      \* the frame that answers a CSR read
  Depth       \* pending decisions that are never dropped

VARIABLES
  decided,    \* the decision being made
  pending,    \* decisions waiting for the wire, the oldest first
  wire        \* the frame last handed to the MAC

streamVars == <<decided, pending, wire>>

Init ==
  /\ decided = Nothing
  /\ pending = <<>>
  /\ wire = Nothing

(* The decision joins those left; it may be dropped behind Depth of them.  *)
Join(left) ==
  \/ decided = Nothing /\ pending' = left
  \/ decided # Nothing /\ pending' = Append(left, decided)
  \/ decided # Nothing /\ Len(left) >= Depth /\ pending' = left

Decide == decided' \in Item \cup {Nothing}

Launch ==
  /\ pending # <<>>
  /\ wire' = Head(pending)
  /\ Join(Tail(pending))
  /\ Decide

Answer ==
  /\ pending = <<>> /\ decided = Nothing
  /\ wire' = Reply
  /\ UNCHANGED pending
  /\ Decide

Hold == UNCHANGED wire /\ Join(pending) /\ Decide

Next == Launch \/ Answer \/ Hold

Spec == Init /\ [][Next]_streamVars

FairSpec == Spec /\ WF_streamVars(Launch)

=============================================================================
