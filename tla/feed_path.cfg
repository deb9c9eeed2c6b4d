CONSTANTS
  Slot = {0, 1}
  NoSlot = NoSlot
  NoIntent = NoIntent
  SeqMod = 7
  PriceMod = 4
  QtyMod = 16
  FirstSeq = 2
  CsrSeq = {0}
  MaxSent = 4
  Imbalances = {1, 8}
  Quotes <- MCQuotes
  Content <- FullContent
  Config <- MCConfig
SPECIFICATION Spec
INVARIANT TypeOK
INVARIANT BookCurrent
INVARIANT IntentJustified
INVARIANT NoConflict
PROPERTY BookMovesForward
