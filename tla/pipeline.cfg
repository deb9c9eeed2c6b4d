CONSTANTS
  Slot = {0}
  NoSlot = NoSlot
  NoIntent = NoIntent
  NoEvent = NoEvent
  SeqMod = 16
  PriceMod = 8
  QtyMod = 4
  ALIGN_DEPTH = 3
  SPACING = 5
  Half = 8
  CycleMod = 7
  Score = {0, 1, 2}
  MaxSeq = 2
  MaxMargin = 1
  MaxAge = 5
  Bids <- MCBids
  Asks <- MCAsks
  Content <- MCContent
  Config <- MCConfig
SPECIFICATION Spec
INVARIANT TypeOK
INVARIANT JudgedByItsOwnMessage
INVARIANT RejectionsWereAdverse
