CONSTANTS
  Slot = {0, 1}
  NoSlot = NoSlot
  NoIntent = NoIntent
  SeqMod = 16
  PriceMod = 4
  QtyMod = 16
  FirstSeq = 2
  CsrSeq = {0}
  MaxSent = 2
  Imbalances = {2}
  Quotes <- MCQuotes
  Content <- FullContent
  Config <- MCConfig
SPECIFICATION Spec
PROPERTY CsrIsNoise
