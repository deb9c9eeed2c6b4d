CONSTANTS
  Slot = {0, 1}
  NoSlot = NoSlot
  NoEvent = NoEvent
  HistorySlot = {0, 1}
  Tracked = {0, 1}
  WORD = 16
  Word = 16
  NormWord = 16
  WINDOW = 3
  window = 3
  MAX_WINDOW = 4
  ByteHalf = 4
  w_mem <- MCWeights
  Weights <- MCWeights
  bias_mem = 0
  Bias = 0
  score_offset = 0
  score_scale = 2
  MaxRisk = 7
  SeqMod = 16
  SPACING = 4
  MaxMessages = 5
  Content <- MCContent
  Config <- MCConfig
SPECIFICATION Spec
INVARIANT TypeOK
INVARIANT FeaturesAgree
INVARIANT FeaturesFromHistory
INVARIANT VerdictsAgree
