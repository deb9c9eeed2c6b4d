CONSTANTS
  Slot = {0}
  NoSlot = NoSlot
  NoIntent = NoIntent
  Half = 8
  CycleMod = 1
  MaxWindow = 0
  IntentQty = {1, 3}
  Settings <- Rewritten
  Refill = 2
  Reduce = TRUE
  Intent <- MCIntent
  Feed <- MCFeed
  Config <- MCConfig
SPECIFICATION Spec
INVARIANT TypeOK
INVARIANT ExposureWithinLimit
INVARIANT LedgerMatchesOrders
INVARIANT TokensWithinCeiling
