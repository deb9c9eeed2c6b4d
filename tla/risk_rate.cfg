CONSTANTS
  Slot = {0}
  NoSlot = NoSlot
  NoIntent = NoIntent
  Half = 8
  CycleMod = 1
  MaxWindow = 9
  IntentQty = {1}
  Settings <- Fixed
  Refill = 3
  Reduce = FALSE
  Intent <- MCIntent
  Feed <- MCFeed
  Config <- MCConfig
SPECIFICATION FixedSpec
INVARIANT RateBounded
