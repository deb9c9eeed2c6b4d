CONSTANTS
  Slot = {0}
  NoSlot = NoSlot
  NoIntent = NoIntent
  Half = 8
  CycleMod = 1
  MaxWindow = 0
  IntentQty = {0, 1}
  Settings <- Low
  Refill = 2
  Reduce = TRUE
  Intent <- MCIntent
  Feed <- MCFeed
  Config <- MCConfig
SPECIFICATION FixedSpec
INVARIANT PositionBounded
