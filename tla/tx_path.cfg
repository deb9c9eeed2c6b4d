CONSTANTS
  ALIGN_DEPTH = 3
  SPACING = 16
  TX_HEADER_DELAY = 9
  PAYLOAD_BYTES = 16
  CycleMod = 1
  LatencyMod = 1
  MaxAge = 0
  SeqNum = {0, 1}
  ReportModes = {FALSE}
  FifoFull = {FALSE, TRUE}
  KillSwitch = {FALSE, TRUE}
  MaxDrained = 4
  MaxDebt = 1
  NoFrame = NoFrame
  Blank = Blank
  Torn = Torn
  NoTrigger = NoTrigger
  RESPONSE = RESPONSE
SPECIFICATION Spec
INVARIANT TypeOK
INVARIANT LaunchFindsIdle
INVARIANT WriteWindow
INVARIANT SignalConservation
INVARIANT KillDrainBounded
