CONSTANTS
  ALIGN_DEPTH = 1
  SPACING = 4
  TX_HEADER_DELAY = 2
  PAYLOAD_BYTES = 1
  CycleMod = 10
  LatencyMod = 10
  MaxAge = 9
  SeqNum = {0}
  ReportModes = {FALSE}
  FifoFull = {FALSE}
  KillSwitch = {FALSE}
  MaxDrained = 0
  MaxDebt = 0
  NoFrame = NoFrame
  Blank = Blank
  Torn = Torn
  NoTrigger = NoTrigger
  RESPONSE = RESPONSE
SPECIFICATION Spec
INVARIANT LatencyReported
INVARIANT CaptureAligned
