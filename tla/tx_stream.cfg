CONSTANTS
  ALIGN_DEPTH = 3
  SPACING = 16
  TX_HEADER_DELAY = 9
  PAYLOAD_BYTES = 16
  CycleMod = 1
  LatencyMod = 1
  MaxAge = 0
  SeqNum = {0, 1}
  ReportModes = {FALSE, TRUE}
  FifoFull = {FALSE}
  KillSwitch = {FALSE}
  MaxDrained = 0
  MaxDebt = 0
  NoFrame = NoFrame
  Blank = Blank
  Torn = Torn
  NoTrigger = NoTrigger
  RESPONSE = RESPONSE
SPECIFICATION FairSpec
PROPERTY ImplementsStream
