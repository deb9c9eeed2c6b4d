CONSTANTS
  None = None
  NoFrame = NoFrame
  Forever = Forever
  Junk = Junk
  NoSlot = NoSlot
  NoIntent = NoIntent
  Symbol = {1, 2}
  CounterMax = 15
  TriggerMod = 4
  MaxMessages = 2
  ORDER_TX_CYCLES = 5
  TICK_TO_TRADE_CYCLES = 11
  DEFAULT_INTER_ARRIVAL_CYCLES = 2
  FeedSymbols = {1}
  BurstSize = 2
  CrossBy = {1, 20}
  Jump = {2, 5}
  Back = {1, 3}
  Skew = {5, 10}
  RxCount = 2
  MaxStray = 1
  Slot = {0}
  WordMod = 65536
  Configs <- MCConfigs
  Scenarios <- MCScenarios
  Count <- MCCount
  Drift <- MCDrift
  Qty <- MCQty
  Content <- MCContent
  Traffic <- MCTraffic
  Setup <- MCSetup
  Steps <- MCSteps
  Controls <- MCControls
  MaxCalls <- MCMaxCalls
  Arrivals <- MCArrivals
  Listening <- MCListening
  OrderNames <- MCOrderNames
  Reasons <- MCReasons
SPECIFICATION Spec
INVARIANT TypeOK
INVARIANT EngineAgrees
INVARIANT GapsTold
INVARIANT RefillExact
INVARIANT SlotsAreOrders
INVARIANT LedgerIsNet
INVARIANT OrdersOnFreshBooks
INVARIANT IngressBalance
INVARIANT SignalBalance
INVARIANT ThrottleHolds
INVARIANT PositionWithinLimit
INVARIANT NoSignalConflict
INVARIANT ForcedFramesBite
INVARIANT ScenarioAccounted
INVARIANT RecordsAccounted
CHECK_DEADLOCK FALSE
