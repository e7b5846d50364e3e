SPECIFICATION BacktestSpec
CONSTANTS
  BTC = BTC
  Symbols = {BTC}
  StartingBalance = 1000
  FillQtys = {1}
  FillPrices = {1}
  FillFees = {0}
  FundingPayments = {0}
  MaxEvents = 0
  SlippageModel = "touch"
  SlippageBps = 0
  ImpactBpsPerLevel = 0
  TakerFeeBps = 500
  MakerFeeBps = 0
  AllowPartial = TRUE
  Requests = {}
  Books = {}
  ProtectPrices = {}
  Latency = 1
  MaxLag = 1
  MaxOrders = 10
  Limits <- MCLimits
  Voters = {"trend_breakout", "mean_reversion"}
  Confidences = {50, 85}
  Filters = {"regime_filter", "funding_filter", "volatility_filter"}
  Readings <- MCReadings
  Atr = 2
  Bars = 10
  Warmup = 1
  FoldCount = 2
  FoldMin = 4
  Closes = {16, 20}
  HalfSpread = 1
  Depth = 1000
INVARIANTS
  StopsBracketEntries
  BarTradedByOneFold
  ReportExplainsBalance
  DrawdownIsDeepestFall
PROPERTIES
  NoFillOnSignalBar
  ExitsOnlyReduce
  NeverPyramids
CHECK_DEADLOCK FALSE
