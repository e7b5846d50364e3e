SPECIFICATION RuntimeSpec
CONSTANTS
  BTC = BTC
  Symbols = {BTC}
  StartingBalance = 100
  FillQtys = {1, 2, 3, 4}
  FillPrices = {7}
  FillFees = {0}
  FundingPayments = {0}
  MaxEvents = 0
  SlippageModel = "touch"
  SlippageBps = 0
  ImpactBpsPerLevel = 0
  TakerFeeBps = 0
  MakerFeeBps = 0
  AllowPartial = TRUE
  Books <- TwoBooks
  Latency = 1
  MaxLag = 0
  Scopes = {"global", "strategy", BTC}
  Causes = {"stale", "volatility", "funding", "slippage", "loss", "manual", "manual_stale"}
  Limits <- MCLimits
  Requests <- MarketOnly
  ProtectPrices = {8}
  MaxOrders = 2
  Signals = {}
  Detectors = {}
  ManualTrips <- HardGlobal
PROPERTIES
  HardHaltNeverOpens
