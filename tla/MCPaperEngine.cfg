SPECIFICATION EngineSpec
CONSTANTS
  BTC = BTC
  Symbols = {BTC}
  StartingBalance = 100
  FillQtys = {1}
  FillPrices = {7}
  FillFees = {0}
  FundingPayments = {0}
  MaxEvents = 0
  SlippageModel = "impact"
  SlippageBps = 1000
  ImpactBpsPerLevel = 500
  TakerFeeBps = 0
  MakerFeeBps = 0
  AllowPartial = TRUE
  Requests <- AllRequests
  Books <- MCBooks
  ProtectPrices = {8}
  Latency = 1
  MaxLag = 1
  MaxOrders = 2
INVARIANTS
  EngineTypeOK
  PendingAreLive
  FillsAreAccounted
  NoOverfill
PROPERTIES
  EngineImplementsOrderLife
  NoSnapshotLeavesBreach
  FillsHonourBookAndLimit
