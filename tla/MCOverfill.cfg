SPECIFICATION PersistentSpec
CONSTANTS
  BTC = BTC
  Symbols = {BTC}
  StartingBalance = 100
  FillQtys = {1}
  FillPrices = {7}
  FillFees = {0}
  FundingPayments = {0}
  MaxEvents = 0
  SlippageModel = "touch"
  SlippageBps = 1000
  ImpactBpsPerLevel = 0
  TakerFeeBps = 1000
  MakerFeeBps = 500
  AllowPartial = TRUE
  Requests <- MCRequests
  Books <- MCBooks
  ProtectPrices = {8}
  Latency = 0
  MaxLag = 0
  MaxOrders = 1
  QueueSize = 4
  BatchSize = 2
  MaxRestarts = 1
INVARIANTS
  NoOverfillEver
