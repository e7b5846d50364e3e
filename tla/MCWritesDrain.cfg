SPECIFICATION PersistentLiveSpec
CONSTANTS
  BTC = BTC
  Symbols = {BTC}
  StartingBalance = 100
  FillQtys = {1}
  FillPrices = {7}
  FillFees = {0}
  FundingPayments = {0}
  MaxEvents = 0
  SlippageModel = "touch"
  SlippageBps = 1000
  ImpactBpsPerLevel = 0
  TakerFeeBps = 0
  MakerFeeBps = 0
  AllowPartial = TRUE
  Requests <- EntryAndExit
  Books <- MCBooks
  ProtectPrices = {}
  Latency = 0
  MaxLag = 0
  MaxOrders = 2
  QueueSize = 4
  BatchSize = 2
  MaxRestarts = 0
PROPERTIES
  OrderEndsAreWritten
