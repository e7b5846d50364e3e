SPECIFICATION ReportsSpec
CONSTANTS
  BTC = BTC
  ETH = ETH
  Symbols = {BTC, ETH}
  StartingBalance = 20
  FillQtys = {1, 2}
  FillPrices = {5, 8}
  FillFees = {1}
  FundingPayments <- MCFundingPayments
  MaxEvents = 4
  Hours = {1, 73, 242}
  Bins = {1, 2, 3}
  FewTrades = 1
  EnoughTrades = 2
  PlentyTrades = 2
INVARIANTS
  AccountTypeOK
  PositionIsNetOfFills
  BookedIsCashPlusCost
  BalanceIsBookedPnl
  ReportsAddUp
  HistogramCountsEachTrade
  ReadyOnlyWithProfit
PROPERTIES
  BalanceMovesWithBooks
CHECK_DEADLOCK FALSE
