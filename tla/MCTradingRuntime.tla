-------------------------- MODULE MCTradingRuntime --------------------------
(* Small instances of the trading runtime: one symbol, prices of a few ticks. *)
EXTENDS TradingRuntime
CONSTANTS BTC

\* Wide limits, so that a few lots can be traded; a crash of the market
\* against a position of two lots reaches the daily loss.
MCLimits ==
  [riskPerTrade |-> 10, dailyLoss |-> 6, drawdown |-> 20, openPositions |-> 2,
   leverage |-> 5, symbolExposure |-> 50, totalNotional |-> 150,
   consecutiveLosses |-> 1, spreadBps |-> 2000]

Shown(bid, ask, size, lag) ==
  [symbol |-> BTC, bid |-> bid, ask |-> ask, bidQty |-> size, askQty |-> size,
   lag |-> lag]
TwoBooks == {Shown(10, 11, 1, 0), Shown(7, 8, 1, 0)}

\* Every entry carries the stop price that the risk gate asks for.
Entry(side, type, qty, price, stop) ==
  [BlankOrder(BTC, side, type, qty) EXCEPT !.price = price, !.trigger = stop]
BuyLots == Entry("buy", "market", 2, NoPrice, 8)
BidBelow == Entry("buy", "limit", 2, 8, 7)
Crossing == {BuyLots, BidBelow}
MarketOnly == {BuyLots}

HardGlobal == {<<"global", "hard", "manual">>}
\* People also halt the symbol softly, for a reason of theirs or for its data.
HandTrips == HardGlobal \union {<<BTC, "soft", reason>> : reason \in ManualReasons}
NoTrips == {}

Up == [symbol |-> BTC, side |-> "buy", stop |-> 8, target |-> 13, riskBps |-> 500]
Down == [symbol |-> BTC, side |-> "sell", stop |-> 13, target |-> 8, riskBps |-> 500]
BothWays == {Up, Down}
=============================================================================
