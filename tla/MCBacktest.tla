----------------------------- MODULE MCBacktest -----------------------------
(* A short history of one symbol and the folds of its walk-forward.         *)
EXTENDS Backtest
CONSTANTS BTC

\* The defaults of the risk limits, but for the spread: prices are so few ticks
\* that one tick is more than the default allows.
MCLimits ==
  [riskPerTrade |-> 1, dailyLoss |-> 3, drawdown |-> 15, openPositions |-> 2,
   leverage |-> 5, symbolExposure |-> 50, totalNotional |-> 150,
   consecutiveLosses |-> 4, spreadBps |-> 2000]

\* A trend, a range, a volatile market and one too volatile to trade; without
\* funding, as in a backtest.
Reading(atrBps, adx) == [atrBps |-> atrBps, adx |-> adx, emas |-> "up", funding |-> 0]
MCReadings == {Reading(100, 30), Reading(100, 20), Reading(400, 30), Reading(600, 30)}
=============================================================================
