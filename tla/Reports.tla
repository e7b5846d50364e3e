------------------------------- MODULE Reports -------------------------------
(***************************************************************************)
(* The reports that the analytics endpoints and the money overview make of *)
(* the closed trades: calendars, groups, histograms and the readiness for  *)
(* real money.                                                             *)
(* Source: backend/app/services/analytics/metrics.py and money.py.         *)
(*                                                                         *)
(* A trade is a record of its symbol, pnl and the hours at which it was    *)
(* opened and closed, counted from the epoch; a report is the function or  *)
(* sequence of its rows, without rounding and without the order in which   *)
(* groups are listed.  A row's win rate follows from its counts.           *)
(***************************************************************************)
EXTENDS Metrics

CONSTANTS FewTrades, EnoughTrades, PlentyTrades  \* of readiness_score: 10, 30, 60

ASSUME ReadinessAssumption ==
  /\ FewTrades \in Nat /\ EnoughTrades \in Nat /\ PlentyTrades \in Nat
  /\ FewTrades <= EnoughTrades /\ EnoughTrades <= PlentyTrades

Pnls(trades) == [i \in DOMAIN trades |-> trades[i].pnl]

-----------------------------------------------------------------------------
\* Buckets: key[i] is the row of the i-th trade; a trade without a key is in none.

RowOf(mine, trades) ==
  [trades |-> Cardinality(mine), pnl |-> Total(Pnls(trades), mine),
   wins |-> Cardinality({i \in mine : trades[i].pnl > 0})]
Buckets(keys, key, trades) ==
  [k \in keys |-> RowOf({i \in DOMAIN key : key[i] = k}, trades)]

PnlByGroup(trades) ==
  LET symbols == [i \in DOMAIN trades |-> trades[i].symbol]
  IN Buckets(Range(symbols), symbols, trades)

\* The calendars leave out a trade without a closing time.
Timed(trades) == {i \in DOMAIN trades : trades[i].closedAt # 0}
DayOf(t) == t.closedAt \div 24
HourOf(t) == t.closedAt % 24
\* The epoch was a Thursday, and Monday is 0.
\* Bug: Monday is 1.
IsoWeekdayOf(t) == 1 + ((DayOf(t) + 3) % 7)
WeekdayOf(t) == (DayOf(t) + 3) % 7

PnlByHour(trades) ==
  Buckets(0 .. 23, [i \in Timed(trades) |-> HourOf(trades[i])], trades)
PnlByWeekday(trades) ==
  Buckets(0 .. 6, [i \in Timed(trades) |-> WeekdayOf(trades[i])], trades)

\* One row for each day with a trade, and the running total over them in order.
PnlByDay(trades) ==
  LET days == [i \in Timed(trades) |-> DayOf(trades[i])]
  IN Buckets(Range(days), days, trades)
CountOf(buckets) == [k \in DOMAIN buckets |-> buckets[k].trades]
PnlOf(buckets) == [k \in DOMAIN buckets |-> buckets[k].pnl]
Cumulative(days) ==
  [day \in DOMAIN days |-> Total(PnlOf(days), {d \in DOMAIN days : d <= day})]

\* The first of the buckets with the highest and with the lowest pnl, among those
\* in which anything was traded.
Active(buckets) == {k \in DOMAIN buckets : buckets[k].trades > 0}
BestBucket(buckets) ==
  CHOOSE k \in Active(buckets) : \A j \in Active(buckets) :
    buckets[k].pnl > buckets[j].pnl \/ (buckets[k].pnl = buckets[j].pnl /\ k <= j)
WorstBucket(buckets) ==
  CHOOSE k \in Active(buckets) : \A j \in Active(buckets) :
    buckets[k].pnl < buckets[j].pnl \/ (buckets[k].pnl = buckets[j].pnl /\ k <= j)

-----------------------------------------------------------------------------
\* histogram: equal bins from the least value to the greatest; if these are the
\* same, bins of width 1 from there.  Widths and edges are scaled by the number of
\* bins; values[i] is the value of the i-th trade that has one.

ScaledWidth(values, bins) ==
  LET spread == Max(Range(values)) - Min(Range(values))
  IN IF spread = 0 THEN bins ELSE spread
\* The greatest value belongs to the last bin.
\* Bug: it does not.
BinBelowEdge(v, values, bins) ==
  1 + ((v - Min(Range(values))) * bins) \div ScaledWidth(values, bins)
Bin(v, values, bins) ==
  LET bin == 1 + ((v - Min(Range(values))) * bins) \div ScaledWidth(values, bins)
  IN IF bin < bins THEN bin ELSE bins
Histogram(values, bins) ==
  IF DOMAIN values = {} THEN << >>
  ELSE [b \in 1 .. bins |->
          [from |-> bins * Min(Range(values)) + (b - 1) * ScaledWidth(values, bins),
           to |-> bins * Min(Range(values)) + b * ScaledWidth(values, bins),
           count |-> Cardinality({i \in DOMAIN values : Bin(values[i], values, bins) = b})]]

\* hold_times_minutes, in hours: trades without both times are left out.
HoldTimes(trades) ==
  [i \in {j \in Timed(trades) : trades[j].openedAt # 0} |-> trades[i].closedAt - trades[i].openedAt]

-----------------------------------------------------------------------------
\* readiness_score

\* A record without losses has no profit factor, and passes for none.
FactorReaches(report, tenths) ==
  report.grossLoss > 0 /\ 10 * report.grossProfit >= tenths * report.grossLoss

Checks(report, backtest, slippage, walkForward) ==
  [profitable |-> report.totalPnl > 0,
   enough |-> report.trades >= EnoughTrades,
   plenty |-> report.trades >= PlentyTrades,
   calm |-> ~FallExceeds(report.maxDrawdown, 15),
   factor |-> FactorReaches(report, 12),
   strongFactor |-> FactorReaches(report, 15),
   winRate |-> report.trades > 0 /\ 100 * report.wins >= 45 * report.trades,
   slippage |-> slippage, backtest |-> backtest, walkForward |-> walkForward]

Score(checks) == 10 * Cardinality({c \in DOMAIN checks : checks[c]})

\* Bug: a loss does not matter when there are trades enough.
NotReadyBySize(report) ==
  report.trades < FewTrades \/ FallExceeds(report.maxDrawdown, 25)
NotReady(report) ==
  ~(report.totalPnl > 0) \/ report.trades < FewTrades \/ FallExceeds(report.maxDrawdown, 25)

Readiness(report, checks) ==
  CASE NotReady(report) -> "not_ready"
    [] ~NotReady(report) /\ \A c \in DOMAIN checks : checks[c] -> "strong_candidate"
    [] ~NotReady(report) /\ (\E c \in DOMAIN checks : ~checks[c])
         /\ \A c \in {"profitable", "enough", "calm", "factor", "backtest"} : checks[c] -> "promising"
    [] OTHER -> "watchlist"
=============================================================================
