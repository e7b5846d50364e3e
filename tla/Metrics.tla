------------------------------- MODULE Metrics -------------------------------
(***************************************************************************)
(* The figures that are reported about closed trades.                      *)
(* Source: backend/app/services/analytics/metrics.py and the ledger of     *)
(* money.py.                                                               *)
(*                                                                         *)
(* A trade is its net pnl; a sequence of trades is in the order in which   *)
(* they were closed, which is the order both files sort them into.         *)
(***************************************************************************)
EXTENDS Integers, Sequences, Lists

\* equity_curve: what the account was worth before the first trade and after
\* each of them.
EquityCurve(starting, trades) ==
  [i \in 1 .. Len(trades) + 1 |-> starting + Total(trades, 1 .. i - 1)]

\* max_drawdown: one pass over the curve with the highest value so far.  The
\* percentage that is reported is that of the deepest fall in money, from base.
Higher(a, b) == IF a > b THEN a ELSE b
Deeper(seen, peak, fall) ==
  [peak |-> peak, worst |-> Higher(seen.worst, fall),
   base |-> IF fall > seen.worst THEN peak ELSE seen.base]
\* Bug: the fall is measured from the value before, not from the peak.
FallFromLast(seen, value) == Deeper([seen EXCEPT !.peak = value], value, seen.peak - value)
Fall(seen, value) ==
  LET peak == Higher(seen.peak, value) IN Deeper(seen, peak, peak - value)
Drawdowns == [peak : Int, worst : Int, base : Int]
Falls == [seen \in Drawdowns |-> [value \in Int |-> Fall(seen, value)]]
MaxDrawdown(curve) == Looped(Falls, [peak |-> Head(curve), worst |-> 0, base |-> 0], curve)
FallExceeds(drawdown, percent) ==
  drawdown.base > 0 /\ 100 * drawdown.worst > percent * drawdown.base

\* performance, without the ratios of these figures.
Performance(starting, trades) ==
  LET wins == {i \in DOMAIN trades : trades[i] > 0}
      losses == {i \in DOMAIN trades : trades[i] <= 0}
  IN [trades |-> Len(trades), wins |-> Cardinality(wins), losses |-> Cardinality(losses),
      totalPnl |-> Total(trades, DOMAIN trades),
      grossProfit |-> Total(trades, wins), grossLoss |-> -Total(trades, losses),
      maxDrawdown |-> MaxDrawdown(EquityCurve(starting, trades))]

\* money_ledger: the cash before and after each closed trade.
MoneyLedger(starting, trades) ==
  LET curve == EquityCurve(starting, trades)
  IN [i \in DOMAIN trades |-> [before |-> curve[i], after |-> curve[i + 1], pnl |-> trades[i]]]
=============================================================================
