---------------------------- MODULE AccountReports ----------------------------
(***************************************************************************)
(* The paper account together with what is reported of it: each trade that *)
(* a fill closes is appended to closed_trades with its times, and every    *)
(* report is computed anew from that list when it is asked for.            *)
(* Source: backend/app/services/paper_engine/account.py (_close) and the   *)
(* analytics endpoints of api/routes.py.                                   *)
(*                                                                         *)
(* The venue stamps fills with the hours in Hours, in ascending order.     *)
(***************************************************************************)
EXTENDS PaperAccount, Reports

CONSTANTS Hours,  \* the hours at which fills may happen, 0 excluded
          Bins    \* the bins that a histogram may be asked for

ASSUME ReportsAssumption == Hours \subseteq Nat \ {0} /\ Bins \subseteq Nat \ {0}

VARIABLES now,       \* Fill.ts_ms of the last fill, in hours
          openedAt,  \* Position.opened_ts_ms of each symbol, in hours
          trades     \* PaperAccount.closed_trades

reportVars == <<accountVars, now, openedAt, trades>>

\* A fill that ends the position of its symbol, be it by closing or by flipping it.
Closes(s) ==
  IsOpen(positions[s]) /\ ~(IsOpen(positions'[s]) /\ positions'[s].side = positions[s].side)
Begins(s) == IsOpen(positions'[s]) /\ (~IsOpen(positions[s]) \/ Closes(s))

FillAt(fill, hour) ==
  LET s == fill.symbol
  IN /\ hour >= now /\ now' = hour
     /\ ApplyFill(fill)
     /\ openedAt' = [openedAt EXCEPT ![s] = IF Begins(s) THEN hour ELSE @]
     /\ trades' = IF Closes(s)
                  THEN Append(trades, [symbol |-> s, pnl |-> closed'[s] - closed[s],
                                       openedAt |-> openedAt[s], closedAt |-> hour])
                  ELSE trades

ReportsInit ==
  /\ AccountInit
  /\ now = 0 /\ openedAt = [s \in Symbols |-> 0] /\ trades = << >>

ReportsNext ==
  /\ events < MaxEvents
  /\ \/ \E fill \in Fills, hour \in Hours : FillAt(fill, hour)
     \/ /\ \E s \in Symbols, payment \in FundingPayments : ApplyFunding(s, payment)
        /\ UNCHANGED <<now, openedAt, trades>>

ReportsSpec == ReportsInit /\ [][ReportsNext]_reportVars

-----------------------------------------------------------------------------
\* Two of the endpoints.
Report == Performance(StartingBalance, Pnls(trades))
Values(metric) == IF metric = "hold_time" THEN HoldTimes(trades) ELSE Pnls(trades)
Distribution(metric, bins) == Histogram(Values(metric), bins)

RealizedTotal == Total(closed, Symbols)

\* Every report is about all closed trades, and about each of them once: the
\* groups agree with the account symbol by symbol, and the hours, weekdays and
\* days add up to what was realized, however the trades fall into them; no
\* callout is outdone by a bucket.
AddsUp(buckets) ==
  /\ Total(CountOf(buckets), DOMAIN buckets) = Len(trades)
  /\ Total(PnlOf(buckets), DOMAIN buckets) = RealizedTotal
  /\ trades # << >> =>
       LET active == Cardinality(Active(buckets))
       IN /\ active * buckets[BestBucket(buckets)].pnl >= RealizedTotal
          /\ active * buckets[WorstBucket(buckets)].pnl <= RealizedTotal
ReportsAddUp ==
  LET days == PnlByDay(trades)
      groups == PnlByGroup(trades)
  IN /\ AddsUp(PnlByHour(trades)) /\ AddsUp(PnlByWeekday(trades))
     /\ AddsUp(days)
     /\ trades # << >> => Cumulative(days)[Max(DOMAIN days)] = RealizedTotal
     /\ \A s \in DOMAIN groups : groups[s].pnl = closed[s]
     /\ \A s \in Symbols \ DOMAIN groups : closed[s] = 0

\* A bin of a histogram counts exactly the values between its edges, the last
\* bin its upper edge too, whatever number of bins is asked for.
CountsWithinEdges(metric, bins) ==
  LET rows == Distribution(metric, bins)
      values == Values(metric)
      inside(v, b) == /\ rows[b].from <= bins * v
                      /\ bins * v < rows[b].to \/ (b = bins /\ bins * v = rows[b].to)
  IN DOMAIN values # {} =>
       \A b \in 1 .. bins :
         rows[b].count = Cardinality({i \in DOMAIN values : inside(values[i], b)})
HistogramCountsEachTrade ==
  \A metric \in {"trade_pnl", "hold_time"}, bins \in Bins : CountsWithinEdges(metric, bins)

\* An account without open positions is called anything but "not ready" only if
\* it really holds more than it started with, and a full score and the highest
\* status are the same thing, whatever the confirmations.
ReadyOnlyWithProfit ==
  \A backtest, slippage, walkForward \in BOOLEAN :
    LET checks == Checks(Report, backtest, slippage, walkForward)
        status == Readiness(Report, checks)
    IN /\ (\A s \in Symbols : ~IsOpen(positions[s])) /\ status # "not_ready" =>
            balance > StartingBalance
       /\ (status = "strong_candidate") = (Score(checks) = 100)
=============================================================================
