----------------------------- MODULE RiskLimits -----------------------------
(***************************************************************************)
(* The pre-trade risk check and the risk-based sizing of automatic orders. *)
(* Source: backend/app/services/risk/limits.py.                            *)
(*                                                                         *)
(* Percentages are integers and every comparison is multiplied out, so     *)
(* nothing is rounded.  Money counts in half ticks, because the reference  *)
(* price is the middle of the book.                                        *)
(*                                                                         *)
(* An intent has qty, price2, stop2 (NoStop: none), leverage, reduceOnly.  *)
(* An account state has equity2, peak2, dayPnl2, openPositions, symbol2    *)
(* and total2 (notionals), losses and cooling (the cooldown of the last    *)
(* loss has not run out).  A market state has age, book and funding, as    *)
(* classes: the ages of the data and the sizes of the funding rate that    *)
(* the checks tell apart.                                                  *)
(***************************************************************************)
EXTENDS Integers, FiniteSetsExt

CONSTANT Limits  \* RiskLimits: a record of percentages and counts

LimitNames == {"riskPerTrade", "dailyLoss", "drawdown", "openPositions", "leverage",
               "symbolExposure", "totalNotional", "consecutiveLosses", "spreadBps"}
ASSUME LimitsAssumption == Limits \in [LimitNames -> Nat]

NoStop == 0
Ages == {"fresh", "lagging", "blocked", "dead"}
Fundings == {"calm", "high", "spiking"}
Distance(a, b) == IF a > b THEN a - b ELSE b - a

\* The entry limits are percentages of the equity, or of one unit of money
\* when the account has lost everything.
EquityBase(equity2) == IF equity2 > 0 THEN equity2 ELSE 2
Over(amount, base, pct) == 100 * amount > base * pct
Reaches(loss, base, pct) == 100 * loss >= base * pct

WideSpread(book) ==
  20000 * (book.ask - book.bid) > Limits.spreadBps * (book.ask + book.bid)

ExposureAfter(intent, acct) == acct.symbol2 + intent.qty * intent.price2

\* check: every limit that an entry would break, not just the first.
Violations(intent, acct, mkt) ==
  LET base == EquityBase(acct.equity2)
      notional2 == intent.qty * intent.price2
      broken ==
        [stale       |-> mkt.age \in {"blocked", "dead"},
         spread      |-> WideSpread(mkt.book),
         funding     |-> mkt.funding # "calm",
         dailyLoss   |-> acct.dayPnl2 < 0 /\ Reaches(-acct.dayPnl2, base, Limits.dailyLoss),
         drawdown    |-> acct.peak2 > 0
                           /\ Reaches(acct.peak2 - acct.equity2, acct.peak2, Limits.drawdown),
         positions   |-> acct.openPositions >= Limits.openPositions /\ acct.symbol2 = 0,
         leverage    |-> intent.leverage > Limits.leverage,
         exposure    |-> Over(ExposureAfter(intent, acct), base, Limits.symbolExposure),
         notional    |-> Over(acct.total2 + notional2, base, Limits.totalNotional),
         noStop      |-> intent.stop2 = NoStop,
         riskAtStop  |-> intent.stop2 # NoStop
                           /\ Over(Distance(intent.price2, intent.stop2) * intent.qty,
                                   base, Limits.riskPerTrade),
         cooldown    |-> acct.losses >= Limits.consecutiveLosses /\ acct.cooling]
  IN {c \in DOMAIN broken : broken[c]}

\* Reduce-only exits are always allowed.
Allowed(intent, acct, mkt) ==
  intent.reduceOnly \/ Violations(intent, acct, mkt) = {}

-----------------------------------------------------------------------------
\* capped_position_size, rounded to whole lots as the planner rounds it: to the
\* nearest, halves to the even neighbour.
Rounded(n, d) ==
  LET q == n \div d
      r == n % d
  IN IF 2 * r > d \/ (2 * r = d /\ q % 2 = 1) THEN q + 1 ELSE q

Headroom == 95
RiskSize(equity2, entry2, stop2, riskBps) ==
  IF entry2 = stop2 THEN 0 ELSE Rounded(equity2 * riskBps, 10000 * Distance(entry2, stop2))
ExposureCap(equity2, entry2) ==
  Rounded(equity2 * Limits.symbolExposure * Headroom, 10000 * entry2)
CappedSize(equity2, entry2, stop2, riskBps) ==
  Min({RiskSize(equity2, entry2, stop2, riskBps), ExposureCap(equity2, entry2)})
=============================================================================
