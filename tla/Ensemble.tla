------------------------------ MODULE Ensemble ------------------------------
(***************************************************************************)
(* The weighted vote of the strategies on a closed candle.                 *)
(* Source: backend/app/services/strategy/ensemble.py; the votes are those  *)
(* of strategies.py, without the indicators that decide them: a strategy   *)
(* may vote either way or not at all, with any of a few confidences, but   *)
(* its stop and target are where the code puts them.  The filters decide   *)
(* on a reading of the market: its volatility, the strength and direction  *)
(* of its trend and its funding rate.                                      *)
(*                                                                         *)
(* Confidences are percentages and multipliers are tenths, so the net      *)
(* conviction is compared with its threshold without rounding.             *)
(***************************************************************************)
EXTENDS Integers, FiniteSetsExt

CONSTANTS Voters,       \* the enabled strategies that vote
          Confidences,  \* the confidences they may have
          Filters,      \* the enabled filters
          Readings,     \* what the filters may read off the market
          Atr           \* the average true range in ticks, positive where a strategy
                        \* votes; even, so that half of it is whole; ticks are coarse,
                        \* so readings do not follow it

ASSUME EnsembleAssumption ==
  /\ Voters \subseteq {"trend_breakout", "mean_reversion", "momentum_confirm"}
  /\ Confidences \subseteq 45 .. 90
  /\ Filters \subseteq {"regime_filter", "funding_filter", "volatility_filter"}
  /\ Readings \subseteq [atrBps : Int, adx : Int, emas : {"up", "down", "warming"}, funding : Int]
  /\ Atr \in Nat \ {0} /\ Atr % 2 = 0

\* A reading in which an indicator has too little history.
Warming == -1

Directions == {"buy", "sell", "neutral"}
MinConfidence == 25
Damp == 4

\* REGIME_ROUTING, in tenths.
Routing(regime, voter) ==
  CASE regime \in {"trending_up", "trending_down"} -> [trend_breakout |-> 13, mean_reversion |-> 4, momentum_confirm |-> 12][voter]
    [] regime = "ranging"  -> [trend_breakout |-> 4, mean_reversion |-> 14, momentum_confirm |-> 7][voter]
    [] regime = "high_vol" -> [trend_breakout |-> 6, mean_reversion |-> 3, momentum_confirm |-> 6][voter]
    [] regime = "unknown"  -> 10

\* What each strategy suggests with a vote: stop and target as distances from the
\* close, and the risk in basis points.  The target of a reversion is the VWAP,
\* which lies at least 1.5 ranges away.
TrendBreakout == [stop |-> 2 * Atr, target |-> 7 * (Atr \div 2), riskBps |-> 75]
MeanReversionVWAP == [stop |-> Atr, target |-> 3 * (Atr \div 2), riskBps |-> 50]
MomentumConfirmation == [stop |-> 3 * (Atr \div 2), target |-> 5 * (Atr \div 2), riskBps |-> 50]
Suggestion(voter) ==
  [trend_breakout |-> TrendBreakout, mean_reversion |-> MeanReversionVWAP,
   momentum_confirm |-> MomentumConfirmation][voter]

NoVote == [direction |-> "neutral", confidence |-> 0]
Votes == {NoVote} \union [direction : {"buy", "sell"}, confidence : Confidences]

-----------------------------------------------------------------------------
\* The filters.  The volatility is the average true range in hundredths of a
\* percent of the price, the funding rate is in hundredths of a percent.

FundingFilter(reading) == reading.funding >= 10 \/ reading.funding <= -10
VolatilityFilter(reading) ==
  reading.atrBps # Warming /\ (reading.atrBps < 5 \/ reading.atrBps > 500)

Vetoed(reading) ==
  \/ "funding_filter" \in Filters /\ FundingFilter(reading)
  \/ "volatility_filter" \in Filters /\ VolatilityFilter(reading)

\* High volatility comes before any trend.  The direction of a trend is told by
\* the averages, and has no consequence of its own.
RegimeFilter(reading) ==
  CASE Warming \in {reading.atrBps, reading.adx} \/ reading.emas = "warming" -> "unknown"
    [] reading.atrBps >= 300 -> "high_vol"
    [] reading.adx >= 25 /\ reading.emas = "up" -> "trending_up"
    [] reading.adx >= 25 /\ reading.emas = "down" -> "trending_down"
    [] OTHER -> "ranging"
RegimeOf(reading) == IF "regime_filter" \in Filters THEN RegimeFilter(reading) ELSE "unknown"

-----------------------------------------------------------------------------
\* evaluate, from the votes, the regime and the higher-timeframe bias

Score(votes, regime, direction) ==
  LET part(v) == IF votes[v].direction = direction
                 THEN Routing(regime, v) * votes[v].confidence ELSE 0
  IN MapThenSumSet(part, Voters)
TotalWeight(regime) ==
  LET weight(v) == Routing(regime, v) IN MapThenSumSet(weight, Voters)

\* Votes against the dominant trend keep a part of their score.
Damped(score, direction, bias) ==
  IF bias # "neutral" /\ direction # bias THEN Damp * score ELSE 10 * score
Net(votes, regime, bias) ==
  Damped(Score(votes, regime, "buy"), "buy", bias)
    - Damped(Score(votes, regime, "sell"), "sell", bias)

Size(n) == IF n < 0 THEN -n ELSE n
Convinced(votes, regime, bias) ==
  Size(Net(votes, regime, bias)) >= 10 * MinConfidence * TotalWeight(regime)

\* Stop, target and risk come from the most confident vote of the winning side,
\* the first in the order of the strategies when there are several.  A vote for
\* a side always has a stop, so the fallback to the best vote is never needed.
Rank(voter) == [trend_breakout |-> 1, mean_reversion |-> 2, momentum_confirm |-> 3][voter]
Conviction(vote, voter) == 10 * vote.confidence - Rank(voter)
\* Bug: from the most confident vote of all.
LeadOfAll(votes, direction) ==
  CHOOSE v \in Voters : \A w \in Voters : Conviction(votes[w], w) <= Conviction(votes[v], v)
Lead(votes, direction) ==
  CHOOSE v \in Voters :
    /\ votes[v].direction = direction
    /\ \A w \in Voters : votes[w].direction = direction =>
                           Conviction(votes[w], w) <= Conviction(votes[v], v)

NoSignal == [side |-> "neutral", stop |-> 0, target |-> 0, riskBps |-> 0]
Decided(votes, direction, close) ==
  LET lead == Lead(votes, direction)
      suggested == Suggestion(lead)
      up == IF votes[lead].direction = "buy" THEN 1 ELSE -1
  IN [side |-> direction, riskBps |-> suggested.riskBps,
      stop |-> close - up * suggested.stop, target |-> close + up * suggested.target]

Evaluate(votes, reading, bias, close) ==
  LET regime == RegimeOf(reading)
  IN IF \/ Vetoed(reading)
        \/ \A v \in Voters : votes[v].direction = "neutral"
        \/ ~Convinced(votes, regime, bias)
     THEN NoSignal
     ELSE Decided(votes, IF Net(votes, regime, bias) > 0 THEN "buy" ELSE "sell", close)
=============================================================================
