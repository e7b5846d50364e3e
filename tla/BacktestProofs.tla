---------------------------- MODULE BacktestProofs ----------------------------
(***************************************************************************)
(* Theorems about Backtest, for every history, every vote of the           *)
(* strategies and every setting of the ensemble, the limits and the fills. *)
(*                                                                         *)
(* The folds of a walk-forward evaluation share no bar.  An entry is       *)
(* decided between its stop and its target.  An order trades only on a bar *)
(* later than the one that caused it, an exit leaves no position, an entry *)
(* finds none; and the engine promises the backtest what it promises to    *)
(* live trading.                                                           *)
(***************************************************************************)
EXTENDS Backtest, PaperEngineProofs

\* A window has at least the bars that walk_forward demands of a fold.
LEMMA WindowIsLong == Window \in Nat /\ Window >= FoldMin /\ FoldCount * Window <= Bars - Warmup
  BY FoldAssumption, SMTT(30) DEF Window

\* What the bounds of a fold are.
LEMMA FoldBounds ==
  ASSUME NEW i \in FoldIds
  PROVE  /\ FoldStart(i) \in Nat /\ FoldEnd(i) \in Nat
         /\ FoldStart(i) < FoldEnd(i)
         /\ i + 1 \in FoldIds => FoldEnd(i) = FoldStart(i + 1)
         /\ i + 1 \notin FoldIds => FoldEnd(i) = Bars
<1>1. Window \in Nat /\ Window > 0 /\ FoldCount * Window <= Bars - Warmup
  BY WindowIsLong, FoldAssumption
<1>2. i \in Nat /\ i <= FoldCount - 1
  BY FoldAssumption DEF FoldIds
<1>3. i * Window \in Nat /\ (i + 1) * Window = i * Window + Window
  BY <1>1, <1>2
<1>4. FoldStart(i) \in Nat /\ FoldStart(i) + Window = Warmup + (i + 1) * Window
  BY <1>1, <1>3, FoldAssumption DEF FoldStart
<1>5. CASE i < FoldCount - 1
  BY <1>1, <1>2, <1>3, <1>4, <1>5, FoldAssumption DEF FoldEnd, FoldStart, FoldIds
<1>6. CASE i = FoldCount - 1
  <2>1. FoldStart(i) + Window <= Bars
    BY <1>1, <1>4, <1>6, FoldAssumption
  <2> QED
    BY <1>1, <1>4, <1>6, <2>1, FoldAssumption DEF FoldEnd, FoldIds
<1> QED
  BY <1>2, <1>5, <1>6, FoldAssumption

\* No bar is tradable in two folds: an earlier one has ended when a later one
\* begins.
LEMMA FoldsDisjoint ==
  ASSUME NEW i \in FoldIds, NEW j \in FoldIds, i < j
  PROVE  FoldEnd(i) <= FoldStart(j)
<1>1. Window \in Nat
  BY WindowIsLong
<1>2. i \in Nat /\ j \in Nat /\ i < FoldCount - 1
  BY FoldAssumption DEF FoldIds
<1>3. PICK k \in Nat : j = i + 1 + k
  <2>1. j - (i + 1) \in Nat /\ j = i + 1 + (j - (i + 1))
    BY <1>2
  <2> QED
    BY <2>1
<1>4. j * Window = (i + 1) * Window + k * Window /\ k * Window \in Nat /\ (i + 1) * Window \in Nat
  BY <1>1, <1>2, <1>3
<1> QED
  BY <1>2, <1>4, FoldAssumption DEF FoldEnd, FoldStart

\* A bar that a fold may trade in belongs to no other fold.
LEMMA OnlyItsFold ==
  ASSUME NEW i \in FoldIds, NEW b \in Int, TradableIn(i, b)
  PROVE  TradingFolds(b) = {i}
<1>1. ASSUME NEW j \in FoldIds, TradableIn(j, b), j # i PROVE FALSE
  <2>1. i \in Int /\ j \in Int
    BY FoldAssumption DEF FoldIds
  <2>2. /\ FoldStart(i) \in Int /\ FoldEnd(i) \in Int
        /\ FoldStart(j) \in Int /\ FoldEnd(j) \in Int
    BY FoldBounds
  <2>3. /\ FoldStart(i) <= b /\ b < FoldEnd(i)
        /\ FoldStart(j) <= b /\ b < FoldEnd(j)
    BY <1>1 DEF TradableIn
  <2>4. CASE i < j
    <3>1. FoldEnd(i) <= FoldStart(j)
      BY <2>4, FoldsDisjoint
    <3> QED
      BY <2>2, <2>3, <3>1
  <2>5. CASE j < i
    <3>1. FoldEnd(j) <= FoldStart(i)
      BY <2>5, FoldsDisjoint
    <3> QED
      BY <2>2, <2>3, <3>1
  <2> QED
    BY <1>1, <2>1, <2>4, <2>5
<1> QED
  BY <1>1 DEF TradingFolds

-----------------------------------------------------------------------------
\* A backtest is within its history, and decides only on bars of its own fold.
WithinFold ==
  /\ fold \in FoldIds
  /\ bar \in Int /\ bar < FoldEnd(fold)
  /\ phase # "over" => FoldStart(fold) <= bar

\* A fold starts before its first bar.
LEMMA WithinFoldInit == BacktestInit => WithinFold
<1> SUFFICES ASSUME BacktestInit PROVE WithinFold
  OBVIOUS
<1>1. fold \in FoldIds /\ bar = -1 /\ phase = "over"
  BY DEF BacktestInit
<1>2. FoldEnd(fold) \in Nat
  BY <1>1, FoldBounds
<1> QED
  BY <1>1, <1>2 DEF WithinFold

\* No step of the loop leaves the fold.
LEMMA WithinFoldStep == WithinFold /\ [BacktestNext]_backtestVars => WithinFold'
<1> SUFFICES ASSUME WithinFold, [BacktestNext]_backtestVars PROVE WithinFold'
  OBVIOUS
<1>1. FoldStart(fold) \in Int /\ FoldEnd(fold) \in Int
  BY FoldBounds DEF WithinFold
<1>2. ASSUME NEW close \in Closes, NextBar(close) PROVE WithinFold'
  <2>1. /\ fold' = fold /\ bar' = bar + 1 /\ bar + 1 < FoldEnd(fold)
        /\ phase' = IF bar' < FoldStart(fold) THEN "over" ELSE "shown"
    BY <1>2 DEF NextBar, Given
  <2> QED
    BY <1>1, <2>1 DEF WithinFold, FoldStart, FoldEnd
<1>3. ASSUME NEW given, Answer(given) PROVE WithinFold'
  BY <1>3 DEF Answer, WithinFold, FoldStart, FoldEnd
<1>4. CASE Flip
  BY <1>4 DEF Flip, WithinFold, FoldStart, FoldEnd
<1>5. CASE Hold
  BY <1>5 DEF Hold, WithinFold, FoldStart, FoldEnd
<1>6. CASE Enter
  BY <1>6 DEF Enter, WithinFold, FoldStart, FoldEnd
<1>7. CASE UNCHANGED loopVars
  BY <1>7 DEF loopVars, WithinFold, FoldStart, FoldEnd
<1> QED
  BY <1>2, <1>3, <1>4, <1>5, <1>6, <1>7 DEF BacktestNext, Ask, Drive, backtestVars

\* Every bar that is traded in belongs to one fold alone, and a fold that has
\* run its course leaves no bar between it and the next, or the history's end.
THEOREM FoldsShareNoBar == BacktestSpec => []BarTradedByOneFold
<1>1. WithinFold => BarTradedByOneFold
  <2> SUFFICES ASSUME WithinFold PROVE BarTradedByOneFold
    OBVIOUS
  <2>1. phase = "shown" => TradingFolds(bar) = {fold}
    BY OnlyItsFold DEF WithinFold, TradableIn
  <2>2. ASSUME EndsTheFold
        PROVE  bar + 1 = IF fold + 1 \in FoldIds THEN FoldStart(fold + 1) ELSE Bars
    <3>1. FoldEnd(fold) \in Int /\ bar \in Int /\ bar < FoldEnd(fold) /\ ~(bar + 1 < FoldEnd(fold))
      BY <2>2, FoldBounds DEF WithinFold, EndsTheFold, Given
    <3>2. bar + 1 = FoldEnd(fold)
      BY <3>1
    <3> QED
      BY <3>2, FoldBounds DEF WithinFold
  <2> QED
    BY <2>1, <2>2 DEF BarTradedByOneFold
<1> QED
  BY <1>1, WithinFoldInit, WithinFoldStep, PTL DEF BacktestSpec

-----------------------------------------------------------------------------
(***************************************************************************)
(* What the ensemble decides.  A side wins with a score of its own, so     *)
(* some strategy has voted for it: the one whose stop and target are       *)
(* taken has voted that way, and they lie where it put them.               *)
(***************************************************************************)
BallotPapers == [Voters -> Votes]
StrategyNames == {"trend_breakout", "mean_reversion", "momentum_confirm"}
Regimes == {"trending_up", "trending_down", "ranging", "high_vol", "unknown"}

\* Every regime is one that has a routing.
LEMMA RegimeIsKnown == \A reading : RegimeOf(reading) \in Regimes
  BY DEF RegimeOf, RegimeFilter, Regimes

\* No strategy is silenced in any regime.
LEMMA RoutingIsPositive ==
  ASSUME NEW regime \in Regimes, NEW v \in Voters
  PROVE  Routing(regime, v) \in Nat \ {0}
<1>1. v \in StrategyNames
  BY EnsembleAssumption DEF StrategyNames
<1>2. CASE regime \in {"trending_up", "trending_down"}
  BY <1>1, <1>2 DEF Routing, StrategyNames
<1>3. CASE regime = "ranging"
  BY <1>1, <1>3 DEF Routing, StrategyNames
<1>4. CASE regime = "high_vol"
  BY <1>1, <1>4 DEF Routing, StrategyNames
<1>5. CASE regime = "unknown"
  BY <1>1, <1>5 DEF Routing, StrategyNames
<1> QED
  BY <1>2, <1>3, <1>4, <1>5 DEF Regimes

\* Votes are directions with confidences of a percentage.
LEMMA VoteFields ==
  ASSUME NEW votes \in BallotPapers, NEW v \in Voters
  PROVE  /\ votes[v].direction \in Directions /\ votes[v].confidence \in Nat
         /\ votes[v].direction # "neutral" => votes[v].confidence \in 45 .. 90
<1>1. votes[v] \in Votes
  BY DEF BallotPapers
<1>2. CASE votes[v] = NoVote
  BY <1>2 DEF NoVote, Directions
<1>3. CASE votes[v] \in [direction : {"buy", "sell"}, confidence : Confidences]
  <2>1. votes[v].direction \in {"buy", "sell"} /\ votes[v].confidence \in Confidences
    BY <1>3
  <2>2. \A c \in Confidences : c \in 45 .. 90 /\ c \in Nat
    BY EnsembleAssumption
  <2> QED
    BY <2>1, <2>2 DEF Directions
<1> QED
  BY <1>1, <1>2, <1>3 DEF Votes

\* There are finitely many strategies.
LEMMA VotersAreFinite == IsFiniteSet(Voters)
<1>1. IsFiniteSet({"trend_breakout", "mean_reversion", "momentum_confirm"})
  <2>1. IsFiniteSet({"trend_breakout"})
    BY FS_Singleton
  <2>2. IsFiniteSet({"trend_breakout"} \cup {"mean_reversion"})
    BY <2>1, FS_AddElement
  <2>3. IsFiniteSet(({"trend_breakout"} \cup {"mean_reversion"}) \cup {"momentum_confirm"})
    BY <2>2, FS_AddElement
  <2>4. {"trend_breakout", "mean_reversion", "momentum_confirm"}
          = ({"trend_breakout"} \cup {"mean_reversion"}) \cup {"momentum_confirm"}
    OBVIOUS
  <2> QED
    BY <2>3, <2>4
<1> QED
  BY <1>1, EnsembleAssumption, FS_Subset

\* What each strategy adds to the score of a direction, as a function.
Parts(votes, regime, direction) ==
  [v \in Voters |-> IF votes[v].direction = direction
                    THEN Routing(regime, v) * votes[v].confidence ELSE 0]
Weights(regime) == [v \in Voters |-> Routing(regime, v)]

\* The library's sums are the sums of those functions.
LEMMA ScoreAdds ==
  ASSUME NEW votes, NEW regime, NEW direction
  PROVE  Score(votes, regime, direction) = SumOver(Parts(votes, regime, direction), Voters)
<1> DEFINE part(v) == IF votes[v].direction = direction
                      THEN Routing(regime, v) * votes[v].confidence ELSE 0
           parts == Parts(votes, regime, direction)
           F(g) == g = [s \in SUBSET Voters |->
                          IF s = {} THEN 0 ELSE part(Pick(s)) + g[s \ {Pick(s)}]]
           h == CHOOSE g : F(g)
<1>0. \A v \in Voters : parts[v] = part(v)
  BY DEF Parts
<1> HIDE DEF parts
<1>1. Score(votes, regime, direction) = h[Voters]
  BY DEF Score, MapThenSumSet, MapThenFoldSet, Pick
<1> HIDE DEF part
<1>2. \A g : FoldOf(g, parts, Voters) <=> F(g)
  <2> SUFFICES ASSUME NEW g PROVE FoldOf(g, parts, Voters) <=> F(g)
    OBVIOUS
  <2> DEFINE A(s) == IF s = {} THEN 0 ELSE parts[Pick(s)] + g[s \ {Pick(s)}]
             B(s) == IF s = {} THEN 0 ELSE part(Pick(s)) + g[s \ {Pick(s)}]
  <2>1. ASSUME NEW s \in SUBSET Voters PROVE A(s) = B(s)
    <3>1. s # {} => Pick(s) \in Voters
      BY PickIsMember
    <3> QED
      BY <1>0, <3>1
  <2> HIDE DEF A, B
  <2>2. [s \in SUBSET Voters |-> A(s)] = [s \in SUBSET Voters |-> B(s)]
    BY <2>1
  <2> QED
    BY <2>2 DEF A, B, FoldOf
<1> HIDE DEF F
<1>3. \E g : F(g)
  BY <1>2, FoldExists, VotersAreFinite
<1>4. F(h)
  BY <1>3
<1> HIDE DEF h
<1>5. FoldOf(h, parts, Voters)
  BY <1>2, <1>4
<1>6. h[Voters] = SumOver(parts, Voters)
  <2>1. Voters \subseteq Voters
    OBVIOUS
  <2> QED
    BY <1>5, <2>1, VotersAreFinite, FoldIsSum
<1> QED
  BY <1>1, <1>6 DEF parts

\* The total weight is the sum of what the routing gives each strategy.
LEMMA WeightAdds ==
  ASSUME NEW regime
  PROVE  TotalWeight(regime) = SumOver(Weights(regime), Voters)
<1> DEFINE weights == Weights(regime)
           F(g) == g = [s \in SUBSET Voters |->
                          IF s = {} THEN 0 ELSE Routing(regime, Pick(s)) + g[s \ {Pick(s)}]]
           h == CHOOSE g : F(g)
<1>0. \A v \in Voters : weights[v] = Routing(regime, v)
  BY DEF Weights
<1> HIDE DEF weights
<1>1. TotalWeight(regime) = h[Voters]
  BY DEF TotalWeight, MapThenSumSet, MapThenFoldSet, Pick
<1>2. \A g : FoldOf(g, weights, Voters) <=> F(g)
  <2> SUFFICES ASSUME NEW g PROVE FoldOf(g, weights, Voters) <=> F(g)
    OBVIOUS
  <2> DEFINE A(s) == IF s = {} THEN 0 ELSE weights[Pick(s)] + g[s \ {Pick(s)}]
             B(s) == IF s = {} THEN 0 ELSE Routing(regime, Pick(s)) + g[s \ {Pick(s)}]
  <2>1. ASSUME NEW s \in SUBSET Voters PROVE A(s) = B(s)
    <3>1. s # {} => Pick(s) \in Voters
      BY PickIsMember
    <3> QED
      BY <1>0, <3>1
  <2> HIDE DEF A, B
  <2>2. [s \in SUBSET Voters |-> A(s)] = [s \in SUBSET Voters |-> B(s)]
    BY <2>1
  <2> QED
    BY <2>2 DEF A, B, FoldOf
<1> HIDE DEF F
<1>3. \E g : F(g)
  BY <1>2, FoldExists, VotersAreFinite
<1>4. F(h)
  BY <1>3
<1> HIDE DEF h
<1>5. FoldOf(h, weights, Voters)
  BY <1>2, <1>4
<1>6. h[Voters] = SumOver(weights, Voters)
  <2>1. Voters \subseteq Voters
    OBVIOUS
  <2> QED
    BY <1>5, <2>1, VotersAreFinite, FoldIsSum
<1> QED
  BY <1>1, <1>6 DEF weights

\* The weight of the voters is positive as soon as there is one.
LEMMA WeightIsPositive ==
  ASSUME NEW regime \in Regimes, NEW v \in Voters
  PROVE  TotalWeight(regime) \in Nat \ {0}
<1> DEFINE weights == Weights(regime)
<1>1. \A w \in Voters : weights[w] \in Nat \ {0}
  BY RoutingIsPositive DEF Weights
<1> HIDE DEF weights
<1>2. SumOver(weights, Voters) = weights[v] + SumOver(weights, Voters \ {v})
  BY <1>1, VotersAreFinite, SumWithout
<1>3. SumOver(weights, Voters \ {v}) \in Nat
  BY <1>1, VotersAreFinite, FS_Subset, SumIsNatural
<1>4. SumOver(weights, Voters) \in Nat \ {0}
  BY <1>1, <1>2, <1>3
<1> QED
  BY <1>4, WeightAdds DEF weights

\* The score of a direction is a number, and zero without a vote for it.
LEMMA ScoreNeedsAVote ==
  ASSUME NEW votes \in BallotPapers, NEW regime \in Regimes, NEW direction
  PROVE  /\ Score(votes, regime, direction) \in Nat
         /\ (\A v \in Voters : votes[v].direction # direction)
              => Score(votes, regime, direction) = 0
<1> DEFINE parts == Parts(votes, regime, direction)
<1>1. ASSUME NEW v \in Voters
      PROVE  parts[v] \in Nat /\ (votes[v].direction # direction => parts[v] = 0)
  <2>1. Routing(regime, v) \in Nat /\ votes[v].confidence \in Nat
    BY RoutingIsPositive, VoteFields
  <2>2. Routing(regime, v) * votes[v].confidence \in Nat
    BY <2>1
  <2> QED
    BY <2>2 DEF Parts
<1> HIDE DEF parts
<1>2. SumOver(parts, Voters) \in Nat
  BY <1>1, VotersAreFinite, SumIsNatural
<1>3. ASSUME \A v \in Voters : votes[v].direction # direction PROVE SumOver(parts, Voters) = 0
  BY <1>1, <1>3, VotersAreFinite, SumOfZeros
<1> QED
  BY <1>2, <1>3, ScoreAdds DEF parts

\* The side that wins has a vote.
WinnerOf(votes, regime, bias) == IF Net(votes, regime, bias) > 0 THEN "buy" ELSE "sell"

\* A side that wins convincingly has been voted for.
LEMMA WinnerHasAVote ==
  ASSUME NEW votes \in BallotPapers, NEW regime \in Regimes, NEW bias \in Directions,
         NEW voter \in Voters, Convinced(votes, regime, bias)
  PROVE  \E v \in Voters : votes[v].direction = WinnerOf(votes, regime, bias)
<1>1. PICK b \in Nat, s \in Nat : /\ b = Score(votes, regime, "buy")
                                  /\ s = Score(votes, regime, "sell")
  BY ScoreNeedsAVote
<1>2. PICK w \in Nat \ {0} : w = TotalWeight(regime)
  BY WeightIsPositive
<1>3. PICK n \in Int : n = Net(votes, regime, bias) /\ (n > 0 => b > 0) /\ (n < 0 => s > 0)
  <2>1. /\ Damped(b, "buy", bias) \in {4 * b, 10 * b}
        /\ Damped(s, "sell", bias) \in {4 * s, 10 * s}
    BY DEF Damped, Damp
  <2>2. Net(votes, regime, bias) = Damped(b, "buy", bias) - Damped(s, "sell", bias)
    BY <1>1 DEF Net
  <2> QED
    BY <2>1, <2>2
<1>4. n # 0
  <2>1. Size(n) >= 10 * 25 * w
    BY <1>2, <1>3 DEF Convinced, MinConfidence
  <2> QED
    BY <1>2, <2>1 DEF Size
<1>5. CASE n > 0
  <2>1. ~ \A v \in Voters : votes[v].direction # "buy"
    BY <1>1, <1>3, <1>5, ScoreNeedsAVote
  <2> QED
    BY <1>3, <1>5, <2>1 DEF WinnerOf
<1>6. CASE n < 0
  <2>1. ~ \A v \in Voters : votes[v].direction # "sell"
    BY <1>1, <1>3, <1>6, ScoreNeedsAVote
  <2>2. ~(n > 0)
    BY <1>6
  <2> QED
    BY <1>3, <2>1, <2>2 DEF WinnerOf
<1> QED
  BY <1>4, <1>5, <1>6

\* The lead is one of those who voted for the direction.
LEMMA LeadHasVoted ==
  ASSUME NEW votes \in BallotPapers, NEW direction \in {"buy", "sell"},
         NEW voter \in Voters, votes[voter].direction = direction
  PROVE  /\ Lead(votes, direction) \in Voters
         /\ votes[Lead(votes, direction)].direction = direction
<1> DEFINE c(v) == Conviction(votes[v], v)
           D == {v \in Voters : votes[v].direction = direction}
           M == {1000 - c(v) : v \in D}
<1>1. ASSUME NEW v \in D PROVE c(v) \in Int /\ 1000 - c(v) \in Nat
  <2>1. v \in StrategyNames /\ votes[v].confidence \in 45 .. 90
    BY VoteFields, EnsembleAssumption DEF StrategyNames
  <2>2. Rank(v) \in 1 .. 3
    BY <2>1 DEF Rank, StrategyNames
  <2> QED
    BY <2>1, <2>2 DEF Conviction
<1>2. M \subseteq Nat /\ M # {}
  <2> HIDE DEF c
  <2> QED
    BY <1>1
<1>3. PICK m \in M : \A k \in M : m <= k
  <2> HIDE DEF M
  <2>1. PICK m \in M : \A k \in M : ~(<<k, m>> \in OpToRel(<, Nat))
    BY <1>2, NatLessThanWellFounded, WFMin
  <2>2. \A k \in M : ~(k < m)
    BY <1>2, <2>1 DEF OpToRel
  <2> QED
    BY <1>2, <2>2
<1>4. PICK v \in D : m = 1000 - c(v)
  OBVIOUS
<1>5. \A w \in D : c(w) <= c(v)
  <2> SUFFICES ASSUME NEW w \in D PROVE c(w) <= c(v)
    OBVIOUS
  <2>1. m <= 1000 - c(w)
    <3> HIDE DEF c
    <3> QED
      BY <1>3
  <2> HIDE DEF c, M, D
  <2> QED
    BY <1>1, <1>4, <2>1
<1>6. \E u \in Voters :
        /\ votes[u].direction = direction
        /\ \A w \in Voters : votes[w].direction = direction =>
                               Conviction(votes[w], w) <= Conviction(votes[u], u)
  BY <1>5
<1> QED
  BY <1>6 DEF Lead

\* How far a strategy puts its stop and its target.
LEMMA SuggestionIsAway ==
  ASSUME NEW v \in Voters
  PROVE  /\ Suggestion(v).stop \in 1 .. 7 * (Atr \div 2)
         /\ Suggestion(v).target \in 1 .. 7 * (Atr \div 2)
         /\ Suggestion(v).riskBps \in Nat
<1>1. PICK half \in Nat \ {0} : Atr = 2 * half /\ Atr \div 2 = half
  <2>1. Atr \in Nat \ {0} /\ Atr % 2 = 0
    BY EnsembleAssumption
  <2>2. Atr \div 2 \in Nat \ {0} /\ Atr = 2 * (Atr \div 2)
    BY <2>1
  <2> QED
    BY <2>2
<1>2. v \in StrategyNames
  BY EnsembleAssumption DEF StrategyNames
<1>3. CASE v = "trend_breakout"
  BY <1>1, <1>3 DEF Suggestion, TrendBreakout
<1>4. CASE v = "mean_reversion"
  BY <1>1, <1>4 DEF Suggestion, MeanReversionVWAP
<1>5. CASE v = "momentum_confirm"
  BY <1>1, <1>5 DEF Suggestion, MomentumConfirmation
<1> QED
  BY <1>2, <1>3, <1>4, <1>5 DEF StrategyNames

\* A signal brackets the close at which it was given.
Brackets(given, close) ==
  /\ given.riskBps \in Nat /\ given.stop \in Int /\ given.target \in Int
  /\ given.stop >= close - 7 * (Atr \div 2) /\ given.target >= close - 7 * (Atr \div 2)
  /\ given.side \in {"buy", "sell"}
  /\ IF given.side = "buy" THEN given.stop < close /\ close < given.target
                           ELSE given.target < close /\ close < given.stop

\* What evaluate gives is no signal or one that brackets the close.
LEMMA SignalBrackets ==
  ASSUME NEW votes \in BallotPapers, NEW reading, NEW bias \in Directions, NEW close \in Int
  PROVE  LET given == Evaluate(votes, reading, bias, close)
         IN given = NoSignal \/ Brackets(given, close)
<1> DEFINE regime == RegimeOf(reading)
           side == WinnerOf(votes, regime, bias)
           lead == Lead(votes, side)
           given == Evaluate(votes, reading, bias, close)
<1> SUFFICES ASSUME given # NoSignal PROVE Brackets(given, close)
  OBVIOUS
<1>1. regime \in Regimes
  BY RegimeIsKnown
<1>2. /\ \E v \in Voters : votes[v].direction # "neutral"
      /\ Convinced(votes, regime, bias) /\ given = Decided(votes, side, close)
  BY DEF Evaluate, WinnerOf
<1> HIDE DEF regime, given
<1>3. \E v \in Voters : votes[v].direction = side
  BY <1>1, <1>2, WinnerHasAVote
<1>4. side \in {"buy", "sell"}
  BY DEF WinnerOf
<1> HIDE DEF side
<1>5. lead \in Voters /\ votes[lead].direction = side
  BY <1>3, <1>4, LeadHasVoted
<1>6. /\ Suggestion(lead).stop \in 1 .. 7 * (Atr \div 2)
      /\ Suggestion(lead).target \in 1 .. 7 * (Atr \div 2)
      /\ Suggestion(lead).riskBps \in Nat
  BY <1>5, SuggestionIsAway
<1>7. PICK reach \in Nat : reach = 7 * (Atr \div 2)
  BY EnsembleAssumption
<1> DEFINE up == IF votes[lead].direction = "buy" THEN 1 ELSE -1
<1>8. given = [side |-> side, riskBps |-> Suggestion(lead).riskBps,
               stop |-> close - up * Suggestion(lead).stop,
               target |-> close + up * Suggestion(lead).target]
  BY <1>2 DEF Decided
<1> HIDE DEF lead
<1>9. /\ given.side = side /\ given.riskBps = Suggestion(lead).riskBps
      /\ given.stop = close - up * Suggestion(lead).stop
      /\ given.target = close + up * Suggestion(lead).target
  BY <1>8
<1>10. PICK d \in 1 .. reach, e \in 1 .. reach :
         d = Suggestion(lead).stop /\ e = Suggestion(lead).target
  BY <1>6, <1>7
<1>11. CASE side = "buy"
  <2>1. given.stop = close - d /\ given.target = close + e
    BY <1>5, <1>9, <1>10, <1>11
  <2> QED
    BY <1>4, <1>6, <1>7, <1>9, <1>10, <1>11, <2>1 DEF Brackets
<1>12. CASE side = "sell"
  <2>1. given.stop = close + d /\ given.target = close - e
    BY <1>5, <1>9, <1>10, <1>12
  <2> QED
    BY <1>4, <1>6, <1>7, <1>9, <1>10, <1>12, <2>1 DEF Brackets
<1> QED
  BY <1>4, <1>11, <1>12

-----------------------------------------------------------------------------
(***************************************************************************)
(* The bar on which a decision stands: from the signal to the entry the    *)
(* loop shows the book that the ensemble has seen.                         *)
(***************************************************************************)
BookShown == \E close \in Closes : book = BookOf(close)

DecisionInv ==
  /\ phase \in {"over", "shown", "signal", "flipped"}
  /\ phase # "over" => BookShown
  /\ phase \in {"signal", "flipped"} => Brackets(signal, Mid2(book) \div 2)

\* The middle of a synthetic book is the close of its candle.
LEMMA BookOfClose ==
  ASSUME NEW close \in Closes
  PROVE  /\ close \in Nat /\ HalfSpread < close /\ 7 * (Atr \div 2) < close
         /\ Mid2(BookOf(close)) = 2 * close /\ Mid2(BookOf(close)) \div 2 = close
<1>1. close \in Nat /\ HalfSpread \in Nat
  BY BacktestAssumption
<1>2. Mid2(BookOf(close)) = 2 * close
  BY <1>1 DEF BookOf, Mid2
<1> QED
  BY <1>1, <1>2, PricesAssumption

\* Asking the ensemble leaves no signal or one that brackets the close.
LEMMA AskKeepsDecision ==
  ASSUME DecisionInv, NEW votes \in BallotPapers, NEW reading, NEW bias \in Directions,
         Ask(votes, reading, bias)
  PROVE  DecisionInv'
<1>1. /\ phase = "shown" /\ book' = book
      /\ signal' = Evaluate(votes, reading, bias, Mid2(book) \div 2)
      /\ phase' = IF signal'.side = "neutral" THEN "over" ELSE "signal"
  BY DEF Ask, Answer
<1>2. PICK close \in Closes : book = BookOf(close)
  BY <1>1 DEF DecisionInv, BookShown
<1>3. signal' = NoSignal \/ Brackets(signal', Mid2(book) \div 2)
  <2>1. Mid2(book) \div 2 \in Int
    BY <1>2, BookOfClose
  <2>2. Evaluate(votes, reading, bias, Mid2(book) \div 2) = NoSignal
        \/ Brackets(Evaluate(votes, reading, bias, Mid2(book) \div 2), Mid2(book) \div 2)
    BY <2>1, SignalBrackets
  <2> QED
    BY <1>1, <2>2
<1>4. CASE signal' = NoSignal
  <2>1. phase' = "over"
    BY <1>1, <1>4 DEF NoSignal
  <2> QED
    BY <2>1 DEF DecisionInv
<1>5. CASE Brackets(signal', Mid2(book) \div 2)
  <2>1. phase' = "signal"
    BY <1>1, <1>5 DEF Brackets
  <2> QED
    BY <1>1, <1>2, <1>5, <2>1 DEF DecisionInv, BookShown
<1> QED
  BY <1>3, <1>4, <1>5

\* Every step of the loop keeps the signal that it acts on a bracketing one.
LEMMA DecisionStep == DecisionInv /\ [BacktestNext]_backtestVars => DecisionInv'
<1> SUFFICES ASSUME DecisionInv, [BacktestNext]_backtestVars PROVE DecisionInv'
  OBVIOUS
<1>1. ASSUME NEW close \in Closes, NextBar(close) PROVE DecisionInv'
  <2>1. book' = BookOf(close) /\ phase' \in {"over", "shown"}
    BY <1>1 DEF NextBar
  <2> QED
    BY <2>1 DEF DecisionInv, BookShown
<1>2. ASSUME NEW votes \in [Voters -> Votes], NEW reading \in Readings, NEW bias \in Directions,
             Ask(votes, reading, bias)
      PROVE  DecisionInv'
  BY <1>2, AskKeepsDecision DEF BallotPapers
<1>3. CASE Flip
  BY <1>3 DEF Flip, DecisionInv, BookShown
<1>4. CASE Hold \/ Enter
  BY <1>4 DEF Hold, Enter, DecisionInv
<1>5. CASE UNCHANGED loopVars
  BY <1>5 DEF loopVars, DecisionInv, BookShown
<1> QED
  BY <1>1, <1>2, <1>3, <1>4, <1>5 DEF BacktestNext, Drive, backtestVars

\* Whenever a bar is decided, its signal brackets its close.
LEMMA DecisionAlways == BacktestSpec => []DecisionInv
<1>1. BacktestInit => DecisionInv
  BY DEF BacktestInit, DecisionInv
<1> QED
  BY <1>1, DecisionStep, PTL DEF BacktestSpec

\* An entry is decided with its stop on the losing side of the price and its
\* target on the other, whichever strategies vote, however they are weighted
\* and whatever the bias damps.
THEOREM EntriesAreBracketed == BacktestSpec => []StopsBracketEntries
<1>1. DecisionInv => StopsBracketEntries
  <2> SUFFICES ASSUME DecisionInv, phase \in {"signal", "flipped"} PROVE StopsBracketEntries
    BY DEF StopsBracketEntries
  <2>1. PICK close \in Closes : book = BookOf(close)
    BY DEF DecisionInv, BookShown
  <2>2. close \in Nat /\ Mid2(book) = 2 * close /\ Mid2(book) \div 2 = close
    BY <2>1, BookOfClose
  <2>3. Brackets(signal, close)
    BY <2>2 DEF DecisionInv
  <2> QED
    BY <2>2, <2>3 DEF Brackets, StopsBracketEntries
<1> QED
  BY <1>1, DecisionAlways, PTL

-----------------------------------------------------------------------------
(***************************************************************************)
(* The engine under the backtest.  BacktestInv joins the invariant of the  *)
(* engine to where the loop stands: what is on its way, for which          *)
(* position, and whether the bar may still touch it.                       *)
(***************************************************************************)
\* A call of on_book shows the book of the bar.
ShownInv == tick.running => BookShown /\ tick.book = book

\* Every order knows its bar; what waits has waited no longer than the bars since.
PlacedInv ==
  /\ bar \in Int /\ placed \in Seq(Int) /\ Len(placed) = Len(orders)
  /\ \A i \in PendingIds : placed[i] + pending[i] <= bar

\* The next bar works what waits, and the bar on which it was sent does not.
AgesInv ==
  /\ \A i \in tick.todo : pending[i] >= 1
  /\ \A i \in PendingIds \ tick.todo : pending[i] = 0

\* The loop has at most one order on its way, and it is a market order.
SingleInv ==
  /\ \A i \in DOMAIN orders : orders[i].symbol = Symbol /\ orders[i].type = "market"
  /\ \A i, j \in PendingIds : i = j

\* It is the exit of the position there is, or the entry of one there is not.
Fits(order) ==
  IF order.reduceOnly
  THEN /\ IsOpen(Position) /\ order.filled = 0
       /\ order.side = Opposite(Position.side) /\ order.qty = Position.qty
  ELSE ~IsOpen(Position)
FitInv == \A i \in PendingIds : Fits(orders[i])

\* Where the loop stands.  No order waits while a bar is decided; only an entry
\* waits while its own bar is shown again and no exit has been sent; the
\* position that is being exited stays while its bar is shown again.
PhaseInv ==
  /\ phase = "signal" => ~tick.running
  /\ phase \in {"shown", "signal"} => PendingIds \subseteq tick.todo
  /\ phase = "flipped" => IsOpen(Position) /\ tick.todo = {}
  /\ tick.running /\ phase # "flipped" /\ PendingIds \ tick.todo # {} => ~IsOpen(Position)

\* What the bar has left open is inside its protections, so that showing its
\* book again does not exit it.
InsideInv ==
  (~tick.running \/ phase = "flipped") /\ IsOpen(Position) =>
    InsideProtections(Position, protect[Symbol], Mid2(book))

LoopInv == /\ ShownInv /\ PlacedInv /\ AgesInv /\ SingleInv /\ FitInv /\ PhaseInv /\ InsideInv
BacktestInv == EngineInv /\ DecisionInv /\ LoopInv

\* The one symbol of the backtest is a symbol of the engine.
LEMMA SymbolIsTraded == Symbol \in Symbols
  BY BacktestAssumption DEF Symbol

\* A synthetic book is a snapshot that the engine may be shown.
LEMMA BookIsTop ==
  ASSUME NEW close \in Closes
  PROVE  /\ BookOf(close) \in BookTops /\ BookOf(close).symbol = Symbol
         /\ BookOf(close).lag = 0 /\ Mid2(BookOf(close)) \in Nat \ {0}
<1>1. /\ close \in Nat /\ HalfSpread \in Nat /\ HalfSpread < close /\ Depth \in Nat
      /\ Mid2(BookOf(close)) = 2 * close
  BY BookOfClose, BacktestAssumption
<1>2. close - HalfSpread \in Nat \ {0} /\ close + HalfSpread \in Nat \ {0}
  BY <1>1
<1>3. BookOf(close) \in BookTops
  BY <1>1, <1>2, SymbolIsTraded DEF BookOf, BookTops
<1> QED
  BY <1>1, <1>3 DEF BookOf

\* At a bar, what the snapshot may work are the orders that have waited one.
LEMMA EligibleHere ==
  ASSUME NEW queue, NEW known, NEW close \in Closes,
         \A i \in DOMAIN queue : known[i].symbol = Symbol /\ queue[i] \in Nat
  PROVE  Eligible(queue, known, BookOf(close)) = {i \in DOMAIN queue : queue[i] >= 1}
  BY BookIsTop, BacktestAssumption DEF Eligible

\* The facts of the engine's invariant that the loop rests on.
LEMMA EngineFacts ==
  ASSUME EngineInv
  PROVE  /\ CoreInv /\ TickInv /\ AccountInv /\ QueueInv /\ orders \in Seq(Orders)
         /\ Len(orders) \in Nat /\ DOMAIN orders = 1 .. Len(orders)
         /\ PendingIds \subseteq DOMAIN orders
         /\ \A i \in PendingIds : pending[i] \in Nat
         /\ Position \in Positions /\ Position.qty \in Nat /\ Position.side \in Sides
         /\ protect[Symbol] \in [stopLoss : Nat, takeProfit : Nat]
<1>1. CoreInv /\ TickInv /\ AccountInv /\ QueueInv /\ orders \in Seq(Orders)
      /\ PendingIds \subseteq DOMAIN orders
  BY DEF EngineInv, CoreInv, QueueInv
<1>2. Len(orders) \in Nat /\ DOMAIN orders = 1 .. Len(orders)
  BY <1>1, LenProperties
<1>3. \A i \in PendingIds : pending[i] \in Nat
  BY <1>1, MaxAgeIsNatural DEF CoreInv, AgesOK
<1>4. Position \in Positions /\ Position.qty \in Nat /\ Position.side \in Sides
  BY <1>1, SymbolIsTraded, BeforeFill DEF Position
<1>5. protect[Symbol] \in [stopLoss : Nat, takeProfit : Nat]
  BY <1>1, SymbolIsTraded DEF CoreInv, GuardsOK
<1> QED
  BY <1>1, <1>2, <1>3, <1>4, <1>5

\* A new call of on_book shows the book to what waits.
LEMMA ShowKeepsTick ==
  ASSUME CoreInv', NEW close \in Closes,
         tick' = [running |-> TRUE, book |-> BookOf(close),
                  todo |-> Eligible(pending', orders', BookOf(close))]
  PROVE  TickInv'
<1>1. PendingIds' \subseteq Nat
  <2>1. orders' \in Seq(Orders) /\ PendingIds' \subseteq DOMAIN orders'
    BY DEF CoreInv, QueueInv
  <2> QED
    BY <2>1, LenProperties
<1>2. Eligible(pending', orders', BookOf(close)) \subseteq PendingIds'
  BY DEF Eligible, PendingIds
<1>3. \A i \in Eligible(pending', orders', BookOf(close)) :
        orders'[i].symbol = BookOf(close).symbol
  BY DEF Eligible
<1> QED
  BY <1>1, <1>2, <1>3, BookIsTop DEF TickInv

\* The next candle makes what waits a bar older, and shows it the new book.
LEMMA NextBarKeeps ==
  ASSUME BacktestInv, NEW close \in Closes, NextBar(close)
  PROVE  EngineInv' /\ LoopInv' /\ EngineEffect
<1>1. /\ ~tick.running /\ phase = "over" /\ bar' = bar + 1 /\ book' = BookOf(close)
      /\ pending' = [i \in PendingIds |-> Older(pending[i])]
      /\ tick' = [running |-> TRUE, book |-> book', todo |-> Eligible(pending', orders, book')]
      /\ phase' \in {"over", "shown"}
      /\ UNCHANGED <<accountVars, orders, protect, exits, placed>>
  BY DEF NextBar, Settled
<1>2. EngineInv /\ LoopInv /\ tick.todo = {}
  BY <1>1 DEF BacktestInv, EngineInv, TickInv
<1>3. /\ \A i \in DOMAIN orders : orders[i].symbol = Symbol /\ orders[i].type = "market"
      /\ \A i \in PendingIds : pending[i] = 0 /\ placed[i] + pending[i] <= bar
      /\ PendingIds \subseteq DOMAIN orders
      /\ bar \in Int /\ placed \in Seq(Int) /\ Len(placed) = Len(orders)
  BY <1>2, EngineFacts DEF LoopInv, SingleInv, AgesInv, PlacedInv
<1>4. PendingIds' = PendingIds /\ DOMAIN pending' = PendingIds
  BY <1>1 DEF PendingIds
<1>5. \A i \in PendingIds : pending'[i] = 1
  <2>1. MaxAge >= 1 /\ MaxAge \in Nat
    BY EngineAssumption, BacktestAssumption DEF MaxAge
  <2> QED
    BY <1>1, <1>3, <2>1 DEF Older
<1>6. tick'.todo = PendingIds'
  <2>1. tick'.todo = Eligible(pending', orders, BookOf(close))
    BY <1>1
  <2>2. \A i \in DOMAIN pending' : orders[i].symbol = Symbol /\ pending'[i] \in Nat
    BY <1>3, <1>4, <1>5
  <2> QED
    BY <1>4, <1>5, <2>1, <2>2, EligibleHere
<1>7. EngineInv'
  <2>1. CoreInv'
    BY <1>1, <1>2, AgingKeepsCore, EngineFacts
  <2>2. TickInv'
    BY <1>1, <2>1, ShowKeepsTick
  <2> QED
    BY <1>1, <1>2, <2>1, <2>2 DEF EngineInv
<1>8. LoopInv'
  <2>1. ShownInv'
    BY <1>1 DEF ShownInv, BookShown
  <2>2. PlacedInv'
    <3>1. \A i \in PendingIds : placed[i] \in Int
      BY <1>3, ElementOfSeq, LenProperties, <1>2, EngineFacts
    <3> QED
      BY <1>1, <1>3, <1>4, <1>5, <3>1 DEF PlacedInv
  <2>3. AgesInv'
    BY <1>4, <1>5, <1>6 DEF AgesInv
  <2>4. SingleInv' /\ FitInv'
    BY <1>1, <1>2, <1>4 DEF LoopInv, SingleInv, FitInv, Fits, Position, accountVars
  <2>5. PhaseInv'
    BY <1>1, <1>6 DEF PhaseInv
  <2>6. InsideInv'
    BY <1>1 DEF InsideInv
  <2> QED
    BY <2>1, <2>2, <2>3, <2>4, <2>5, <2>6 DEF LoopInv
<1>9. EngineEffect
  BY <1>1, <1>4 DEF EngineEffect
<1> QED
  BY <1>7, <1>8, <1>9

\* Asking and holding leave the engine alone; nothing waits when a bar is asked
\* about.
LEMMA DecisionsKeep ==
  ASSUME BacktestInv,
         Hold \/ \E votes, reading, bias : Ask(votes, reading, bias)
  PROVE  EngineInv' /\ LoopInv' /\ EngineEffect
<1>1. /\ ~tick.running /\ UNCHANGED <<engineVars, bar, book, placed>>
      /\ phase' # "shown" /\ phase' # "flipped"
      /\ phase' = "signal" => phase = "shown"
  BY DEF Ask, Answer, Hold, Settled
<1>2. /\ UNCHANGED <<orders, pending, protect, tick, positions>> /\ PendingIds' = PendingIds
  BY <1>1 DEF engineVars, bookVars, accountVars, PendingIds
<1>3. EngineInv'
  BY <1>1, EngineStutterKeeps DEF BacktestInv
<1>4. LoopInv'
  <2>1. ShownInv' /\ PlacedInv' /\ AgesInv' /\ SingleInv' /\ FitInv'
    BY <1>1, <1>2 DEF BacktestInv, LoopInv, ShownInv, PlacedInv, AgesInv, SingleInv, FitInv,
                      Fits, Position, BookShown
  <2>2. PhaseInv'
    BY <1>1, <1>2 DEF BacktestInv, LoopInv, PhaseInv
  <2>3. InsideInv'
    BY <1>1, <1>2 DEF BacktestInv, LoopInv, InsideInv, Position
  <2> QED
    BY <2>1, <2>2, <2>3 DEF LoopInv
<1>5. EngineEffect
  BY <1>1, <1>2 DEF EngineEffect, engineVars, bookVars
<1> QED
  BY <1>3, <1>4, <1>5

\* An order that is sent joins a queue that is empty, and its own bar does not
\* work it.
LEMMA SubmitAndShowKeeps ==
  ASSUME BacktestInv, NEW order, IsNew(order), SubmitAndShow(order),
         order.symbol = Symbol, order.type = "market", Fits(order),
         BookShown, PendingIds = {}, UNCHANGED <<bar, book>>,
         ~tick.running,
         phase' = IF order.reduceOnly THEN "flipped" ELSE "over"
  PROVE  EngineInv' /\ LoopInv' /\ EngineEffect
<1> DEFINE n == Len(orders)
<1>1. PICK close \in Closes : book = BookOf(close)
  BY DEF BookShown
<1>2. /\ Submit(order) /\ placed' = Append(placed, bar)
      /\ tick' = [running |-> TRUE, book |-> book, todo |-> Eligible(pending', orders', book)]
      /\ UNCHANGED <<accountVars, protect, exits>> /\ n < MaxOrders
  BY DEF SubmitAndShow, Submit
<1>3. EngineInv /\ LoopInv /\ CoreInv /\ QueueInv /\ n \in Nat /\ DOMAIN orders = 1 .. n
  BY EngineFacts DEF BacktestInv
<1>4. CoreInv' /\ Arrival(<<order>>, {}) /\ Len(orders') = n + 1
  BY <1>2, <1>3, SubmitKeepsCore
<1>5. /\ DOMAIN orders' = 1 .. n + 1
      /\ \A i \in 1 .. n : SameTerms(orders'[i], orders[i])
      /\ SameTerms(orders'[n + 1], order) /\ orders'[n + 1].filled = 0
      /\ AcceptedIds(<<order>>) \subseteq {n + 1}
  <2> DEFINE batch == <<order>>
  <2>1. Len(batch) = 1 /\ batch[1] = order
    OBVIOUS
  <2> HIDE DEF batch
  <2>2. /\ DOMAIN orders' = 1 .. n + Len(batch)
        /\ \A i \in 1 .. n : SameTerms(orders'[i], orders[i])
        /\ \A i \in n + 1 .. n + Len(batch) :
             SameTerms(orders'[i], batch[i - n]) /\ orders'[i].filled = 0
        /\ AcceptedIds(batch) = {i \in n + 1 .. n + Len(batch) : Admissible(batch[i - n])}
    <3>1. Arrival(batch, {})
      BY <1>4 DEF batch
    <3> QED
      BY <1>3, <3>1, ArrivalShape DEF QueueInv
  <2>3. n + 1 \in n + 1 .. n + Len(batch) /\ (n + 1) - n = 1
        /\ n + 1 .. n + Len(batch) = {n + 1}
    BY <1>3, <2>1
  <2>4. SameTerms(orders'[n + 1], batch[1]) /\ orders'[n + 1].filled = 0
    BY <2>2, <2>3
  <2> QED
    BY <2>1, <2>2, <2>3, <2>4 DEF batch
<1>6. PendingIds' \subseteq {n + 1} /\ DOMAIN pending' = PendingIds'
      /\ \A i \in PendingIds' : pending'[i] = 0
  <2>1. pending' = [i \in PendingIds \union AcceptedIds(<<order>>) |->
                      IF i \in AcceptedIds(<<order>>) THEN 0 ELSE pending[i]]
    BY <1>2 DEF Submit, With
  <2>2. PendingIds' = DOMAIN pending' /\ PendingIds' = AcceptedIds(<<order>>)
    BY <2>1 DEF PendingIds
  <2> QED
    BY <1>5, <2>1, <2>2
<1>7. \A i \in DOMAIN orders' : orders'[i].symbol = Symbol /\ orders'[i].type = "market"
  BY <1>3, <1>5 DEF LoopInv, SingleInv, SameTerms
<1>8. tick'.running /\ tick'.book = book /\ tick'.todo = {}
  <2>1. tick'.todo = Eligible(pending', orders', BookOf(close))
    BY <1>1, <1>2
  <2>2. \A i \in DOMAIN pending' : orders'[i].symbol = Symbol /\ pending'[i] \in Nat
    BY <1>4, <1>6, <1>7 DEF CoreInv, QueueInv
  <2>3. tick'.todo = {i \in DOMAIN pending' : pending'[i] >= 1}
    BY <2>1, <2>2, EligibleHere
  <2>4. \A i \in DOMAIN pending' : ~(pending'[i] >= 1)
    BY <1>6
  <2>5. tick'.todo = {}
    BY <2>3, <2>4
  <2>6. tick'.running /\ tick'.book = book
    BY <1>2
  <2> QED
    BY <2>5, <2>6
<1>9. EngineInv'
  <2>1. TickInv'
    BY <1>1, <1>2, <1>4, ShowKeepsTick
  <2> QED
    BY <1>2, <1>3, <1>4, <2>1, EngineAssumption DEF EngineInv
<1>10. positions' = positions /\ Position' = Position
  BY <1>2 DEF accountVars, Position
<1>11. LoopInv'
  <2>1. ShownInv'
    BY <1>8 DEF ShownInv, BookShown
  <2>2. PlacedInv'
    <3>1. bar \in Int /\ placed \in Seq(Int) /\ Len(placed) = n
      BY <1>3 DEF LoopInv, PlacedInv
    <3>2. placed' \in Seq(Int) /\ Len(placed') = n + 1 /\ placed'[n + 1] = bar
      BY <1>2, <1>3, <3>1
    <3> QED
      BY <1>4, <1>6, <3>1, <3>2 DEF PlacedInv
  <2>3. AgesInv'
    BY <1>6, <1>8 DEF AgesInv
  <2>4. SingleInv'
    BY <1>6, <1>7 DEF SingleInv
  <2>5. FitInv'
    <3>1. /\ orders'[n + 1].reduceOnly = order.reduceOnly
          /\ orders'[n + 1].side = order.side /\ orders'[n + 1].qty = order.qty
          /\ orders'[n + 1].filled = 0
      BY <1>5 DEF SameTerms
    <3>2. \A i \in PendingIds' : i = n + 1
      BY <1>6
    <3> QED
      BY <1>10, <3>1, <3>2 DEF FitInv, Fits
  <2>6. PhaseInv'
    BY <1>8, <1>10 DEF PhaseInv, Fits
  <2>7. InsideInv'
    BY <1>2, <1>3, <1>10 DEF LoopInv, InsideInv, Fits
  <2> QED
    BY <2>1, <2>2, <2>3, <2>4, <2>5, <2>6, <2>7 DEF LoopInv
<1>12. EngineEffect
  BY <1>2, <1>4, <1>8 DEF EngineEffect
<1> QED
  BY <1>9, <1>11, <1>12

\* When a bar is decided, nothing is on its way.
LEMMA NothingWaits ==
  ASSUME BacktestInv, Settled, phase = "signal"
  PROVE  PendingIds = {} /\ ~tick.running /\ BookShown
<1>1. TickInv /\ PhaseInv /\ ~tick.running /\ DecisionInv
  BY EngineFacts DEF BacktestInv, LoopInv, Settled
<1>2. tick.todo = {}
  BY <1>1 DEF TickInv
<1> QED
  BY <1>1, <1>2 DEF PhaseInv, DecisionInv

\* The exit of an opposing position is for the whole of it.
LEMMA FlipKeeps ==
  ASSUME BacktestInv, Flip
  PROVE  EngineInv' /\ LoopInv' /\ EngineEffect
<1> DEFINE order == ExitOrder(Symbol, "signal")
<1>1. /\ IsOpen(Position) /\ SubmitAndShow(order) /\ phase' = "flipped"
      /\ UNCHANGED <<bar, book>>
  BY DEF Flip
<1>2. PendingIds = {} /\ ~tick.running /\ BookShown
  BY NothingWaits DEF Flip
<1>3. /\ IsNew(order) /\ order.symbol = Symbol /\ order.type = "market"
      /\ order.side = Opposite(Position.side) /\ order.qty = Position.qty
      /\ order.reduceOnly = TRUE
  <2>1. AccountInv
    BY EngineFacts DEF BacktestInv
  <2>2. /\ IsNew(order) /\ order.symbol = Symbol /\ order.type = "market"
        /\ order.side = Opposite(positions[Symbol].side)
        /\ order.qty = positions[Symbol].qty /\ order.reduceOnly = TRUE
    BY <2>1, SymbolIsTraded, ExitOrderIsNew DEF Sources, AccountInv
  <2> QED
    BY <2>2 DEF Position
<1>4. order.filled = 0
  BY <1>3 DEF IsNew
<1> HIDE DEF order
<1>5. Fits(order)
  BY <1>1, <1>3, <1>4 DEF Fits
<1> QED
  BY <1>1, <1>2, <1>3, <1>5, SubmitAndShowKeeps

\* An entry is a market order for a size that the planner has given it.
LEMMA EntryIsNew ==
  ASSUME BacktestInv, phase = "signal", EntryQty > 0
  PROVE  /\ IsNew(Entry) /\ Entry.symbol = Symbol /\ Entry.type = "market"
         /\ Entry.reduceOnly = FALSE
<1>1. DecisionInv /\ EngineInv
  BY DEF BacktestInv
<1>2. PICK close \in Closes : book = BookOf(close)
  BY <1>1 DEF DecisionInv, BookShown
<1>3. /\ close \in Nat /\ 7 * (Atr \div 2) < close /\ Mid2(book) = 2 * close
      /\ Mid2(book) \div 2 = close /\ Mid2(book) \in Nat \ {0}
  BY <1>2, BookOfClose, BookIsTop
<1>4. Brackets(signal, close)
  BY <1>1, <1>3 DEF DecisionInv
<1>5. /\ signal.riskBps \in Nat /\ signal.stop \in Nat /\ signal.target \in Nat
      /\ signal.side \in Sides
  <2>1. Atr \div 2 \in Int
    BY EnsembleAssumption
  <2> QED
    BY <1>3, <1>4, <2>1 DEF Brackets, Sides
<1>6. Equity2 \in Int
  <2>1. /\ balance \in Int /\ Position.qty \in Nat /\ Position.avg \in Int
        /\ Position.side \in Sides
    BY <1>1, SymbolIsTraded, BeforeFill, EngineFacts DEF Position
  <2>2. Sign(Position.side) \in Int
    BY <2>1 DEF Sign
  <2>3. PICK g \in Int, q \in Int, a \in Int, m \in Int :
          g = Sign(Position.side) /\ q = Position.qty /\ a = Position.avg /\ m = Mid2(book)
    BY <1>3, <2>1, <2>2
  <2>4. g * q * (m - 2 * a) \in Int
    BY <2>3
  <2> QED
    BY <2>1, <2>3, <2>4 DEF Equity2
<1>7. EntryQty \in Nat
  <2>1. 2 * signal.stop \in Nat
    BY <1>5
  <2>2. EntryQty \in Int
    BY <1>3, <1>5, <1>6, <2>1, CappedSizeIsInteger DEF EntryQty
  <2> QED
    BY <2>2
<1> DEFINE q == EntryQty
<1>8. Entry = [BlankOrder(Symbol, signal.side, "market", q) EXCEPT
                 !.stopLoss = signal.stop, !.takeProfit = signal.target, !.source = "signal"]
  BY DEF Entry
<1>9. q \in Nat
  BY <1>7
<1> HIDE DEF q
<1> QED
  BY <1>5, <1>8, <1>9, SymbolIsTraded
     DEF BlankOrder, IsNew, Orders, NoPrice, OrderTypes, TimesInForce, OrderStatuses

\* An entry is sent only while there is no position; a bar that has flipped one
\* still has it, so that the entry waits for a later signal.
LEMMA EnterKeeps ==
  ASSUME BacktestInv, Enter
  PROVE  EngineInv' /\ LoopInv' /\ EngineEffect
<1>1. /\ ~IsOpen(Position) /\ SubmitAndShow(Entry) /\ phase' = "over" /\ EntryQty > 0
      /\ UNCHANGED <<bar, book>> /\ Settled /\ MayDecide
  BY DEF Enter, Worthy
<1>2. phase = "signal"
  BY <1>1 DEF MayDecide, BacktestInv, LoopInv, PhaseInv
<1>3. PendingIds = {} /\ ~tick.running /\ BookShown
  BY <1>1, <1>2, NothingWaits
<1>4. /\ IsNew(Entry) /\ Entry.symbol = Symbol /\ Entry.type = "market"
      /\ Entry.reduceOnly = FALSE
  BY <1>1, <1>2, EntryIsNew
<1>5. Fits(Entry)
  BY <1>1, <1>4 DEF Fits
<1> QED
  BY <1>1, <1>3, <1>4, <1>5, SubmitAndShowKeeps

-----------------------------------------------------------------------------
(***************************************************************************)
(* The engine's own steps.  The one order that waits is worked, whole, by  *)
(* a later bar; it is the exit of the position or the entry of one, and    *)
(* the protections act only where the bar has left nothing to them.        *)
(***************************************************************************)
\* What the working of an order finds and leaves.
LastOrderFills(id) ==
  /\ id \in DOMAIN orders /\ orders[id] \in Orders /\ PendingIds = {id}
  /\ tick.running /\ tick.todo = {id} /\ pending[id] >= 1 /\ placed[id] + pending[id] <= bar
  /\ Fits(orders[id])
  /\ orders' \in Seq(Orders) /\ Len(orders') = Len(orders) /\ DOMAIN orders' = DOMAIN orders
  /\ SameTerms(orders'[id], orders[id]) /\ orders'[id].filled = orders[id].qty
  /\ \A i \in DOMAIN orders \ {id} : orders'[i] = orders[i]
  /\ PendingIds' = {} /\ tick' = [tick EXCEPT !.todo = {}]
  /\ orders[id].reduceOnly => positions'[Symbol] = Flat

\* The order in hand takes the whole of what it was sent for.
LEMMA WorkFillsTheLast ==
  ASSUME BacktestInv, WorkOrder
  PROVE  \E id : LastOrderFills(id)
<1> DEFINE result(i) == TryFill(orders[i], tick.book)
<1>1. EngineInv /\ CoreInv /\ TickInv /\ LoopInv /\ tick.running /\ tick.todo # {}
  BY EngineFacts, WorkOrderShape DEF BacktestInv, CoreInv, QueueInv
<1>2. PICK id : WorkedStep(id, result(id))
  BY <1>1, WorkOrderShape DEF CoreInv, QueueInv
<1>3. /\ id \in tick.todo /\ id \in PendingIds /\ id \in DOMAIN orders
      /\ Working(orders[id]) /\ Worked(orders[id], result(id))
      /\ orders' \in Seq(Orders) /\ Len(orders') = Len(orders) /\ DOMAIN orders' = DOMAIN orders
      /\ SameTerms(orders'[id], orders[id])
      /\ orders'[id].filled = result(id).order.filled
      /\ \A i \in DOMAIN orders \ {id} : orders'[i] = orders[i]
      /\ IsTerminal(orders'[id]) <=> result(id).status \in {"filled", "cancelled", "rejected"}
      /\ PendingIds' = IF IsTerminal(orders'[id]) THEN PendingIds \ {id} ELSE PendingIds
      /\ tick' = [tick EXCEPT !.todo = tick.todo \ {id}]
      /\ HasFill(result(id)) => BookFill(orders[id], result(id).fill)
  BY <1>2 DEF WorkedStep
<1>4. /\ PendingIds = {id} /\ tick.todo = {id} /\ Fits(orders[id])
      /\ pending[id] >= 1 /\ placed[id] + pending[id] <= bar
      /\ orders[id].symbol = Symbol /\ orders[id].type = "market"
  <2>1. tick.todo \subseteq PendingIds
    BY <1>1 DEF TickInv
  <2> QED
    BY <1>1, <1>3, <2>1 DEF LoopInv, SingleInv, FitInv, AgesInv, PlacedInv
<1>5. /\ orders[id] \in Orders /\ orders[id].filled < orders[id].qty
      /\ orders[id].qty \in Nat /\ orders[id].filled \in Nat
      /\ tick.book \in BookTops
  BY <1>1, <1>3, OrderFields DEF Working, TickInv
<1>6. result(id) = FillMarket(orders[id], tick.book)
  BY <1>4 DEF TryFill
<1>7. result(id).status = "filled" /\ result(id).fill.qty = orders[id].qty - orders[id].filled
  BY <1>5, <1>6, FillMarketWorks DEF Remaining
<1> HIDE DEF result
<1>8. /\ orders'[id].filled = orders[id].qty /\ PendingIds' = {}
      /\ tick' = [tick EXCEPT !.todo = {}] /\ BookFill(orders[id], result(id).fill)
  <2>1. HasFill(result(id)) /\ result(id).order.filled = orders[id].qty
    BY <1>3, <1>5, <1>7 DEF HasFill, Worked
  <2>2. tick.todo \ {id} = {} /\ PendingIds \ {id} = {}
    BY <1>4
  <2> QED
    BY <1>3, <1>7, <2>1, <2>2
<1>9. ASSUME orders[id].reduceOnly PROVE positions'[Symbol] = Flat
  <2>1. /\ IsOpen(positions[Symbol]) /\ orders[id].filled = 0
        /\ orders[id].side = Opposite(positions[Symbol].side)
        /\ orders[id].qty = positions[Symbol].qty
    BY <1>4, <1>9 DEF Fits, Position
  <2>2. result(id).fill.qty = positions[Symbol].qty
    BY <1>5, <1>7, <2>1
  <2> QED
    BY <1>1, <1>4, <1>8, <2>1, <2>2, SymbolIsTraded, WholeFillFlattens DEF CoreInv
<1>10. LastOrderFills(id)
  BY <1>1, <1>3, <1>4, <1>5, <1>8, <1>9 DEF LastOrderFills
<1> QED
  BY <1>10

\* Nothing is on its way after that: what stands may be examined by EndTick.
LEMMA WorkOrderKeeps ==
  ASSUME BacktestInv, WorkOrder, UNCHANGED loopVars
  PROVE  EngineInv' /\ LoopInv' /\ EngineEffect
<1>1. PICK id : LastOrderFills(id)
  BY WorkFillsTheLast
<1>2. /\ EngineInv /\ CoreInv /\ TickInv /\ LoopInv /\ DOMAIN orders = 1 .. Len(orders)
      /\ Len(orders) \in Nat
  BY EngineFacts DEF BacktestInv
<1>3. /\ UNCHANGED <<bar, phase, book, placed>> /\ PendingIds' = {}
      /\ tick' = [tick EXCEPT !.todo = {}]
      /\ tick.running /\ tick.todo = {id} /\ Len(orders') = Len(orders)
  BY <1>1 DEF LastOrderFills, loopVars
<1>4. tick'.running /\ tick'.book = tick.book /\ tick'.todo = {}
  BY <1>2, <1>3 DEF TickInv
<1>5. EngineInv'
  BY <1>2, <1>3, WorkOrderKeepsCore DEF EngineInv
<1>6. phase # "flipped" /\ phase # "signal"
  BY <1>2, <1>3 DEF LoopInv, PhaseInv
<1>7. LoopInv'
  <2>1. ShownInv' /\ AgesInv' /\ FitInv' /\ PlacedInv'
    BY <1>2, <1>3, <1>4 DEF LoopInv, ShownInv, BookShown, AgesInv, FitInv, PlacedInv
  <2>2. SingleInv'
    <3>1. \A i \in DOMAIN orders' : SameTerms(orders'[i], orders[i])
      BY <1>1 DEF LastOrderFills, SameTerms
    <3> QED
      BY <1>1, <1>2, <1>3, <3>1 DEF LastOrderFills, LoopInv, SingleInv, SameTerms
  <2>3. PhaseInv' /\ InsideInv'
    BY <1>3, <1>4, <1>6 DEF PhaseInv, InsideInv
  <2> QED
    BY <2>1, <2>2, <2>3 DEF LoopInv
<1> QED
  BY <1>5, <1>7 DEF EngineEffect

\* When its bar is shown again, and while an order waits, the protections of the
\* position are not breached.
LEMMA ShownAgainIsInside ==
  ASSUME BacktestInv, EndTick, PendingIds # {} \/ phase = "flipped"
  PROVE  ~Breached(Position, protect[Symbol], tick.book)
<1>1. /\ EngineInv /\ CoreInv /\ TickInv /\ LoopInv /\ tick.running /\ tick.todo = {}
      /\ protect[Symbol] \in [stopLoss : Nat, takeProfit : Nat]
  BY EngineFacts, EndTickShape DEF BacktestInv
<1>2. PICK close \in Closes : tick.book = BookOf(close) /\ book = BookOf(close)
  BY <1>1 DEF LoopInv, ShownInv, BookShown
<1>3. Mid2(tick.book) = Mid2(book) /\ Mid2(book) \in Nat
  BY <1>2, BookIsTop
<1>4. CASE phase = "flipped"
  <2>1. IsOpen(Position) => InsideProtections(Position, protect[Symbol], Mid2(book))
    BY <1>1, <1>4 DEF LoopInv, InsideInv
  <2>2. protect[Symbol].stopLoss \in Nat /\ protect[Symbol].takeProfit \in Nat
    BY <1>1
  <2> QED
    BY <1>3, <2>1, <2>2 DEF Breached, InsideProtections
<1>5. CASE phase # "flipped"
  BY <1>1, <1>5 DEF LoopInv, PhaseInv, Breached
<1> QED
  BY <1>4, <1>5

\* The call of on_book ends with the position inside its protections, and with
\* what waits still fitting the position.
LEMMA EndTickKeeps ==
  ASSUME BacktestInv, EndTick, UNCHANGED loopVars
  PROVE  EngineInv' /\ LoopInv' /\ EngineEffect
<1>1. /\ EngineInv /\ CoreInv /\ TickInv /\ LoopInv /\ tick.running /\ tick.todo = {}
      /\ tick' = Quiet /\ UNCHANGED <<orders, pending>> /\ UNCHANGED <<bar, phase, book, placed>>
  BY EngineFacts, EndTickShape DEF BacktestInv, loopVars
<1>2. PICK close \in Closes : tick.book = BookOf(close) /\ book = BookOf(close)
  BY <1>1 DEF LoopInv, ShownInv, BookShown
<1>3. tick.book.symbol = Symbol
  BY <1>2, BookIsTop
<1>4. EngineEffect /\ EngineInv'
  BY <1>1, EndTickKeepsCore DEF EngineInv, EngineEffect
<1>5. PendingIds' = PendingIds /\ ~tick'.running /\ tick'.todo = {}
  BY <1>1 DEF PendingIds, Quiet
<1>6. PendingIds # {} \/ phase = "flipped" => Position' = Position /\ protect' = protect
  <2>1. PendingIds # {} \/ phase = "flipped" => UNCHANGED <<accountVars, protect>>
    BY <1>3, EndTickShape, ShownAgainIsInside DEF Position
  <2> QED
    BY <2>1 DEF accountVars, Position
<1>7. LoopInv'
  <2>1. ShownInv' /\ PlacedInv' /\ AgesInv' /\ SingleInv'
    BY <1>1, <1>5 DEF LoopInv, ShownInv, PlacedInv, AgesInv, SingleInv
  <2>2. FitInv'
    BY <1>1, <1>5, <1>6 DEF LoopInv, FitInv, Fits
  <2>3. PhaseInv'
    BY <1>1, <1>5, <1>6 DEF LoopInv, PhaseInv
  <2>4. InsideInv'
    <3>1. IsOpen(Position') => InsideProtections(Position', protect'[Symbol], Mid2(book))
      BY <1>1, <1>2, <1>3, <1>4, <1>5, EffectLeavesNoBreach DEF Position
    <3> QED
      BY <1>1, <3>1 DEF InsideInv
  <2> QED
    BY <2>1, <2>2, <2>3, <2>4 DEF LoopInv
<1> QED
  BY <1>4, <1>7

-----------------------------------------------------------------------------
(***************************************************************************)
(* The invariant of the backtest, and what it says of every trade.         *)
(***************************************************************************)
LEMMA BacktestInitial == BacktestInit => BacktestInv
<1> SUFFICES ASSUME BacktestInit PROVE BacktestInv
  OBVIOUS
<1>1. /\ EngineInit /\ bar = -1 /\ phase = "over" /\ placed = << >>
      /\ orders = << >> /\ pending = << >> /\ tick = Quiet
  BY DEF BacktestInit, EngineInit
<1>2. EngineInv
  BY <1>1, EngineInitial
<1>3. DecisionInv
  BY <1>1 DEF DecisionInv
<1>4. PendingIds = {} /\ DOMAIN orders = {} /\ ~tick.running /\ tick.todo = {}
  BY <1>1 DEF PendingIds, Quiet
<1>5. ~IsOpen(Position)
  BY <1>1, SymbolIsTraded DEF EngineInit, AccountInit, Position, IsOpen, Flat
<1>6. LoopInv
  <2>1. bar \in Int /\ placed \in Seq(Int) /\ Len(placed) = Len(orders)
    BY <1>1
  <2> QED
    BY <1>1, <1>4, <1>5, <2>1 DEF LoopInv, ShownInv, PlacedInv, AgesInv, SingleInv, FitInv,
                                  PhaseInv, InsideInv
<1> QED
  BY <1>2, <1>3, <1>6 DEF BacktestInv

\* Nothing happens to the engine when nothing happens to the backtest.
LEMMA BacktestStutterKeeps ==
  ASSUME BacktestInv, UNCHANGED backtestVars
  PROVE  EngineInv' /\ LoopInv' /\ EngineEffect
<1>1. UNCHANGED engineVars /\ UNCHANGED <<bar, phase, book, placed>>
  BY DEF backtestVars, loopVars
<1>2. /\ UNCHANGED <<orders, pending, protect, tick, positions, exits>> /\ UNCHANGED accountVars
      /\ PendingIds' = PendingIds /\ Position' = Position
  BY <1>1 DEF engineVars, bookVars, accountVars, PendingIds, Position
<1>3. LoopInv'
  BY <1>1, <1>2 DEF BacktestInv, LoopInv, ShownInv, PlacedInv, AgesInv, SingleInv, FitInv,
                    Fits, PhaseInv, InsideInv, BookShown
<1> QED
  BY <1>1, <1>2, <1>3, EngineStutterKeeps DEF BacktestInv, EngineEffect

\* Every step of the loop keeps its invariant, and does to the engine what a
\* step may do to it.
LEMMA BacktestStep ==
  BacktestInv /\ [BacktestNext]_backtestVars => EngineInv' /\ LoopInv' /\ EngineEffect
<1> SUFFICES ASSUME BacktestInv, [BacktestNext]_backtestVars
             PROVE  EngineInv' /\ LoopInv' /\ EngineEffect
  OBVIOUS
<1>1. CASE \E close \in Closes : NextBar(close)
  BY <1>1, NextBarKeeps
<1>2. CASE Hold \/ \E votes, reading, bias : Ask(votes, reading, bias)
  BY <1>2, DecisionsKeep
<1>3. CASE Flip
  BY <1>3, FlipKeeps
<1>4. CASE Enter
  BY <1>4, EnterKeeps
<1>5. CASE Drive
  BY <1>5, WorkOrderKeeps, EndTickKeeps DEF Drive
<1>6. CASE UNCHANGED backtestVars
  BY <1>6, BacktestStutterKeeps
<1> QED
  BY <1>1, <1>2, <1>3, <1>4, <1>5, <1>6 DEF BacktestNext

\* Whatever the candles and whatever the strategies vote, the loop stands as
\* BacktestInv says.
THEOREM BacktestInvariant == BacktestSpec => []BacktestInv
<1>1. BacktestInv /\ [BacktestNext]_backtestVars => BacktestInv'
  BY BacktestStep, DecisionStep DEF BacktestInv
<1> QED
  BY BacktestInitial, <1>1, PTL DEF BacktestSpec

\* The backtest keeps the invariant of the engine.
LEMMA BacktestKeepsEngine == BacktestInv => EngineInv
  BY DEF BacktestInv

\* What a trade of the backtest is.
LEMMA TradesAreWhole ==
  ASSUME BacktestInv, [BacktestNext]_backtestVars, NEW i \in DOMAIN orders, Traded(i)
  PROVE  /\ placed[i] < bar
         /\ orders[i].reduceOnly => IsOpen(positions[Symbol]) /\ ~IsOpen(positions'[Symbol])
         /\ ~orders[i].reduceOnly => ~IsOpen(positions[Symbol])
<1>1. EngineInv /\ EngineEffect /\ LoopInv
  BY BacktestStep DEF BacktestInv
<1>2. orders \in Seq(Orders) /\ DOMAIN orders = 1 .. Len(orders)
  BY <1>1, EngineFacts
<1>3. orders'[i].filled # orders[i].filled
  <2>1. orders[i] \in Orders
    BY <1>2, ElementOfSeq
  <2>2. orders[i].filled \in Nat
    BY <2>1, OrderFields
  <2> QED
    BY <2>2 DEF Traded
<1>4. WorkOrder
  BY <1>1, <1>3, OnlyWorkTrades
<1>5. PICK id : LastOrderFills(id)
  BY <1>4, WorkFillsTheLast
<1>6. i = id
  BY <1>3, <1>5 DEF LastOrderFills
<1>7. placed[i] + pending[i] <= bar /\ pending[i] >= 1 /\ Fits(orders[i])
      /\ (orders[i].reduceOnly => positions'[Symbol] = Flat)
  BY <1>5, <1>6 DEF LastOrderFills
<1>8. placed[i] \in Int /\ bar \in Int /\ pending[i] \in Int
  <2>1. placed \in Seq(Int) /\ Len(placed) = Len(orders) /\ bar \in Int
    BY <1>1 DEF LoopInv, PlacedInv
  <2>2. i \in PendingIds
    BY <1>5, <1>6 DEF LastOrderFills
  <2> QED
    BY <1>1, <1>2, <2>1, <2>2, ElementOfSeq, EngineFacts
<1>9. ~IsOpen(Flat)
  BY DEF IsOpen, Flat
<1> QED
  BY <1>7, <1>8, <1>9 DEF Fits, Position

\* No look-ahead, over every history: an order never trades on the bar whose
\* close has caused it.
THEOREM TradesComeLater == BacktestSpec => NoFillOnSignalBar
<1>1. BacktestInv /\ [BacktestNext]_backtestVars
        => [\A i \in DOMAIN orders : Traded(i) => placed[i] < bar]_backtestVars
  BY TradesAreWhole
<1> QED
  BY BacktestInvariant, <1>1, PTL DEF BacktestSpec, NoFillOnSignalBar

\* Every exit that the loop sends finds its position and leaves none, although
\* the protections of the position are armed while it waits.
THEOREM ExitsFindTheirPosition == BacktestSpec => ExitsOnlyReduce
<1>1. BacktestInv /\ [BacktestNext]_backtestVars
        => [\A i \in DOMAIN orders :
              orders[i].reduceOnly /\ Traded(i) =>
                IsOpen(positions[Symbol]) /\ ~IsOpen(positions'[Symbol])]_backtestVars
  BY TradesAreWhole
<1> QED
  BY BacktestInvariant, <1>1, PTL DEF BacktestSpec, ExitsOnlyReduce

\* An entry never adds to a position.
THEOREM EntriesNeverAdd == BacktestSpec => NeverPyramids
<1>1. BacktestInv /\ [BacktestNext]_backtestVars
        => [\A i \in DOMAIN orders :
              ~orders[i].reduceOnly /\ Traded(i) => ~IsOpen(positions[Symbol])]_backtestVars
  BY TradesAreWhole
<1> QED
  BY BacktestInvariant, <1>1, PTL DEF BacktestSpec, NeverPyramids

-----------------------------------------------------------------------------
(***************************************************************************)
(* The engine promises a backtest what it promises to live trading.        *)
(***************************************************************************)
\* The balance of a backtest is what its account has booked.
THEOREM BacktestBalanceIsBooked == BacktestSpec => []BalanceIsBookedPnl
<1>1. BacktestInit => BalanceIsBookedPnl
  BY BalanceInitial DEF BacktestInit, EngineInit
<1>2. BacktestInv /\ EngineInv /\ BalanceIsBookedPnl /\ [BacktestNext]_backtestVars
        => BalanceIsBookedPnl'
  BY BacktestStep, EffectKeepsBalance
<1> QED
  BY BacktestInvariant, BacktestKeepsEngine, <1>1, <1>2, PTL DEF BacktestSpec

\* No fill of a backtest is lost, doubled or booked for another symbol.
THEOREM BacktestFillsAreBooked == BacktestSpec => []FillsAreAccounted
<1>1. BacktestInit => FillsAreAccounted
  BY NothingFilled DEF BacktestInit
<1>2. BacktestInv /\ EngineInv /\ FillsAreAccounted /\ [BacktestNext]_backtestVars
        => FillsAreAccounted'
  BY BacktestStep, EffectAccounted
<1> QED
  BY BacktestInvariant, BacktestKeepsEngine, <1>1, <1>2, PTL DEF BacktestSpec

\* Every order of a backtest lives one life: it arrives, trades and ends once.
THEOREM BacktestRefinesOrderLife == BacktestSpec => EngineImplementsOrderLife
<1>1. BacktestInit => Life!LifeInit
  BY LifeInitial DEF BacktestInit
<1>2. BacktestInv /\ EngineInv /\ [BacktestNext]_backtestVars /\ EngineInv'
        => [Life!LifeNext]_(Life!lifeVars)
  BY BacktestStep, EffectIsLife
<1> QED
  BY BacktestInvariant, BacktestKeepsEngine, <1>1, <1>2, PTL
     DEF BacktestSpec, EngineImplementsOrderLife, Life!LifeSpec

\* Showing a bar, and showing it again after an order, leaves what it leaves
\* open inside its protections.
THEOREM BacktestProtectionsHold == BacktestSpec => NoSnapshotLeavesBreach
<1>1. BacktestInv /\ EngineInv /\ [BacktestNext]_backtestVars
        => [tick.running /\ ~tick'.running =>
              LET s == tick.book.symbol
              IN IsOpen(positions'[s]) =>
                   InsideProtections(positions'[s], protect'[s], Mid2(tick.book))]_engineVars
  BY BacktestStep, EffectLeavesNoBreach
<1> QED
  BY BacktestInvariant, BacktestKeepsEngine, <1>1, PTL DEF BacktestSpec, NoSnapshotLeavesBreach
-----------------------------------------------------------------------------
(***************************************************************************)
(* The report.  The trades that the account has closed are those of its    *)
(* one symbol, and their sum is what the account has booked for them: that *)
(* is what ties the report, which reads the trades, to the balance, which  *)
(* every fill moves.                                                       *)
(***************************************************************************)
BookInv ==
  /\ trades \in Seq(Int)
  /\ SumOver(trades, DOMAIN trades) = closed[Symbol]
  /\ \A s \in Symbols \ {Symbol} : positions[s] = Flat /\ closed[s] = 0

\* Nothing is traded and nothing is booked before the first bar.
LEMMA BookInitial == BacktestInit => BookInv
<1> SUFFICES ASSUME BacktestInit PROVE BookInv
  OBVIOUS
<1>1. trades = << >> /\ AccountInit
  BY DEF BacktestInit, EngineInit
<1>2. SumOver(trades, DOMAIN trades) = 0
  <2>1. DOMAIN trades = {}
    BY <1>1
  <2> QED
    BY <2>1, SumOfNone
<1> QED
  BY <1>1, <1>2, SymbolIsTraded DEF BookInv, AccountInit

\* What the engine does to the account between two decisions: nothing, or one
\* fill of the symbol.
FillOfSymbol == \E f \in AnyFill : f.symbol = Symbol /\ ApplyFill(f)

\* The order in hand fills for the symbol.
LEMMA WorkFillsSymbol ==
  ASSUME BacktestInv, WorkOrder
  PROVE  FillOfSymbol \/ UNCHANGED accountVars
<1> DEFINE id == Min(tick.todo)
           result == TryFill(orders[id], tick.book)
<1>1. EngineInv /\ CoreInv /\ TickInv /\ LoopInv
  BY EngineFacts DEF BacktestInv
<1>2. WorkedStep(id, result)
  BY <1>1, WorkOrderShape DEF CoreInv, QueueInv
<1> HIDE DEF id, result
<1>3. /\ id \in DOMAIN orders /\ orders[id].symbol = Symbol /\ orders[id] \in Orders
      /\ Worked(orders[id], result)
      /\ IF HasFill(result) THEN BookFill(orders[id], result.fill) ELSE UNCHANGED <<accountVars, protect>>
  BY <1>1, <1>2 DEF WorkedStep, Working, LoopInv, SingleInv
<1>4. CASE HasFill(result)
  <2> DEFINE f == [symbol |-> orders[id].symbol, side |-> orders[id].side, qty |-> result.fill.qty,
                   price |-> result.fill.price, fee |-> result.fill.fee]
  <2>1. result.fill.qty \in Nat \ {0} /\ result.fill.price \in Int /\ result.fill.fee \in Int
    BY <1>3, <1>4 DEF Worked, HasFill
  <2>2. f \in AnyFill
    BY <1>3, <2>1, FillIsAccountable
  <2>3. ApplyFill(f)
    BY <1>3, <1>4 DEF BookFill
  <2>4. f.symbol = Symbol
    BY <1>3
  <2> HIDE DEF f
  <2> QED
    BY <2>2, <2>3, <2>4 DEF FillOfSymbol
<1> QED
  BY <1>3, <1>4

\* A protection that is breached sells or buys back the position of the symbol.
LEMMA ExitFillsSymbol ==
  ASSUME BacktestInv, EndTick
  PROVE  FillOfSymbol \/ UNCHANGED accountVars
<1> DEFINE s == tick.book.symbol
           order == ExitOf(s)
           fill == TryFill(order, tick.book).fill
<1>1. /\ EngineInv /\ CoreInv /\ AccountInv /\ TickInv /\ LoopInv /\ tick.running
      /\ IF Breached(positions[s], protect[s], tick.book)
         THEN BookFill(order, fill) ELSE UNCHANGED <<accountVars, protect, exits>>
  BY EngineFacts, EndTickShape DEF BacktestInv
<1>2. tick.book \in BookTops /\ s = Symbol
  BY <1>1, BookIsTop DEF LoopInv, ShownInv, BookShown, TickInv
<1>3. CASE Breached(positions[s], protect[s], tick.book)
  <2> DEFINE f == [symbol |-> order.symbol, side |-> order.side, qty |-> fill.qty,
                   price |-> fill.price, fee |-> fill.fee]
  <2>1. IsOpen(positions[s]) /\ s \in Symbols
    BY <1>2, <1>3, SymbolIsTraded DEF Breached
  <2>2. /\ order \in Orders /\ order.symbol = s
        /\ fill.qty \in Nat \ {0} /\ fill.price \in Int /\ fill.fee \in Int
    BY <1>1, <1>2, <2>1, ExitFillIsWhole DEF AccountInv
  <2> HIDE DEF order, fill
  <2>3. f \in AnyFill
    BY <2>2, FillIsAccountable
  <2>4. ApplyFill(f)
    BY <1>1, <1>3 DEF BookFill
  <2>5. f.symbol = Symbol
    BY <1>2, <2>2
  <2> HIDE DEF f
  <2> QED
    BY <2>3, <2>4, <2>5 DEF FillOfSymbol
<1> QED
  BY <1>1, <1>3

\* The account appends the trade that the fill has closed, with what it books.
LEMMA DriveBooks ==
  ASSUME BacktestInv, BookInv, Drive
  PROVE  BookInv'
<1>1. /\ AccountInv
      /\ trades' = IF ClosesTrade THEN Append(trades, closed'[Symbol] - closed[Symbol]) ELSE trades
  BY EngineFacts DEF BacktestInv, Drive
<1>2. FillOfSymbol \/ UNCHANGED accountVars
  BY WorkFillsSymbol, ExitFillsSymbol DEF Drive
<1>3. ClosesTrade <=> EndsTrade(Symbol)
  BY DEF ClosesTrade, EndsTrade, Position
<1>4. closed[Symbol] \in Int /\ positions[Symbol] \in Positions
  BY <1>1, SymbolIsTraded, BeforeFill
<1>5. CASE UNCHANGED accountVars
  <2>1. UNCHANGED <<positions, closed>>
    BY <1>5 DEF accountVars
  <2>2. ~EndsTrade(Symbol)
    BY <2>1 DEF EndsTrade
  <2> QED
    BY <1>1, <1>3, <2>1, <2>2 DEF BookInv
<1>6. CASE FillOfSymbol
  <2>1. PICK f \in AnyFill : f.symbol = Symbol /\ ApplyFill(f)
    BY <1>6 DEF FillOfSymbol
  <2>2. AccountInv'
    BY <1>1, <2>1, FillPreserves DEF AccountStepOK
  <2>3. closed'[Symbol] \in Int
    BY <2>2, SymbolIsTraded DEF AccountInv, AccountTypeOK
  <2>4. /\ \A s \in Symbols \ {Symbol} : positions'[s] = positions[s] /\ closed'[s] = closed[s]
        /\ ~EndsTrade(Symbol) => closed' = closed
    BY <1>1, <2>1, OnlyClosingBooks
  <2>5. CASE ClosesTrade
    <3>1. PICK x \in Int : x = closed'[Symbol] - closed[Symbol]
      BY <1>4, <2>3
    <3>2. trades' = Append(trades, x) /\ trades' \in Seq(Int)
      BY <1>1, <2>5, <3>1 DEF BookInv
    <3>3. SumOver(Append(trades, x), DOMAIN Append(trades, x)) = SumOver(trades, DOMAIN trades) + x
      BY <3>1, SumOfAppended DEF BookInv
    <3>4. SumOver(trades', DOMAIN trades') = closed[Symbol] + x
      BY <3>2, <3>3, Zenon DEF BookInv
    <3>5. closed[Symbol] + x = closed'[Symbol]
      BY <1>4, <2>3, <3>1
    <3> QED
      BY <2>4, <3>2, <3>4, <3>5 DEF BookInv
  <2>6. CASE ~ClosesTrade
    BY <1>1, <1>3, <2>4, <2>6 DEF BookInv
  <2> QED
    BY <2>5, <2>6
<1> QED
  BY <1>2, <1>5, <1>6

\* Every step keeps the sum of the trades what the account has booked.
LEMMA BookStep == BacktestInv /\ BookInv /\ [BacktestNext]_backtestVars => BookInv'
<1> SUFFICES ASSUME BacktestInv, BookInv, [BacktestNext]_backtestVars PROVE BookInv'
  OBVIOUS
<1>1. CASE Drive
  BY <1>1, DriveBooks
<1>2. CASE ~Drive
  <2>1. UNCHANGED <<trades, positions, closed>>
    BY <1>2 DEF BacktestNext, NextBar, Ask, Answer, Flip, Hold, Enter, SubmitAndShow, Submit,
                backtestVars, engineVars, accountVars
  <2> QED
    BY <2>1 DEF BookInv
<1> QED
  BY <1>1, <1>2

\* The sum of the trades is what the account has booked for them, always.
THEOREM BookInvariant == BacktestSpec => []BookInv
<1> QED
  BY BacktestInvariant, BookInitial, BookStep, PTL DEF BacktestSpec

\* An account without a position holds its starting balance and its trades.
LEMMA FlatBalance ==
  ASSUME BacktestInv, BookInv, BalanceIsBookedPnl, ~IsOpen(Position)
  PROVE  balance = StartingBalance + SumOver(trades, DOMAIN trades)
<1>1. AccountInv /\ AccountTypeOK
  BY EngineFacts DEF BacktestInv, AccountInv
<1>2. positions[Symbol] = Flat
  BY <1>1, SymbolIsTraded DEF AccountTypeOK, Position
<1>3. \A s \in Symbols : BookedBySymbol[s] = closed[s] /\ closed[s] \in Int
  <2>1. Booked(Flat) = 0
    BY DEF Booked, Flat
  <2>2. \A s \in Symbols : positions[s] = Flat
    BY <1>2 DEF BookInv
  <2>3. \A s \in Symbols : closed[s] \in Int
    BY <1>1 DEF AccountTypeOK
  <2> QED
    BY <2>1, <2>2, <2>3 DEF BookedBySymbol, BookedPnl
<1>4. SumOver(BookedBySymbol, Symbols)
        = BookedBySymbol[Symbol] + SumOver(BookedBySymbol, Symbols \ {Symbol})
  <2>1. \A f : (\A x \in Symbols : f[x] \in Int)
                 => SumOver(f, Symbols) = f[Symbol] + SumOver(f, Symbols \ {Symbol})
    BY SymbolAssumption, SymbolIsTraded, SumWithout
  <2> QED
    BY <1>3, <2>1
<1>5. SumOver(BookedBySymbol, Symbols \ {Symbol}) = 0
  <2>1. IsFiniteSet(Symbols \ {Symbol})
    BY SymbolAssumption, FS_Subset
  <2>2. \A f : (\A x \in Symbols \ {Symbol} : f[x] = 0) => SumOver(f, Symbols \ {Symbol}) = 0
    BY <2>1, SumOfZeros
  <2>3. \A s \in Symbols \ {Symbol} : BookedBySymbol[s] = 0
    BY <1>3 DEF BookInv
  <2> QED
    BY <2>2, <2>3
<1>6. SumOver(BookedBySymbol, Symbols) = closed[Symbol]
  BY <1>3, <1>4, <1>5, SymbolIsTraded
<1> QED
  BY <1>6, BalanceAsSum DEF BookInv

\* Over every history, the report of a fold that has ended without a position
\* explains its balance: its pnl is the change of the balance, profits and
\* losses and wins and losses are all of it, and the ledger ends at the balance.
THEOREM ReportExplains == BacktestSpec => []ReportExplainsBalance
<1>1. BacktestInv /\ BookInv /\ BalanceIsBookedPnl => ReportExplainsBalance
  <2> SUFFICES ASSUME BacktestInv, BookInv, BalanceIsBookedPnl, ~IsOpen(Position)
               PROVE  /\ Report.totalPnl = balance - StartingBalance
                      /\ Report.grossProfit - Report.grossLoss = Report.totalPnl
                      /\ Report.wins + Report.losses = Report.trades
                      /\ trades # << >> => Ledger[Len(trades)].after = balance
    BY DEF ReportExplainsBalance
  <2>1. balance = StartingBalance + SumOver(trades, DOMAIN trades)
    BY FlatBalance
  <2>2. StartingBalance \in Int /\ trades \in Seq(Int)
    BY StartingBalanceAssumption DEF BookInv
  <2>3. /\ SumOver(trades, DOMAIN trades) \in Int /\ Report.totalPnl = SumOver(trades, DOMAIN trades)
        /\ Report.grossProfit - Report.grossLoss = Report.totalPnl
        /\ Report.wins + Report.losses = Report.trades
        /\ trades # << >> => Ledger[Len(trades)].after = StartingBalance + SumOver(trades, DOMAIN trades)
    BY <2>2, ReportIs DEF Report, Ledger
  <2> QED
    BY <2>1, <2>2, <2>3
<1> QED
  BY BacktestInvariant, BookInvariant, BacktestBalanceIsBooked, <1>1, PTL

\* The drawdown that is reported, found in one pass, is the deepest fall of the
\* equity curve there is, whatever was traded.
THEOREM DrawdownIsDeepest == BacktestSpec => []DrawdownIsDeepestFall
<1>1. BookInv => DrawdownIsDeepestFall
  <2> SUFFICES ASSUME BookInv PROVE DrawdownIsDeepestFall
    OBVIOUS
  <2> DEFINE curve == EquityCurve(StartingBalance, trades)
  <2>1. StartingBalance \in Int /\ trades \in Seq(Int)
    BY StartingBalanceAssumption DEF BookInv
  <2>2. curve \in Seq(Int) /\ Len(curve) = Len(trades) + 1
    BY <2>1, CurveIs
  <2>3. Report.maxDrawdown = MaxDrawdown(curve)
    BY <2>1, ReportIs DEF Report
  <2> HIDE DEF curve
  <2>4. curve # << >>
    BY <2>1, <2>2
  <2>5. LET spans == {p \in (DOMAIN curve) \X (DOMAIN curve) : p[1] <= p[2]}
        IN MaxDrawdown(curve).worst = Max({curve[p[1]] - curve[p[2]] : p \in spans})
    BY <2>2, <2>4, DeepestFallIs
  <2> QED
    BY <2>3, <2>5 DEF curve, DrawdownIsDeepestFall
<1> QED
  BY BookInvariant, <1>1, PTL
=============================================================================
