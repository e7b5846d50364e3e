----------------------------- MODULE WalkForward -----------------------------
(***************************************************************************)
(* The folds of a walk-forward evaluation: each is a backtest of the       *)
(* history up to the fold's end that may trade from the fold's start on.   *)
(* Source: backend/app/services/backtest/walkforward.py.                   *)
(***************************************************************************)
EXTENDS Integers

CONSTANTS Bars,       \* candles of the history
          Warmup,     \* bars before any signal is allowed
          FoldCount,  \* folds of the evaluation
          FoldMin     \* the least bars of a fold: 30

\* walk_forward refuses anything else.
ASSUME FoldAssumption == /\ Bars \in Nat /\ Warmup \in Nat /\ FoldMin \in Nat \ {0}
                         /\ FoldCount \in Nat /\ FoldCount >= 2
                         /\ Bars - Warmup >= FoldCount * FoldMin

Window == (Bars - Warmup) \div FoldCount
FoldIds == 0 .. FoldCount - 1

\* The first bar on which a fold may trade, and the first after its end: the
\* last fold takes the bars that the division leaves over.
FoldStart(i) == Warmup + i * Window
\* Bug: the bars left over belong to no fold.
EvenFoldEnd(i) == Warmup + (i + 1) * Window
FoldEnd(i) == IF i < FoldCount - 1 THEN Warmup + (i + 1) * Window ELSE Bars

TradableIn(i, bar) == FoldStart(i) <= bar /\ bar < FoldEnd(i)
=============================================================================
