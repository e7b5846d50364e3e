------------------------------- MODULE Backtest -------------------------------
(***************************************************************************)
(* One fold of a walk-forward evaluation: the backtester drives the same   *)
(* engine, risk gate and ensemble as live trading over historical candles. *)
(* Source: backend/app/services/backtest/engine.py, run_backtest, called   *)
(* by walk_forward.                                                        *)
(*                                                                         *)
(* A bar is one turn of the loop: its book is shown to the engine, and     *)
(* from the fold's first bar on the ensemble is asked; an exit and an      *)
(* entry are each followed by showing the same book again.  phase is where *)
(* the loop stands.  One unit of latency is one bar, which is longer than  *)
(* any latency, so that an order waits for the next bar.                   *)
(***************************************************************************)
EXTENDS PaperEngine, RiskLimits, Ensemble, WalkForward, Metrics

CONSTANTS Closes,      \* the closing prices the history may have
          HalfSpread,  \* half the spread of the synthetic book
          Depth        \* the size it displays

ASSUME BacktestAssumption == /\ Closes \subseteq Nat /\ HalfSpread \in Nat
                             /\ Depth \in Nat \ {0} /\ StartingBalance > 0
                             /\ Symbols # {} /\ Latency = 1

\* The spread is a few basis points of the price and no target is below zero:
\* the volatility filter refuses ranges above a twentieth of the price.
ASSUME PricesAssumption ==
  \A close \in Closes : HalfSpread < close /\ 7 * (Atr \div 2) < close

VARIABLES fold,    \* which fold this is
          bar,     \* the index of the bar of this turn, -1 before the first
          phase,   \* "shown", "signal", "flipped" or "over"
          book,    \* the synthetic book of this bar
          signal,  \* what the ensemble said on this bar
          trades,  \* PaperAccount.closed_trades: the pnl of each
          placed   \* ghost: the bar on which each order was submitted

loopVars == <<fold, bar, phase, book, signal, placed>>
backtestVars == <<engineVars, loopVars, trades>>

Symbol == CHOOSE s \in Symbols : TRUE
Position == positions[Symbol]

\* _book_from_candle
BookOf(close) ==
  [symbol |-> Symbol, bid |-> close - HalfSpread, ask |-> close + HalfSpread,
   bidQty |-> Depth, askQty |-> Depth, lag |-> 0]

Equity2 == 2 * balance + Sign(Position.side) * Position.qty * (Mid2(book) - 2 * Position.avg)

\* The bar is compared with nothing but what it shows: each restarts the peak,
\* the day and the streak of losses.
AccountState ==
  [equity2 |-> Equity2, peak2 |-> Equity2, dayPnl2 |-> 0,
   openPositions |-> Cardinality(OpenSymbols), symbol2 |-> 0,
   total2 |-> Position.qty * Mid2(book), losses |-> 0, cooling |-> FALSE]
MarketState == [age |-> "fresh", funding |-> "calm", book |-> book]

EntryQty == CappedSize(Equity2, Mid2(book), 2 * signal.stop, signal.riskBps)
Intent == [qty |-> EntryQty, price2 |-> Mid2(book), stop2 |-> 2 * signal.stop,
           leverage |-> 3, reduceOnly |-> FALSE]
Entry == [BlankOrder(Symbol, signal.side, "market", EntryQty) EXCEPT
            !.stopLoss = signal.stop, !.takeProfit = signal.target, !.source = "signal"]

\* submit, and then on_book with the same book again.
SubmitAndShow(order) ==
  /\ Submit(order)
  /\ tick' = [running |-> TRUE, book |-> book, todo |-> Eligible(pending', orders', book)]
  /\ placed' = Append(placed, bar)

Settled == ~tick.running

\* The candles that the fold is given.
Given(b) == b < FoldEnd(fold)

-----------------------------------------------------------------------------
\* The next candle: its book drives resting orders and protections.
NextBar(close) ==
  /\ Settled /\ phase = "over" /\ Given(bar + 1)
  /\ bar' = bar + 1
  /\ book' = BookOf(close)
  /\ pending' = [i \in PendingIds |-> Older(pending[i])]
  /\ tick' = [running |-> TRUE, book |-> book', todo |-> Eligible(pending', orders, book')]
  /\ phase' = IF bar' < FoldStart(fold) THEN "over" ELSE "shown"
  /\ UNCHANGED <<accountVars, orders, protect, exits, fold, signal, trades, placed>>

\* The ensemble is asked about the candles up to this one.
Answer(given) ==
  /\ Settled /\ phase = "shown"
  /\ signal' = given
  /\ phase' = IF signal'.side = "neutral" THEN "over" ELSE "signal"
  /\ UNCHANGED <<engineVars, fold, bar, book, trades, placed>>
Ask(votes, reading, bias) == Answer(Evaluate(votes, reading, bias, Mid2(book) \div 2))

\* An opposing position is exited first.
Flip ==
  /\ Settled /\ phase = "signal"
  /\ IsOpen(Position) /\ Position.side # signal.side
  /\ SubmitAndShow(ExitOrder(Symbol, "signal"))
  /\ phase' = "flipped"
  /\ UNCHANGED <<fold, bar, book, signal, trades>>

\* What is still open is held, whichever way it points.
MayDecide ==
  \/ phase = "flipped"
  \/ phase = "signal" /\ ~(IsOpen(Position) /\ Position.side # signal.side)
Worthy == EntryQty > 0 /\ Allowed(Intent, AccountState, MarketState)

Hold ==
  /\ Settled /\ MayDecide /\ (IsOpen(Position) \/ ~Worthy)
  /\ phase' = "over"
  /\ UNCHANGED <<engineVars, fold, bar, book, signal, trades, placed>>

Enter ==
  /\ Settled /\ MayDecide /\ ~IsOpen(Position) /\ Worthy
  /\ SubmitAndShow(Entry)
  /\ phase' = "over"
  /\ UNCHANGED <<fold, bar, book, signal, trades>>

\* The engine works the order or the protection, and the account appends the
\* trade that the fill has closed.
ClosesTrade ==
  IsOpen(Position) /\ ~(IsOpen(Position') /\ Position'.side = Position.side)
Drive ==
  /\ WorkOrder \/ EndTick
  /\ trades' = IF ClosesTrade THEN Append(trades, closed'[Symbol] - closed[Symbol]) ELSE trades
  /\ UNCHANGED loopVars

BacktestInit ==
  /\ EngineInit
  /\ fold \in FoldIds
  /\ bar = -1 /\ phase = "over" /\ book = NoBook /\ signal = NoSignal
  /\ trades = << >> /\ placed = << >>

BacktestNext ==
  \/ \E close \in Closes : NextBar(close)
  \/ \E votes \in [Voters -> Votes], reading \in Readings, bias \in Directions :
       Ask(votes, reading, bias)
  \/ Flip \/ Hold \/ Enter
  \/ Drive

BacktestSpec == BacktestInit /\ [][BacktestNext]_backtestVars

-----------------------------------------------------------------------------
Traded(i) == orders'[i].filled > orders[i].filled

\* No look-ahead: an order that a candle's close has caused fills at a later
\* candle, never at the close that the strategies have seen.
NoFillOnSignalBar ==
  [][\A i \in DOMAIN orders : Traded(i) => placed[i] < bar]_backtestVars

\* Every exit finds the position that it was sent for: none opens, enlarges or
\* reverses one, although the stop of the position is armed while it waits.
ExitsOnlyReduce ==
  [][\A i \in DOMAIN orders :
       orders[i].reduceOnly /\ Traded(i) =>
         IsOpen(positions[Symbol]) /\ ~IsOpen(positions'[Symbol])]_backtestVars

\* A position is never added to: at most one entry is on its way, and only while
\* there is no position.
NeverPyramids ==
  [][\A i \in DOMAIN orders :
       ~orders[i].reduceOnly /\ Traded(i) => ~IsOpen(positions[Symbol])]_backtestVars

\* Whatever the strategies vote, the stop that an entry will carry lies on the
\* losing side of the price at which it is decided, and its target on the other.
StopsBracketEntries ==
  phase \in {"signal", "flipped"} =>
    IF signal.side = "buy"
    THEN 2 * signal.stop < Mid2(book) /\ Mid2(book) < 2 * signal.target
    ELSE 2 * signal.target < Mid2(book) /\ Mid2(book) < 2 * signal.stop

\* Every bar after the warm-up is traded in by exactly one fold: only by the
\* fold whose turn it is, and a fold ends where the next begins or the history ends.
TradingFolds(b) == {i \in FoldIds : TradableIn(i, b)}
EndsTheFold == phase = "over" /\ ~Given(bar + 1)
BarTradedByOneFold ==
  /\ phase = "shown" => TradingFolds(bar) = {fold}
  /\ EndsTheFold => bar + 1 = IF fold + 1 \in FoldIds THEN FoldStart(fold + 1) ELSE Bars

\* The report of a fold that ends without a position explains its balance: the
\* trades are wins and losses, and the ledger runs from the starting balance to
\* what the account holds.
Report == Performance(StartingBalance, trades)
Ledger == MoneyLedger(StartingBalance, trades)
ReportExplainsBalance ==
  ~IsOpen(Position) =>
    /\ Report.totalPnl = balance - StartingBalance
    /\ Report.grossProfit - Report.grossLoss = Report.totalPnl
    /\ Report.wins + Report.losses = Report.trades
    /\ trades # << >> => Ledger[Len(trades)].after = balance

\* The drawdown found in one pass over the equity curve is the deepest fall from
\* any value of the curve to a later one.
DrawdownIsDeepestFall ==
  LET curve == EquityCurve(StartingBalance, trades)
      spans == {p \in (DOMAIN curve) \X (DOMAIN curve) : p[1] <= p[2]}
  IN Report.maxDrawdown.worst = Max({curve[p[1]] - curve[p[2]] : p \in spans})
=============================================================================
