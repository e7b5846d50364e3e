# Formal model of the paper-trading platform

TLA+ modules for the backend of the platform (`src/backend/app`), the TLC
configurations that check them on small instances, and theorems that TLAPS
proves for every value of the constants. The frontend only renders what the API
returns and is not modelled.

Every definition was translated from the source, read together with its tests
and `docs/`. `PROJECT.json` maps each definition to its lines.

## 1. The system

One process, one asyncio event loop. Handlers run without preemption until they
`await`; almost every state change of the trading path happens in synchronous
code, so the interesting interleavings are those of *handlers*, of the simulated
wire latency, and of the few places that do await: the REST polls, the
reconciler, the database worker, the delivery of alerts, the sends to browsers.

    exchange ──stream/REST──▶ MarketHub ──on_book──▶ Runtime ──▶ PaperEngine ──▶ PaperAccount
                               │  candles closed ▶ Ensemble ▶ autotrade ──┐  │ FillSimulator
    clients ──REST──▶ routes ──▶ place_order: KillSwitch ▶ RiskLimits ◀──┘  │
    monitor loop ──▶ KillSwitch ──on_trip──▶ flatten_all                     │
    on_trip, monitor ──emit_alert──▶ feed, integrations; every event ──▶ WsHub ──▶ browsers
    PaperEngine ──on_fill / on_order_update──▶ Persistence ──queue──▶ database
    backtester: candles ▶ the same Ensemble, RiskLimits, PaperEngine ▶ Metrics

| Component (source) | State | Operations | What makes it correct |
|---|---|---|---|
| Paper account (`paper_engine/account.py`) | balance, one position per symbol, closed trades | `apply_fill` (open, add, reduce, close, flip), `apply_funding` | positions are the net of the fills; balance = start + everything booked; money is conserved but for rounding |
| Fill simulator (`fills.py`) | none; marks on the order | `try_fill` per order type, slippage, fees | within quantity, limit and touch |
| Paper engine (`engine.py`) | pending orders with their age, protections | `submit`, `cancel`, `cancel_all`, `flatten_all`, `on_book` | an order works until it ends, ends once, never overfills; no snapshot leaves a breached protection; nothing it fills is lost on the account |
| Kill switches (`risk/killswitch.py`) | one switch per scope | `trip`, `acknowledge`, `rearm`, `auto_clear` | a hard trip latches; only an acknowledgement or a data recovery releases |
| Risk limits (`risk/limits.py`) | configuration | `check`, position sizing | entries respect every limit, exits always pass |
| Runtime (`runtime.py`, `autotrade.py`, `detectors.py`, trading routes) | quotes, ages, peak equity, loss streak | `place_order`, autotrade, quality monitor, fill and trip callbacks, endpoints | a hard halt stops everything but its own exits and ends flat; only soft trips that speak of data clear themselves |
| Market-data hub and reconciler (`hub.py`, `reconciler.py`) | candle series, last final bar | stream events, silent-stream polls, gap backfill | series ascend without repetition, a bar closes once, gaps are filled, by exactly what is missing |
| Persistence (`persistence.py`, `repository.py`) | bounded queue, batch in progress, tables | enqueue, batch, commit, roll back, `recover` | caught up means mirrored; a durable end is final |
| Market-data providers (`bybit.py`, `binance.py`) | a connection | stream, paged backfill, polls | pages leave no bar out and repeat none |
| Ensemble and strategies (`strategy/*.py`) | none | filter, vote, route, damp, decide | direction and stop belong together |
| Backtester and walk-forward (`backtest/*.py`) | the loop over candles | next bar, ask, flip, hold, enter | no look-ahead, no double exit or entry, folds share no bar |
| Analytics (`analytics/*.py`) | none | pure reports over closed trades | reports explain the balance, count every trade once, and call nothing ready that lost money |
| Rate limiter (`core/ratelimit.py`) | admission times per host | `check`, the middleware | never more than the limit in any window; who waits as told is let in |
| WebSocket fan-out (`api/ws.py`) | subscriptions per connection | connect, subscribe, broadcast, disconnect | a subscriber gets every event once and in order |
| Alerts and integrations (`notifications.py`, `registry.py`) | feed, routes, outcomes | record, deliver, acknowledge | one failing integration costs the others nothing |
| Audit, authentication, configuration, schema, execution adapters | see `PROJECT.json` | | not modelled, with reasons there and in section 7 |

Hard behaviours: orders that wait out a latency while stops are armed; several
orders and protections meeting one snapshot; flips; trips arriving over working
orders; a cause that trips an already tripped switch; polls whose answers arrive
after the stream is back; writes of live objects between awaits; dropped or
failed batches; restarts; requests at the edge of a window; events sent after
their receiver has left; integrations that fail or change during a delivery;
pages of candles that meet.

## 2. Modules

| Module | Models | Built on |
|---|---|---|
| `PaperAccount` | the account, one operator per path of `apply_fill` | |
| `FillSimulator` | order, snapshot → order, fill, status | |
| `PaperEngine` | `submit` … `on_book` | the two above, `OrderLife` |
| `KillSwitch` | the registry | |
| `RiskLimits` | `check` and the sizings, as operators | |
| `TradingRuntime` | gateway, autotrade, monitor, callbacks, endpoints | `PaperEngine`, `KillSwitch`, `RiskLimits` |
| `OrderLife` | abstract: what the engine promises of an order | |
| `MarketHub` | candles of one symbol: stream, poll, reconciler | `Paging` |
| `Paging` | the paged backfills of Bybit (backwards) and Binance (forwards) | |
| `PersistentEngine` | write-behind queue, worker, restart | `PaperEngine` |
| `Ensemble` | the filters and the vote | |
| `WalkForward` | the folds | |
| `Metrics` | equity curve, drawdown, report, ledger | |
| `Backtest` | one fold | `PaperEngine`, `RiskLimits`, `Ensemble`, `WalkForward`, `Metrics` |
| `Reports` | groups, calendars, callouts, histogram, readiness score | `Metrics` |
| `AccountReports` | the account, its closed trades and the reports of them | `PaperAccount`, `Reports` |
| `RateLimiter` | the sliding window and the middleware | |
| `WsHub` | connections, subscriptions, send tasks | |
| `Notifications` | feed, routes, delivery of each alert | |
| `Console` | requests, monitor, trips, alerts and events together | `RateLimiter`, `KillSwitch`, `WsHub`, `Notifications` |
| `Lists` | what the code does with lists: order, filter, `sorted`, `sum`, a loop that carries a value | |
| `CollectionProofs` | lemmas: sums over any finite set, sets put in order, loops over a list | `Lists`, `Metrics` |
| `PaperAccountProofs` | theorems of the account | `PaperAccount`, `CollectionProofs` |
| `PaperEngineProofs` | theorems of the engine, and of whatever drives it | `PaperEngine`, `PaperAccountProofs` |
| `TradingRuntimeProofs` | theorems of the runtime | `TradingRuntime`, `PaperEngineProofs` |
| `BacktestProofs` | theorems of the backtest and its folds | `Backtest`, `PaperEngineProofs` |
| `PersistenceProofs` | theorems of the write-behind queue and the restart | `PersistentEngine`, `PaperEngineProofs` |
| `ReportsProofs` | theorems of the account's reports | `AccountReports`, `PaperAccountProofs` |
| `BoundaryProofs` | theorems of what surrounds the engine: the registry, the limiter, the fan-out, the console over them, and the hub | `Console`, `MarketHub`, `CollectionProofs` |
| `MC*` | symbols, requests, snapshots and limits for TLC | the module named |

Operators commented `Bug:` are deliberate mutations of the definition that
follows them. No specification uses them; each shows that a property would notice
a plausible mistake (`mutants` in `PROJECT.json`).

### Conventions

* Money and prices are integer ticks and quantities whole lots. Mids, and
  everything valued at a mid, count in *half* ticks (`…2` in the names).
  The model rounds the average entry down and the ghost `dust` keeps what the
  rounding lost, so no property depends on its direction. Percentages are
  compared multiplied out, never rounded.
* `0` (`NoPrice`) stands for `None` in optional prices; prices are positive.
* A position absent from `positions` is `Flat`; `AccountTypeOK` says the two are
  the same.
* Time is relative. A pending order carries an age in units of the latency and
  a snapshot its lag, so "`book.ts_ms >= submitted + latency`" is
  `age >= Latency + lag`. In the runtime a cached quote keeps the ids it may
  still fill, because a quote shown again must not fill orders submitted later.
* `on_book` is one action for its beginning, one per order it works, one for its
  end; no other action of the process is enabled in between.
* Ghost variables: `cash`, `net`, `dust`, `exits`, `closes`, `lost`, `traded`,
  `placed`, `admitted`, `promised`, `broadcasts`, `since`, and the fields
  `latched` and `owed`. They are never read by a guard of the code they accompany.

### Abstractions

* Account: leverage, margin and slippage attribution are reporting fields.
* Runtime: the slippage monitor is "any fill may be abnormal"; the autotrade
  toggle and the strategies are "a signal may come"; data ages and funding rates
  are the classes that the checks tell apart. The gate gets what the code gives
  it: a constant volatility, a week's pnl of zero, a day that starts with the
  starting balance and never rolls over. The reason of a trip, a text, is who
  tripped and why, and whether the words are in it that the monitor looks for.
  `ReleaseIsEarned` cannot tell a re-arm without an acknowledgement from an
  automatic clear of the same soft trip; `OnlyDataTripsClear` can.
  `PATCH /risk/limits` is left out: limits are a constant.
* Hub: a candle is its bar number, open times are two ticks apart and the
  millisecond of the paging cursors is one, less than a bar as in the code. The
  stream-only host is Binance's, which has no poll; the others are Bybit's. Top of book, tickers and trades are
  last-value caches and left out.
* Persistence: rows that recovery never reads are left out; realized pnl, fees
  and funding are one amount.
* Ensemble: the indicators decide who votes which way with which confidence; the
  model lets every vote happen. Stops, targets and risk are those of the code.
  The target of a reversion is the VWAP, at least 1.5 ranges away, and taken at
  that distance. All strategy weights are 1.0, their default. The filters decide from a
  reading (volatility, trend strength and direction, funding), which is arbitrary,
  as is the higher-timeframe bias.
* Backtest: the synthetic book has a fixed half spread instead of one
  proportional to the price. A unit of latency is a bar: the default latency of
  80 ms is less than any candle, so an order waits for the next one.
* Reports: times are hours and the epoch's calendar is kept; rounding and the
  order of rows are left out, and histograms are computed exactly, where the code
  divides floats.
* Console: a client of the limiter is its host. The monitor's trips are those
  for dead data. A trip's effect on orders is `TradingRuntime`'s `OnTrip`. The send
  tasks of one connection run in the order in which they were made, and heartbeats
  and confirmations are left out. A send to an integration answers or raises.

## 3. Runs

| Run | Instance | What it shows |
|---|---|---|
| `account` | 2 symbols, 2 quantities, 2 prices, a fee, funding both ways, 4 events at 3 hours | `PositionIsNetOfFills`, `BookedIsCashPlusCost`, `BalanceIsBookedPnl`, `BalanceMovesWithBooks`; of the reports `ReportsAddUp`, `HistogramCountsEachTrade`, `ReadyOnlyWithProfit` |
| `engine` | every order type and time in force, reduce-only and protected orders, 2 at a time; snapshots that stand, crash, rally and lag | `PendingAreLive`, `NoOverfill`, `FillsAreAccounted`, `NoSnapshotLeavesBreach`, `FillsHonourBookAndLimit`, and the refinement `EngineImplementsOrderLife` |
| `runtime` | manual and automatic orders, a protection, outages, volatility, losses, hard trips and soft ones by hand, with and without a word of stale data | `HardHaltHoldsOnlyExits`, `OnlyDataTripsClear` |
| `halt_flat` | three orders, two prices, slippage, funding and hard trips, fairness | a hard halt ends flat (`HaltEndsFlat`) |
| `hub` | stream, poll or both; 5 bars, pages of 2, history of 3 | `CloseFiresOnce`, `SeriesAscending`, `GapsGetFilled`, `BackfillAnswersGaps` |
| `persistence` | partial fills and flips, a trailing stop, queue of 4, batches of 2, one restart | `CaughtUpMirrors`, `DurableEndIsFinal` |
| `writes_drain` | an entry and an exit, queue of 4, batches of 2, fairness | `OrderEndsAreWritten` |
| `console` | 1 host and 1 tab, a limit of 2 in a window of 2, 2 integrations, 2 alerts, a feed of 1, 3 events, fairness | `AdmissionsAreSpaced`, `RetryAfterIsEnough`, `FanOutExact`, `HardTripIsLatched`, `ReleaseIsEarned`, `EveryRouteAnswers` |
| `backtest` | 2 folds of 10 bars, 2 closes, 2 strategies, 4 readings | `NoFillOnSignalBar`, `ExitsOnlyReduce`, `NeverPyramids`, `StopsBracketEntries`, `BarTradedByOneFold`, `ReportExplainsBalance`, `DrawdownIsDeepestFall` |
| `hard_halt` | expected violation | see section 6 |
| `trip_needs_person` | expected violation | see section 6 |
| `restart_overfill` | expected violation | see section 6 |

The account, the engine and the runtime also check their type invariants.

### Bounds and why they suffice

* **Account:** four events are the least that open, add, reduce and then flip or
  close; two quantities and their sums make every comparison of fill and position
  happen; two symbols are what "nothing else moves" needs. The three hours are
  chosen so that two share an hour of the day on different days and two a weekday
  in different weeks. The thresholds of the readiness score are scaled down to the
  two trades that four events can close; its percentages are the code's.
* **Engine:** two orders are enough for one to change the position under another,
  and for a protection and an exit to meet; each type appears with the snapshots
  on which it fills, triggers, rests, is rejected and is filled in part. `MaxLag`
  1 lets an order be too young for a late stamp.
* **Runtime:** limits are wide, so that a position of two lots may be opened at
  all, and a crash of three ticks on it reaches the daily loss. `MaxOrders`
  counts an entry and one flattening order; three where a second entry is needed.
* **Hub:** a history of three and a poll of three bars make trimming, gaps in the
  middle and out-of-order merges happen within five bars. A gap is up to three bars
  and is asked for with the bar after it, so that its answer takes one page, a full
  one and a half-empty one, or two full ones.
* **Persistence:** a fill makes three jobs and a flip four, so a queue of four holds
  the jobs of any one call: with room, filled orders and flips are mirrored and
  written, and a job or two still in the queue make the next fill overflow it. A
  batch of two splits the jobs of a fill over two transactions.
* **Backtest:** an entry, the bar it waits, a flip, the bar the exit waits and
  the bar after are five bars, the length of the second fold. Ten bars are not
  divided evenly by two folds after a warm-up of one. Prices move by twice the
  distance of the near stop and past the near target. `MaxOrders` is at least one
  per bar, so it never binds. The four readings are a trend, a range, a
  volatile market and one that the volatility filter vetoes; a backtest has no funding.
* **Console:** three admissions are one more than the limit, and the clock runs for
  one window. Two alerts push each other out of a feed of one while both are being
  delivered, to none, one or two integrations. Three broadcasts are two of one trip
  and one more, before or after the tab has subscribed. One switch, as the scopes do
  not interact; `ConsoleKeepsLatches` is about any number.

Deadlock is checked except in `MCAccountReports.cfg`, where behaviours end at the
bound on events, `MCBacktest.cfg`, where a fold ends with its last bar, and
`MCConsole.cfg`, where clock, alerts and broadcasts run out.

### Fairness

* `TradingRuntime!LiveSpec`: weak fairness of the work of a handler (synchronous
  code runs to its end), strong fairness of passing time and of each book: time
  and the exchange's stream do not wait for the calm in between handlers, and
  the claim is about a market that goes on. A market that stops is no
  counterexample to "a halt ends flat".
* `MarketHub!HubLiveSpec`: weak fairness of the reconciler, a periodic task.
* `PersistentEngine!PersistentLiveSpec`: strong fairness of the worker, weak of
  a running `on_book`. asyncio runs a ready task before it returns to the others;
  the worker is ready between any two snapshots.
* `Console!ConsoleSpec`: weak fairness of each alert's delivery: its task is made by
  `create_task`, the loop runs what is ready, and the HTTP client of each send
  gives up after ten seconds (`registry.py:64-103`).

## 4. Refinement

`OrderLife` says what a client may rely on who knows nothing of books, prices and
latency: an order arrives once, trades while it works and never more than it has
left, and ends once, as filled, cancelled or rejected. It is filled exactly by the
trade that leaves nothing, it is rejected only without a trade, and its end is
never revised. `PaperEngine` instantiates it with the orders in `_pending`, each
with what it has traded and what it has left (`Order.remaining`), as the working
ones, and with status and filled quantity of the ended ones (`Life`).
`EngineImplementsOrderLife` is `Life!LifeSpec`: a submission, a fill, a flattening
that cancels several orders and submits its exits, and every rejection is a step of
it, and so is whatever else the engine does to its orders. TLC checks it in the
`engine` run; `EngineRefinesOrderLife` proves it for every instance, and
`RuntimeRefinesOrderLife` and `BacktestRefinesOrderLife` prove that the runtime and
the backtest, which drive the same engine, implement it too.

The engine changes the account through the account's own operators only, so that
it implements `AccountSpec` says nothing more and is not claimed. What the account
promises under the engine is proved instead: `EngineKeepsAccount`,
`EngineConserves` and `EngineBalanceIsBooked`.

`Console` implements the limiter and the registry with the identity as its mapping:
`StepOfLimiter` and `StepOfRegistry` say that each of its steps is a step of theirs
or leaves them alone.

## 5. Proofs

| Theorem | Module | For every |
|---|---|---|
| `AccountInvariant`, `AccountTypeCorrect`, `QuantityIdentity`, `StakeBound`, `CashIdentity`, `Conservation`, `BalanceIdentity` | `PaperAccountProofs` | finite set of symbols, fills, funding payments and number of events |
| `EngineInvariant`, `EngineTypeCorrect`, `LiveOrdersWork`, `OrdersNeverOverfill`, `EngineKeepsAccount`, `EngineConserves`, `EngineBalanceIsBooked`, `FillsAreBooked`, `ProtectionsHold`, `EngineRefinesOrderLife` | `PaperEngineProofs` | set of symbols, requests, books, latency, number of orders, slippage model and fee |
| `FillsArePriced` | `PaperEngineProofs` | the same, with sensible fees (below) |
| `RuntimeInvariant`, `RuntimeTypeCorrect`, `HaltHoldsOnlyExits`, `OnlyDataClears`, `RuntimeBalanceIsBooked`, `RuntimeFillsAreBooked`, `RuntimeRefinesOrderLife`, `RuntimeProtectionsHold`, `RuntimeFillsArePriced` (sensible fees) | `TradingRuntimeProofs` | the same, and signals, limits, trips and outages |
| `FoldsShareNoBar` | `BacktestProofs` | history, warm-up, number and length of folds |
| `EntriesAreBracketed`, `BacktestInvariant`, `TradesComeLater`, `ExitsFindTheirPosition`, `EntriesNeverAdd`, `BacktestBalanceIsBooked`, `BacktestFillsAreBooked`, `BacktestRefinesOrderLife`, `BacktestProtectionsHold`, `BookInvariant`, `ReportExplains`, `DrawdownIsDeepest` | `BacktestProofs` | the same, and closes, votes, readings, biases, limits and fills |
| `ReportsInvariant`, `ReportsAreWhole`, `HistogramsAreExact`, `ReadyMeansProfit`, `ReportedBalanceIsBooked` | `ReportsProofs` | the account's, and clocks, thresholds and numbers of bins |
| `KillInvariant`, `KillTypeCorrect`, `HardLatch`, `ReleaseNeedsAPerson` | `BoundaryProofs` | set of scopes and causes |
| `RowsFollowOrders`, `DurableEndsAreFinal`, `TablesMirrorEngine`, `CaughtUpIsMirrored` | `PersistenceProofs` | engine, queue and batch size, and number of restarts |
| `LimitInEveryWindow`, `HeaderIsEnough` | `BoundaryProofs` | set of hosts, limit, window and clock |
| `ConsoleIsLimited`, `ConsoleKeepsLatches`, `ConsolePromisesHold`, `FanOutIsExact` | `BoundaryProofs` | instance of the console: clients, channels, subscriptions, broadcasts |
| `HubInvariant`, `BarsCloseOnce`, `StreamedSeriesIsAscending`, `AnswersAreTheGaps` | `BoundaryProofs` | number of bars, page, history and poll |

### Assumptions

The theorems assume the named `ASSUME`s of the modules, which TLC evaluates in every
run: the symbols are finitely many; fills have positive quantities and natural
prices and fees; orders arrive new; both sides of a book have a positive price; a
history is as long as `walk_forward` demands. A backtest trades at least one symbol
with the default latency, 80 ms (`models.py:147`), which is one unit of a bar; half
its spread is less than the price, and so are three and a half ranges, the distance
of the farthest target: the volatility filter refuses ranges above a twentieth of
the price. The range is positive, as no strategy votes on an empty one.

`SensibleFees`, an assumption of the two theorems about prices alone, says that a
maker pays no more than a taker and a taker no more than the trade is worth. The
defaults are 2 and 5.5 basis points (`models.py:143-144`); nothing in the code
enforces it, and with other fees a sale could cost money.

### The inductive invariants

*Account.* Types, the quantity identity, the stake bound and the cash identity
together (`AccountInv`): the cash identity multiplies quantities and averages, so
its steps need the types, and the closing path needs that an absent position is
`Flat`. `UpdateOfOneSymbol` reduces each step to the symbol of the fill; then one
lemma per path (`OpenPreserves`, `AddPreserves`, `ReducePreserves`,
`ClosePreserves`, `FundingPreserves`). The add step needs that the division is an
integer; what it rounds away goes into `dust`. Conservation is an action property
read off the same case lemmas; `BalanceIdentity` adds up what it says of one symbol.

*Sums.* `MapThenSumSet` folds a set by taking out an element that `CHOOSE` names, so
nothing about it can be read off without an induction over the set, and the library
states its inductions with operators as parameters. `CollectionProofs` argues instead by a
smallest counterexample among the subsets of the set, with functions where the
library has operators: the sum does not depend on the element taken out
(`SumWithout`), is that of what agrees with it, and moves by what one of its terms
moves. `BalanceIdentity`, `FillsAreBooked`, the scores of the ensemble and every report
rest on it. The same argument over numbers gives what a loop over a list computes
(`Looped`) and that a finite set of numbers put in order is ascending and holds each
once (`InOrder`), which is how the models filter and sort.

*Engine.* `EngineInv` is the account's invariant, the queue (`QueueInv`: an order is
pending exactly while it is not terminal, no fill exceeds its quantity, filled means
all of it, and a post-only order that has traded is done), the ages, the
protections, and the call of `on_book` in progress (`TickInv`: what it has yet to
work is pending and of its symbol, and it has a book). `NoOverfill` alone is not
inductive: a limit order fills up to what *remains*, which exceeds the quantity
unless it was working, and what `on_book` listed at its beginning must still be
working when its turn comes. `TryFillWorks` says of the simulator what each path of
`try_fill` may hand back; `WorkOrderShape`, `EndTickShape` and `ArrivalShape` turn
the three ways in which the engine changes into those terms.

*Any driver of the engine.* `EngineEffect` lists what a step may do to the engine:
orders arrive and make others leave, one is worked, a call of `on_book` ends, or
nothing happens to orders and account. Everything about fills, balances,
protections, prices and lives of orders is proved of such a step from `EngineInv`
(`EffectKeepsBalance`, `EffectAccounted`, `EffectIsLife`, `EffectLeavesNoBreach`,
`EffectIsPriced`); `EngineStepEffect`, `RuntimeStepEffect` and `BacktestStep` then
show that the engine alone, the runtime and the backtest take no other steps.

*Runtime.* `RuntimeInv` adds to `EngineInv` the switches' own invariant, the cached
quotes (`QuotesOK`: a quote is of its symbol, and what it may still fill are orders
of that symbol), the tasks of the handler in progress (`HandlerOK`: the orders it has
yet to submit are new), the types of the gates, and `HardHaltHoldsOnlyExits`, which
needs that a hard trip flattens in its own step and that the gates of
`place_order` refuse whatever a handler has left to submit after it. That only soft
trips that speak of data clear themselves comes from `SwitchMoves`, which says of
every step what it may do to one switch, and from the guard of the one step that
clears.

*Backtest.* `BacktestInv` adds the loop. `DecisionInv`: the bar that is decided has a
synthetic book, and the signal acted on brackets its close, which rests on the vote
alone: a side that wins has been voted for, its most confident vote exists, and the
suggestion of each strategy lies on its own side. `LoopInv`: every order knows its
bar and has waited no longer than the bars since (`PlacedInv`), the snapshot works
what is a bar old and nothing younger (`AgesInv`), at most one market order is on its
way (`SingleInv`), it is the exit of the whole position or the entry of one that is
not there (`FitInv`), and where the loop stands says what may wait (`PhaseInv`).
`ExitsOnlyReduce` needs `InsideInv` besides: the bar on which an exit is sent is
shown to the engine again, and would exit the position a second time by its stop if
the first showing had not left it inside its protections; so the exit still fits
when the next bar works it, before the protections see that bar. `TradesComeLater`
is `PlacedInv` with `AgesInv`. TLC checked every part of `LoopInv` on the instance of
the `backtest` run before it was proved.

*Persistence.* `DurableEndIsFinal` says nothing of the transaction that is being
built, of the jobs that wait or of the orders that work. `DurableInv` says of each:
a row that tells of an end agrees with the order, in the tables and in the open
transaction (`Follows`); the transaction keeps the ends that the tables tell of
(`Builds`), since the worker writes what an order is when the job is reached and an
order that has ended does not change; a job is of an order that exists (`Known`),
and the queue stays within its size; and what is pending has a restorable status
(`WorksInv`). `EngineInv` does not survive a restart, which forgets what an order
has filled and drops the orders that no row tells of, so nothing is taken from it:
`WorksInv` is proved anew of every step of the engine, from what an order still is
after a restart (`Shaped`). TLC checked `DurableInv` on the instance of the
`persistence` run before it was proved.

`CaughtUpMirrors` speaks of one moment only, when the worker has nothing left to do,
so an invariant has to say what is true while it is behind. `MirrorInv` reads the
tables and the jobs that wait, the batch first and then the queue, as one: of every
order, every position and the balance, either the row is right already and no job
that waits would spoil it, or the job that will make it right waits, with none after
it that would spoil that (`OrderMirrored`, `HeldMirrored`, `PastMirrored`,
`Untouched`, `BalanceMirrored`). A job of an order or a position carries the object
and not a copy, so what it writes is right when it is reached, whatever happened
since it was sent; the balance is copied, so there the last job decides. `HeldInv`
says that the object which the engine holds is its position. The invariant is
promised until a write is lost, which includes a restart before the worker has
caught up; a restart that finds it idle starts again from what the tables say. Of
the engine's own invariant `SoundInv` and `EndedInv` are the part that survives it.
A trailing stop is not restored (`repository.py:135`) although its row keeps a
status that would be: `CaughtUpMirrors` leaves it out by its type, and the
`persistence` run has one.
TLC checked `MirrorInv` with trailing stops and two restarts before it was proved.

*Kill switches.* `GoodSwitch` says of one switch what the invariant says of all;
each call makes a good switch of a good one, and changes one switch.

*Limiter.* `AdmissionsAreSpaced` compares admissions that the code has forgotten,
so it is not inductive. `LimiterInv` adds that the deque of a host is the end of
its history (`EndOf`) and that what precedes it lies at or before the cutoff:
trimming keeps that (`TrimKeepsEnd`), appending keeps it (`AppendKeepsEnd`), and
admitting to a deque shorter than the limit then puts the new admission a window
after the one `Limit` places before it. `HeaderIsEnough` adds `RetryInv`, that the
admissions of a host are in the order of time and not in the future: then the oldest
of a full deque decides when there is room (`OldestDecides`), and the header goes on
to the next whole second, a full one too many when the wait is whole already
(`HeaderRoundsUp`).

*Console.* The console's specification implies those of its parts
(`StepOfLimiter`, `StepOfRegistry`), so what is proved of them holds of it without
looking at the other parts.

*Fan-out.* What is due to a client is the events of its channels at the places of the
log that lie after its subscription. A broadcast lengthens the log, so the new places
come after the old ones (`InOrder` of the union is the two one after the other), and
adds to what is on its way the events that the connection receives. `WsInv` adds to
`FanOutExact` that a connection follows exactly what it has subscribed to, with the
length of the log at that moment, and that one which is new has nothing: that is what
makes the events received those that are due.

*Hub.* `CloseFiresOnce` and `SeriesAscending` compare what has been stored and closed;
that they hold depends on what is still to come. `HubInv` says that the messages on
the wire are in the order of time, that nothing follows a bar's last message but later
bars (`WireInOrder`), and the same of a poll's answer; and that, for a host with only a
stream, what has been stored or closed, or is in a backfill, is not after what comes
(`StreamInv`), and for one with only polls, that `lastFinal` bounds what has been
closed (`PollInv`). `BackfillAnswersGaps` is about the paging: the pages, backwards or
forwards, put together and filtered, are the absent bars, each once and in order,
because each page ends where the next begins.

*Report of a backtest.* `BookInv`: the trades of the report add up to what the account
has booked as closed for the traded symbol, and the other symbols are flat with
nothing booked. `BalanceIsBookedPnl` then is the balance that the report must explain.
`DrawdownIsDeepestFall` needs no state but that the trades are numbers: the loop with
the highest value so far, started anywhere, returns the largest fall between a value
and a later one.

*Reports of an account.* `ListInv` is the same of every symbol: the pnls of the trades of a
symbol add up to what the account has booked. The groups, calendars and bins are
partitions of the list (`SumOver` a union of disjoint sets), so what is reported adds up
to the balance. A score of at least the bar for "ready" requires the points given to
profit.

*Folds.* `WithinFold` (the bar is before the end of the fold, and a bar on which
anything is decided is not before its start) is inductive over every action of
the backtest. `FoldsDisjoint` and `FoldBounds` are the arithmetic: `i < j` gives
`FoldEnd(i) <= FoldStart(j)`, and consecutive folds touch.

### Only model-checked

* Liveness: `HaltEndsFlat`, `GapsGetFilled`, `OrderEndsAreWritten`,
  `EveryRouteAnswers`. The prover does not handle fairness.

## 6. Where the code and what is said of it differ

Found by runs:

* `hard_halt` — `flatten_all` (`engine.py:114-123`) submits a market order and
  leaves the stop of the position armed. If the stop fires before the latency of
  the order has run out, the order opens the opposite position although
  `killswitch.py:5` promises that a hard switch "blocks everything except
  explicit flatten". The cause is `engine.py:60`: reduce-only is
  checked on submission only.
* `trip_needs_person` — a second soft trip leaves the first reason in place
  (`killswitch.py:68`); tripped for dead data first and for slippage second, the
  switch clears itself when data return, against `runtime.py:375`.
* `restart_overfill` — the orders table has no filled quantity, so a partly
  filled order fills its whole quantity again after a restart
  (`repository.py:137`).

Reached by the models, described here and asserted by no run:

* `runtime.py:375` says that "only data-caused soft trips clear", but the test is
  for the words `stale` or `no data` in the reason (`runtime.py:380`), which
  `POST /killswitch/trip` takes as it comes (`schemas/api.py:30`). A person's soft
  trip of a symbol whose reason has them is cleared by the monitor as soon as the
  data are fresh. `TripByHand` has such reasons (`manual_stale`), the `runtime` run
  trips with them, and `OnlyDataTripsClear` claims of clearing no more than the
  code does: a soft trip, of a symbol, with such a reason, on fresh data.
* Autotrade plans against the position, not the entries on their way
  (`autotrade.py:52-53`): two signals before the first fill make two entries.
* A soft trip leaves working entries in place (`runtime.py:260`).
* `place_order` shows the cached quote again (`runtime.py:328-329`), so the size
  it displays is available again to older orders.
* A stop-limit that triggers and rests is stored as accepted and forgets that it
  was triggered (`fills.py:98,117-122`).
* A poll confirms bars that the stream has closed already (`hub.py:123,128-135`);
  `CloseFiresOnce` therefore speaks of one channel. A poll that brings several
  bars appends older ones at the end (`hub.py:175`); `SeriesAscending` speaks of
  the stream and the reconciler. An answer that arrives late is stored although
  the stream is back (`hub.py:90,94`).
* A candle that was forming when the connection dropped is never completed:
  `find_gaps` looks for absent bars only (`reconciler.py:28`).
* When the request for one gap fails, the rows of the gaps before it are dropped
  with it and asked for again five minutes later (`reconciler.py:54-56`).
* A delta's first level is taken for the best one, even when its size is zero
  (`hub.py:160`); not modelled.
* Rows are written from live objects: the row of an open position may hold a
  quantity of zero if the position closes before the worker is there
  (`repository.py:76`). `recover` treats it as no position in effect.
* Trailing stops are not restored (`repository.py:123-136`), the protection
  endpoint records nothing (`routes.py:170-180`), the initial quantity is not a
  column (`repository.py:108`). Kill switches, peak equity and the loss streak
  live in memory: a restart re-arms.
* The fold configuration shares one `BacktestConfig` when the caller gives one
  (`walkforward.py:68-69`); folds run one after the other, so nothing is lost.
* An alert that a venue answers with an HTTP error is recorded as delivered: no
  send looks at the status (`registry.py:70-75`, `notifications.py:55`).
* The heartbeat of `ws.py:54-61` is sent after 15 seconds without a message *of the
  client*; `docs/04:111` promises one every 15 seconds.
* A record without a loss has no profit factor and is never more than
  "watchlist" (`money.py:149-152`). `max_drawdown_pct` is the percentage of the
  deepest fall in money, which need not be the worst percentage
  (`metrics.py:49-51`). A confirmation by a backtest is never taken back
  (`routes.py:239`, `265`). A histogram of no bins divides by zero (`metrics.py:235`).
* `audit.py:3` says that every mutating action leaves a trace; cancelling, closing,
  protecting, acknowledging an alert and toggling a strategy leave none.
* A backtest runs inside its request handler and holds the event loop until it is
  done (`routes.py:235`).

## 7. Not modelled

* Parsing of exchange messages, backoff delays, the replay walk: I/O and data.
* Indicators and the bias of the higher timeframe: numeric functions of candles
  without state; the model ranges over their results.
* Ratios of the report, the scatter of confidences, the comparison with a backtest,
  diagnostics, bootstrap, export: arithmetic and layout without state.
* Authentication, sessions, schema, configuration, request shapes, metrics text,
  execution adapters (the runtime does not call them), frontend pages.
* Heartbeats and confirmations of the WebSocket endpoint, the audit list, the
  payloads and the test calls of integrations: nothing reads them back.
* `PATCH /risk/limits`, strategy toggles: the limits are constants of the runtime.

## 8. Plan

Done, in this order: account, fills, engine; switches; limits; runtime; hub;
persistence; ensemble, folds, metrics and backtest; proofs of account, switches
and folds; limiter with its proof, fan-out, alerts and their composition in the
console; paging; the filters of the ensemble; the reports of the account;
`OrderLife` and its refinement.

Proofs of the limiter's header, of the engine (types, queue, balance, protections,
prices, the refinement of `OrderLife`), of the runtime and of the backtest over it;
of durable ends across restarts, and of the tables as a mirror of the engine.

Then the reports of a backtest and of an account, the hub and the fan-out, whose
recursive helpers were restated with sums, loops and sets in order so that they can be
proved about.

Next theorems: that `Allowed` bounds exposure after the fill, and that `CappedSize`
never exceeds the cap by more than half a lot.

Next modules: a restart of the whole runtime (`TradingRuntime` over
`PersistentEngine`: what a halt leaves after a crash); the top of the book from
snapshots and deltas; the sequence of folds with its report.
