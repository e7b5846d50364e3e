--------------------------- MODULE TradingRuntime ---------------------------
(***************************************************************************)
(* The runtime that wires the market-data hub, the order gateway, the      *)
(* paper engine, autotrading, the kill switches and the quality monitor.   *)
(* Source: backend/app/runtime.py, services/autotrade.py and the order,    *)
(* position and kill-switch endpoints of api/routes.py.                    *)
(*                                                                         *)
(* Every handler runs without an await, so handlers do not interleave; the *)
(* engine's on_book, which a handler may call several times, is stepped    *)
(* order by order, and handler says what the running handler has yet to    *)
(* do.  A quote keeps the ids of the orders it may still fill: those whose *)
(* latency had run out when it was stamped.  An order submitted later      *)
(* never qualifies, however often the cached quote is shown to the engine. *)
(***************************************************************************)
EXTENDS PaperEngine, KillSwitch, RiskLimits

CONSTANTS Signals,     \* what the ensemble may emit on a closed candle
          Detectors,   \* bound: the causes of trips a run looks at
          ManualTrips  \* the <<scope, level, reason>> of the trips people ask for

ASSUME RuntimeAssumption ==
  /\ Latency > 0 /\ StartingBalance > 0
  /\ {"global", "strategy"} \union Symbols \subseteq Scopes
  /\ {"global", "strategy"} \intersect Symbols = {}
  /\ {"stale", "volatility", "funding", "slippage", "loss"} \union ManualReasons \subseteq Causes
  /\ Detectors \subseteq Causes
  /\ ManualTrips \subseteq Scopes \X Levels \X ManualReasons
  /\ Signals \subseteq [symbol : Symbols, side : Sides, stop : Nat, target : Nat,
                       riskBps : Nat]

VARIABLES quotes,   \* hub.books, with what each may still fill
          age,      \* the class of hub.data_age_s of each symbol
          funding,  \* the class of each symbol's funding rate
          handler,  \* the rest of the handler in progress
          peak2,    \* peak_equity
          streak,   \* consecutive_losses and the cooldown after the last
          owed      \* ghost: scopes tripped for other than data since a re-arm

gateVars == <<quotes, age, funding, handler, peak2, streak>>
runtimeVars == <<engineVars, switches, gateVars, owed>>

NoQuote == [book |-> NoBook, reach |-> {}]
Idle == [live |-> FALSE, next |-> << >>]
Quoted(s) == quotes[s].book # NoBook

\* The scopes whose switches stop the orders of a symbol.
ScopesOf(s) == {"global", s}

-----------------------------------------------------------------------------
\* Valuation, in half ticks

Unrealized2(s) ==
  IF Quoted(s) THEN Sign(positions[s].side) * positions[s].qty
                      * (Mid2(quotes[s].book) - 2 * positions[s].avg)
               ELSE 0
Equity2 == 2 * balance + MapThenSumSet(Unrealized2, Symbols)
Exposure2(s) ==
  positions[s].qty * (IF Quoted(s) THEN Mid2(quotes[s].book) ELSE 2 * positions[s].avg)

Reference2(order) ==
  CASE Quoted(order.symbol) -> Mid2(quotes[order.symbol].book)
    [] ~Quoted(order.symbol) /\ order.price # NoPrice -> 2 * order.price
    [] OTHER -> 2

AccountState(s) ==
  [equity2 |-> Equity2, peak2 |-> peak2, dayPnl2 |-> Equity2 - 2 * StartingBalance,
   openPositions |-> Cardinality(OpenSymbols),
   symbol2 |-> 2 * positions[s].qty * positions[s].avg,
   total2 |-> MapThenSumSet(Exposure2, Symbols),
   losses |-> streak.losses, cooling |-> streak.cooling]
MarketState(s) == [age |-> age[s], funding |-> funding[s], book |-> quotes[s].book]

-----------------------------------------------------------------------------
\* place_order: the kill-switch gate, the risk gate, the engine, and then the
\* cached quote of the symbol is shown to the engine once more.

Manual(order) == [order |-> order, leverage |-> 1, strategies |-> {}]
Automatic(order) == [order |-> order, leverage |-> 3, strategies |-> {"strategy"}]
Exit(s, source) ==
  [order |-> ExitOrder(s, source), leverage |-> 1, strategies |-> {}]

Intent(task) ==
  [qty |-> task.order.qty, price2 |-> Reference2(task.order),
   stop2 |-> 2 * task.order.trigger, leverage |-> task.leverage,
   reduceOnly |-> task.order.reduceOnly]

\* Bug: the global switch is not asked.
SwitchOfSymbolPasses(task) ==
  IF task.order.reduceOnly THEN ~ExitsBlocked({task.order.symbol})
                           ELSE ~EntriesBlocked({task.order.symbol} \union task.strategies)
SwitchesPass(task) ==
  LET s == task.order.symbol
  IN IF task.order.reduceOnly THEN ~ExitsBlocked(ScopesOf(s))
                              ELSE ~EntriesBlocked(ScopesOf(s) \union task.strategies)
Passes(task) ==
  /\ SwitchesPass(task)
  /\ Allowed(Intent(task), AccountState(task.order.symbol), MarketState(task.order.symbol))

Place(task) ==
  LET quote == quotes[task.order.symbol]
  IN IF Passes(task)
     THEN /\ Submit(task.order)
          /\ tick' = IF quote.book = NoBook THEN Quiet
                     ELSE [running |-> TRUE, book |-> quote.book,
                           todo |-> quote.reach \intersect DOMAIN pending']
     ELSE UNCHANGED engineVars

\* Nothing else happens while a handler has work left.
AtRest == ~tick.running /\ handler = Idle

CreateOrder(order) ==
  /\ AtRest
  /\ Place(Manual(order))
  /\ UNCHANGED <<switches, gateVars, owed>>

ClosePositionOf(s) ==
  /\ AtRest /\ IsOpen(positions[s])
  /\ Place(Exit(s, "manual"))
  /\ UNCHANGED <<switches, gateVars, owed>>

CancelOrder(id) ==
  /\ AtRest /\ Cancel(id)
  /\ UNCHANGED <<tick, switches, gateVars, owed>>

ProtectPosition(s, stop, target) ==
  /\ AtRest /\ Protect(s, stop, target)
  /\ UNCHANGED <<tick, switches, gateVars, owed>>

-----------------------------------------------------------------------------
\* _run_autotrade on a closed candle, which is market data like any other

EntryOf(signal) ==
  [BlankOrder(signal.symbol, signal.side, "market",
              CappedSize(Equity2, Mid2(quotes[signal.symbol].book), 2 * signal.stop,
                         signal.riskBps))
   EXCEPT !.trigger = signal.stop, !.stopLoss = signal.stop,
          !.takeProfit = signal.target, !.source = "signal"]

\* An opposing position is closed first; the entry does not wait for that.
PlanOf(signal) ==
  LET close == Exit(signal.symbol, "signal")
      entry == Automatic(EntryOf(signal))
  IN IF IsOpen(positions[signal.symbol]) THEN <<close, entry>> ELSE <<entry>>

Autotrade(signal) ==
  LET s == signal.symbol
      aligned == IsOpen(positions[s]) /\ positions[s].side = signal.side
      acts == Quoted(s) /\ ~aligned /\ EntryOf(signal).qty > 0
  IN /\ AtRest
     /\ acts => Len(orders) + 2 <= MaxOrders
     /\ age' = [age EXCEPT ![s] = "fresh"]
     /\ handler' = IF acts THEN [Idle EXCEPT !.next = PlanOf(signal)] ELSE Idle
     /\ UNCHANGED <<engineVars, switches, quotes, funding, peak2, streak, owed>>

PlaceNext ==
  /\ ~tick.running /\ handler.next # << >>
  /\ Place(Head(handler.next))
  /\ handler' = [handler EXCEPT !.next = Tail(@)]
  /\ UNCHANGED <<switches, quotes, age, funding, peak2, streak, owed>>

-----------------------------------------------------------------------------
\* Kill switches

\* on_trip: a hard trip of the global switch flattens.
\* Bug: it only cancels the working orders.
CancelsOnly(scope, level) ==
  IF scope = "global" /\ level = "hard" /\ TripTakesEffect(switches[scope], level)
  THEN /\ orders' = Cancelled(PendingIds) /\ pending' = << >>
       /\ UNCHANGED <<accountVars, protect, exits, tick>>
  ELSE UNCHANGED engineVars
OnTrip(scope, level) ==
  IF scope = "global" /\ level = "hard" /\ TripTakesEffect(switches[scope], level)
  THEN FlattenAll /\ UNCHANGED tick
  ELSE UNCHANGED engineVars

\* The reason is the text of the request.
TripByHand(scope, level, reason) ==
  /\ AtRest
  /\ Trip(scope, level, reason)
  /\ OnTrip(scope, level)
  /\ owed' = owed \union {scope}
  /\ UNCHANGED gateVars

AcknowledgeTrip(scope) ==
  /\ AtRest /\ Acknowledge(scope)
  /\ UNCHANGED <<engineVars, gateVars, owed>>

RearmSwitch(scope) ==
  /\ AtRest /\ Rearm(scope)
  /\ owed' = owed \ {scope}
  /\ UNCHANGED <<engineVars, gateVars>>

\* One pass of _quality_monitor.  Each symbol: its data are dead, or they are
\* fresh again and a trip whose reason speaks of dead data is cleared, whoever
\* wrote it; then volatility; then funding.
\* Bug: any soft trip clears when the data are fresh.
AnyCauseRecovers(switch) == Clearable(switch)
Recovers(switch) == Clearable(switch) /\ switch.cause \in MentionsData

AfterData(s) ==
  CASE age[s] = "dead" -> Tripped(switches[s], "soft", "stale")
    [] age[s] = "fresh" /\ Recovers(switches[s]) -> Cleared(switches[s])
    [] OTHER -> switches[s]
AfterVolatility(s, volatile) ==
  IF s \in volatile THEN Tripped(AfterData(s), "soft", "volatility") ELSE AfterData(s)
AfterChecks(s, volatile) ==
  IF funding[s] = "spiking" THEN Tripped(AfterVolatility(s, volatile), "soft", "funding")
                            ELSE AfterVolatility(s, volatile)

Lossy ==
  \/ peak2 > 0 /\ Reaches(peak2 - Equity2, peak2, Limits.drawdown)
  \/ Reaches(2 * StartingBalance - Equity2, 2 * StartingBalance, Limits.dailyLoss)

MonitorPass(volatile) ==
  /\ AtRest
  /\ switches' = [scope \in Scopes |->
                    CASE scope \in Symbols -> AfterChecks(scope, volatile)
                      [] scope = "global" /\ Lossy -> Tripped(switches[scope], "hard", "loss")
                      [] OTHER -> switches[scope]]
  /\ IF Lossy THEN OnTrip("global", "hard") ELSE UNCHANGED engineVars
  /\ owed' = owed \union volatile \union {s \in Symbols : funding[s] = "spiking"}
                  \union (IF Lossy THEN {"global"} ELSE {})
  /\ UNCHANGED gateVars

-----------------------------------------------------------------------------
\* The market

\* A book event: the hub caches it and shows it to the engine.
BookArrives(book) ==
  LET s == book.symbol
  IN /\ AtRest
     /\ quotes' = [quotes EXCEPT ![s] = [book |-> book,
                                         reach |-> Eligible(pending, orders, book)]]
     /\ age' = [age EXCEPT ![s] = "fresh"]
     /\ handler' = [handler EXCEPT !.live = TRUE]
     /\ OnBook(book)
     /\ UNCHANGED <<switches, funding, peak2, streak, owed>>

\* A ticker: any event makes the symbol's data fresh, whatever its channel.
TickerArrives(s, class) ==
  /\ AtRest
  /\ funding' = [funding EXCEPT ![s] = class]
  /\ age' = [age EXCEPT ![s] = "fresh"]
  /\ UNCHANGED <<engineVars, switches, quotes, handler, peak2, streak, owed>>

\* Nothing arrives for the symbol, until the next threshold is passed.
OlderClass == [fresh |-> "lagging", lagging |-> "blocked", blocked |-> "dead", dead |-> "dead"]
Silence(s) ==
  /\ AtRest /\ age[s] # "dead"
  /\ age' = [age EXCEPT ![s] = OlderClass[@]]
  /\ UNCHANGED <<engineVars, switches, quotes, funding, handler, peak2, streak, owed>>

\* _on_fill: the outcome of a closed trade, and a fill of abnormal slippage.
ClosedTradeOf(s) ==
  IsOpen(positions[s]) /\ (~IsOpen(positions'[s]) \/ positions'[s].side # positions[s].side)
\* Bug: a trade without a loss takes one loss back.
GainOffsetsLoss(s) ==
  IF ~ClosedTradeOf(s) THEN streak
  ELSE IF closed'[s] < closed[s] THEN [losses |-> streak.losses + 1, cooling |-> TRUE]
  ELSE [streak EXCEPT !.losses = @ - 1]
Outcome(s) ==
  IF ~ClosedTradeOf(s) THEN streak
  ELSE IF closed'[s] < closed[s] THEN [losses |-> streak.losses + 1, cooling |-> TRUE]
  ELSE [streak EXCEPT !.losses = 0]

OnFill(s) ==
  /\ streak' = Outcome(s)
  /\ \/ UNCHANGED <<switches, owed>>
     \/ /\ "slippage" \in Detectors /\ events' # events
        /\ Trip(s, "soft", "slippage")
        /\ owed' = owed \union {s}

WorkQuote ==
  LET s == tick.book.symbol
  IN /\ WorkOrder
     /\ OnFill(s)
     /\ UNCHANGED <<quotes, age, funding, handler, peak2>>

\* Only a book of the market, not one shown again, updates the peak equity.
LeaveQuote ==
  LET s == tick.book.symbol
  IN /\ EndTick
     /\ OnFill(s)
     /\ UNCHANGED <<quotes, age, funding>>
     /\ handler' = [handler EXCEPT !.live = FALSE]
     /\ peak2' = IF handler.live /\ Equity2' > peak2 THEN Equity2' ELSE peak2

Time ==
  /\ AtRest /\ Elapse
  /\ UNCHANGED <<tick, switches, gateVars, owed>>

CoolDown ==
  /\ AtRest /\ streak.cooling
  /\ streak' = [streak EXCEPT !.cooling = FALSE]
  /\ UNCHANGED <<engineVars, switches, quotes, age, funding, handler, peak2, owed>>

-----------------------------------------------------------------------------
RuntimeInit ==
  /\ EngineInit
  /\ KillInit
  /\ quotes = [s \in Symbols |-> NoQuote]
  /\ age = [s \in Symbols |-> "dead"]
  /\ funding = [s \in Symbols |-> "calm"]
  /\ handler = Idle
  /\ peak2 = 2 * StartingBalance
  /\ streak = [losses |-> 0, cooling |-> FALSE]
  /\ owed = {}

Clients ==
  \/ \E order \in Requests : CreateOrder(order)
  \/ \E s \in Symbols : ClosePositionOf(s)
  \/ \E id \in PendingIds : CancelOrder(id)
  \/ \E s \in Symbols, stop, target \in ProtectPrices \union {NoPrice} :
       ProtectPosition(s, stop, target)
People ==
  \/ \E trip \in ManualTrips : TripByHand(trip[1], trip[2], trip[3])
  \/ \E scope \in Scopes : AcknowledgeTrip(scope)
  \/ \E scope \in Scopes : RearmSwitch(scope)
Monitor ==
  \E volatile \in SUBSET (IF "volatility" \in Detectors THEN Symbols ELSE {}) :
    MonitorPass(volatile)
Market ==
  \/ \E book \in Books : BookArrives(book)
  \/ "funding" \in Detectors /\ \E s \in Symbols, class \in Fundings : TickerArrives(s, class)
  \/ "stale" \in Detectors /\ \E s \in Symbols : Silence(s)
  \/ \E signal \in Signals : Autotrade(signal)
Work == WorkQuote \/ LeaveQuote \/ PlaceNext

RuntimeNext == Clients \/ People \/ Monitor \/ Market \/ Work \/ Time \/ CoolDown

RuntimeSpec == RuntimeInit /\ [][RuntimeNext]_runtimeVars

\* A handler runs to its end, time passes, and the market keeps showing each
\* of its books.
MarketGoesOn ==
  /\ WF_runtimeVars(Work)
  /\ SF_runtimeVars(Time)
  /\ \A book \in Books : SF_runtimeVars(BookArrives(book))
LiveSpec == RuntimeSpec /\ MarketGoesOn

-----------------------------------------------------------------------------
\* What the runtime promises

RuntimeTypeOK ==
  /\ EngineTypeOK
  /\ KillTypeOK
  /\ \A s \in Symbols : quotes[s].reach \subseteq DOMAIN orders
  /\ age \in [Symbols -> Ages]
  /\ funding \in [Symbols -> Fundings]
  /\ handler.live \in BOOLEAN
  /\ peak2 \in Nat
  /\ streak \in [losses : Nat, cooling : BOOLEAN]
  /\ owed \subseteq Scopes

\* While the global switch is hard, nothing works but the orders with which it
\* flattens: the trip leaves no order behind and no handler adds one.
HardHaltHoldsOnlyExits ==
  Hard("global") => \A i \in PendingIds : orders[i].source = "kill_switch"

\* The system itself takes back only a soft trip of a symbol whose reason speaks
\* of dead data, and only when the data are fresh: the monitor's own, and that of
\* a person who has written of stale data.  Every other release is a person's, of
\* what a person has acknowledged.
OnlyDataTripsClear ==
  [][\A scope \in Scopes :
       switches[scope].state # "armed" /\ switches'[scope].state = "armed" =>
         \/ switches[scope].state = "acknowledged"
         \/ /\ switches[scope].cause \in MentionsData /\ switches[scope].level = "soft"
            /\ scope \in Symbols /\ age[scope] = "fresh"]_runtimeVars

\* Without protections in the way, a hard halt ends flat: unless a person
\* re-arms the switch or cancels one of its orders, every position is closed.
FlattenOrders == {i \in DOMAIN orders : orders[i].source = "kill_switch"}
HaltEndsFlat ==
  Hard("global") ~>
    \/ ~Hard("global")
    \/ \E i \in FlattenOrders : orders[i].status = "cancelled"
    \/ OpenSymbols = {}

\* "hard -> blocks everything except explicit flatten" (killswitch.py): no
\* position is opened while the global switch is hard.
HardHaltNeverOpens ==
  [][Hard("global") =>
       \A s \in Symbols : ~IsOpen(positions[s]) => ~IsOpen(positions'[s])]_runtimeVars

\* "loss/vol/hard trips still require the human ack -> re-arm flow"
\* (runtime.py): a scope that was tripped for anything but its data stays
\* blocked until it is re-armed.
TripNeedsPerson == \A scope \in owed : Active(scope)
=============================================================================
