------------------------ MODULE TradingRuntimeProofs ------------------------
(***************************************************************************)
(* Theorems about TradingRuntime, for every set of symbols, requests,      *)
(* signals and books: the engine keeps its invariant inside the runtime,   *)
(* which submits through the gates, shows a cached quote again and lets    *)
(* the kill switches flatten; a hard halt holds only the orders with which *)
(* it flattens; and only a trip for dead data is cleared without a person. *)
(* Every step of the runtime is an EngineEffect, so that balances, fills,  *)
(* prices, protections and the lives of orders are what the engine         *)
(* promises.                                                               *)
(***************************************************************************)
EXTENDS TradingRuntime, PaperEngineProofs

-----------------------------------------------------------------------------
(* The registry of kill switches: what its operations make of a switch.     *)

KillInv == KillTypeOK /\ HardTripIsLatched

\* Every switch starts armed and well formed.
LEMMA KillInitial == KillInit => KillInv
  BY DEF KillInit, KillInv, KillTypeOK, HardTripIsLatched, Hard, Active, Armed,
         Switches, Levels

(* What a call makes of one switch that satisfies the invariant satisfies it. *)
GoodSwitch(w) == /\ w \in Switches
                 /\ w.state = "armed" <=> w.level = "none"
                 /\ w.latched <=> (w.state # "armed" /\ w.level = "hard")

\* A trip leaves a switch well formed.
LEMMA GoodTripped ==
  ASSUME NEW w, GoodSwitch(w), NEW l \in Levels, NEW c \in Causes
  PROVE  GoodSwitch(Tripped(w, l, c))
  BY DEF GoodSwitch, Tripped, TripTakesEffect, Switches, Levels

\* Acknowledging a tripped switch leaves it well formed.
LEMMA GoodAcknowledged ==
  ASSUME NEW w, GoodSwitch(w), w.state = "tripped"
  PROVE  GoodSwitch([w EXCEPT !.state = "acknowledged"])
  BY DEF GoodSwitch, Switches

\* Rearming or clearing a switch leaves it well formed.
LEMMA GoodReleased ==
  ASSUME NEW w, GoodSwitch(w)
  PROVE  GoodSwitch(Rearmed(w)) /\ GoodSwitch(Cleared(w))
  BY DEF GoodSwitch, Rearmed, Cleared, Clearable, Armed, Switches

(* A step that gives one switch a good value preserves the invariant. *)
LEMMA UpdatePreserves ==
  ASSUME KillInv, NEW s \in Scopes, NEW w, GoodSwitch(w),
         switches' = [switches EXCEPT ![s] = w]
  PROVE  KillInv'
  BY DEF KillInv, KillTypeOK, HardTripIsLatched, Hard, Active, GoodSwitch

\* Every switch of the registry is well formed.
LEMMA SwitchesAreGood == KillInv => \A s \in Scopes : GoodSwitch(switches[s])
  BY DEF KillInv, KillTypeOK, HardTripIsLatched, Hard, Active, GoodSwitch

-----------------------------------------------------------------------------
(* The inductive invariant of the runtime.                                   *)

(* The cached quote of a symbol is of that symbol, and so is what it may     *)
(* still fill.                                                               *)
QuotesOK ==
  /\ quotes \in [Symbols -> [book : BookTops \union {NoBook}, reach : SUBSET Nat]]
  /\ \A s \in Symbols : Quoted(s) => quotes[s].book.symbol = s
  /\ \A s \in Symbols : \A i \in quotes[s].reach :
       i \in DOMAIN orders /\ orders[i].symbol = s

(* What a handler has still to place are new orders. *)
Tasks == [order : Orders, leverage : Nat, strategies : SUBSET {"strategy"}]
HandlerOK == /\ handler \in [live : BOOLEAN, next : Seq(Tasks)]
             /\ \A k \in DOMAIN handler.next : IsNew(handler.next[k].order)

(* What the gates read. *)
GatesOK == /\ age \in [Symbols -> Ages] /\ funding \in [Symbols -> Fundings]
           /\ peak2 \in Nat /\ streak \in [losses : Nat, cooling : BOOLEAN]
           /\ owed \subseteq Scopes

RuntimeInv == /\ EngineInv /\ KillInv /\ QuotesOK /\ HandlerOK /\ GatesOK
              /\ HardHaltHoldsOnlyExits

-----------------------------------------------------------------------------
(* Valuation: every amount that the gates compare is a number.               *)

(* The middle of a quote, in half ticks, is positive. *)
LEMMA QuotedMid ==
  ASSUME QuotesOK, NEW s \in Symbols, Quoted(s)
  PROVE  quotes[s].book \in BookTops /\ Mid2(quotes[s].book) \in Nat \ {0}
<1>1. quotes[s].book \in BookTops
  BY DEF QuotesOK, Quoted
<1> QED
  BY <1>1 DEF BookTops, Mid2

(* What each symbol has gained or lost on paper, as a function. *)
Unrealized == [s \in Symbols |-> Unrealized2(s)]

\* The mark to market of a position is an integer.
LEMMA UnrealizedIsInteger ==
  ASSUME AccountTypeOK, QuotesOK
  PROVE  \A s \in Symbols : Unrealized[s] \in Int
<1> SUFFICES ASSUME NEW s \in Symbols PROVE Unrealized2(s) \in Int
  BY DEF Unrealized
<1>1. /\ positions[s].side \in Sides /\ positions[s].qty \in Nat /\ positions[s].avg \in Int
  BY DEF AccountTypeOK, Positions
<1>2. CASE Quoted(s)
  <2>1. Mid2(quotes[s].book) \in Nat
    BY <1>2, QuotedMid
  <2>2. Sign(positions[s].side) \in Int
    BY DEF Sign
  <2>3. Mid2(quotes[s].book) - 2 * positions[s].avg \in Int
    BY <1>1, <2>1
  <2> QED
    BY <1>1, <1>2, <2>2, <2>3 DEF Unrealized2
<1>3. CASE ~Quoted(s)
  BY <1>3 DEF Unrealized2
<1> QED
  BY <1>2, <1>3

(* The library's sum of the unrealized pnl is the sum of that function. *)
LEMMA UnrealizedAdds ==
  MapThenSumSet(Unrealized2, Symbols) = SumOver(Unrealized, Symbols)
<1> DEFINE F(g) == g = [s \in SUBSET Symbols |->
                          IF s = {} THEN 0
                          ELSE Unrealized2(Pick(s)) + g[s \ {Pick(s)}]]
           h == CHOOSE g : F(g)
<1>1. MapThenSumSet(Unrealized2, Symbols) = h[Symbols]
  BY DEF MapThenSumSet, MapThenFoldSet, Pick
<1>2. \A g : FoldOf(g, Unrealized, Symbols) <=> F(g)
  <2> SUFFICES ASSUME NEW g PROVE FoldOf(g, Unrealized, Symbols) <=> F(g)
    OBVIOUS
  <2> DEFINE A(s) == IF s = {} THEN 0 ELSE Unrealized[Pick(s)] + g[s \ {Pick(s)}]
             B(s) == IF s = {} THEN 0 ELSE Unrealized2(Pick(s)) + g[s \ {Pick(s)}]
  <2>1. ASSUME NEW s \in SUBSET Symbols PROVE A(s) = B(s)
    <3>1. CASE s = {}
      BY <3>1
    <3>2. CASE s # {}
      <4>1. Pick(s) \in Symbols
        BY <3>2, PickIsMember
      <4> QED
        BY <4>1 DEF Unrealized
    <3> QED
      BY <3>1, <3>2
  <2> HIDE DEF A, B
  <2>2. [s \in SUBSET Symbols |-> A(s)] = [s \in SUBSET Symbols |-> B(s)]
    BY <2>1
  <2> QED
    BY <2>2 DEF A, B, FoldOf
<1>3. \E g : F(g)
  <2> HIDE DEF F
  <2> QED
    BY <1>2, FoldExists, SymbolAssumption
<1>4. F(h)
  <2> HIDE DEF F
  <2> QED
    BY <1>3
<1> HIDE DEF F, h
<1>5. FoldOf(h, Unrealized, Symbols)
  BY <1>2, <1>4
<1>6. h[Symbols] = SumOver(Unrealized, Symbols)
  <2>1. Symbols \subseteq Symbols
    OBVIOUS
  <2> QED
    BY <1>5, <2>1, SymbolAssumption, FoldIsSum
<1> QED
  BY <1>1, <1>6

(* The equity is a number. *)
LEMMA EquityIsInteger == AccountTypeOK /\ QuotesOK => Equity2 \in Int
<1> SUFFICES ASSUME AccountTypeOK, QuotesOK PROVE Equity2 \in Int
  OBVIOUS
<1>1. balance \in Int
  BY DEF AccountTypeOK
<1>2. SumOver(Unrealized, Symbols) \in Int
  <2>1. \A f : (\A s \in Symbols : f[s] \in Int) => SumOver(f, Symbols) \in Int
    BY SymbolAssumption, SumIsInteger
  <2> QED
    BY <2>1, UnrealizedIsInteger
<1>3. Equity2 = 2 * balance + SumOver(Unrealized, Symbols)
  BY UnrealizedAdds DEF Equity2
<1> QED
  BY <1>1, <1>2, <1>3

(* So it is after a step. *)
LEMMA NextEquityIsInteger == AccountTypeOK' /\ QuotesOK' => Equity2' \in Int
<1>1. (AccountTypeOK /\ QuotesOK => Equity2 \in Int)'
  BY EquityIsInteger, PTL
<1> QED
  BY <1>1

(* What autotrading plans to place are new orders. *)
LEMMA PlanIsNew ==
  ASSUME AccountInv, QuotesOK, NEW signal \in Signals,
         Quoted(signal.symbol), EntryOf(signal).qty > 0
  PROVE  /\ PlanOf(signal) \in Seq(Tasks)
         /\ \A k \in DOMAIN PlanOf(signal) : IsNew(PlanOf(signal)[k].order)
<1> DEFINE s == signal.symbol
           size == CappedSize(Equity2, Mid2(quotes[s].book), 2 * signal.stop, signal.riskBps)
           close == Exit(s, "signal")
           entry == Automatic(EntryOf(signal))
<1>1. /\ s \in Symbols /\ signal.side \in Sides /\ signal.stop \in Nat
      /\ signal.target \in Nat /\ signal.riskBps \in Nat
  BY RuntimeAssumption
<1>2. size \in Int
  <2>1. Equity2 \in Int
    BY EquityIsInteger DEF AccountInv
  <2>2. Mid2(quotes[s].book) \in Nat \ {0}
    BY <1>1, QuotedMid
  <2>3. 2 * signal.stop \in Nat
    BY <1>1
  <2> QED
    BY <1>1, <2>1, <2>2, <2>3, CappedSizeIsInteger
<1> HIDE DEF size
<1>3. EntryOf(signal) = [BlankOrder(s, signal.side, "market", size)
                          EXCEPT !.trigger = signal.stop, !.stopLoss = signal.stop,
                                 !.takeProfit = signal.target, !.source = "signal"]
  BY DEF EntryOf, size
<1>4. EntryOf(signal).qty = size
  BY <1>3 DEF BlankOrder
<1>5. size \in Nat
  BY <1>2, <1>4
<1>6. IsNew(EntryOf(signal))
  <2> DEFINE blank == BlankOrder(s, signal.side, "market", size)
             side == signal.side
             stop == signal.stop
             target == signal.target
  <2>1. blank \in Orders /\ blank.status = "new" /\ blank.filled = 0
    <3>1. s \in Symbols /\ side \in Sides /\ size \in Nat
      BY <1>1, <1>5
    <3> HIDE DEF s, side
    <3> QED
      BY <3>1 DEF BlankOrder, Orders, NoPrice, OrderTypes, TimesInForce, OrderStatuses, side
  <2>2. stop \in Nat /\ target \in Nat
    BY <1>1
  <2> HIDE DEF blank, side, stop, target
  <2> DEFINE noted == [blank EXCEPT !.trigger = stop, !.stopLoss = stop,
                                    !.takeProfit = target, !.source = "signal"]
  <2>3. noted \in Orders /\ noted.status = "new" /\ noted.filled = 0
    BY <2>1, <2>2 DEF Orders
  <2>4. EntryOf(signal) = noted
    BY <1>3 DEF blank, stop, target
  <2> QED
    BY <2>3, <2>4 DEF IsNew
<1>7. entry \in Tasks /\ IsNew(entry.order)
  BY <1>6 DEF Automatic, Tasks, IsNew
<1>8. close \in Tasks /\ IsNew(close.order)
  <2>1. IsNew(ExitOrder(s, "signal"))
    BY <1>1, ExitOrderIsNew DEF Sources, AccountInv
  <2> QED
    BY <2>1 DEF Exit, Tasks, IsNew
<1>9. PlanOf(signal) = <<close, entry>> \/ PlanOf(signal) = <<entry>>
  BY DEF PlanOf
<1> HIDE DEF close, entry
<1>10. CASE PlanOf(signal) = <<close, entry>>
  <2>1. <<close, entry>> \in Seq(Tasks) /\ DOMAIN <<close, entry>> = {1, 2}
    BY <1>7, <1>8
  <2> QED
    BY <1>7, <1>8, <1>10, <2>1
<1>11. CASE PlanOf(signal) = <<entry>>
  <2>1. <<entry>> \in Seq(Tasks) /\ DOMAIN <<entry>> = {1}
    BY <1>7
  <2> QED
    BY <1>7, <1>11, <2>1
<1> QED
  BY <1>9, <1>10, <1>11

-----------------------------------------------------------------------------
(* What a step of the engine leaves to the quotes and to a halt.             *)

(* No order loses its symbol or its source. *)
KeepsTerms ==
  /\ DOMAIN orders \subseteq DOMAIN orders'
  /\ \A i \in DOMAIN orders :
       orders'[i].symbol = orders[i].symbol /\ orders'[i].source = orders[i].source

\* The symbols of the orders there are stay, whatever arrives.
LEMMA ArrivalKeepsTerms ==
  ASSUME CoreInv, NEW batch, NEW gone, Arrival(batch, gone)
  PROVE  KeepsTerms
<1>1. /\ Len(orders) \in Nat /\ Len(batch) \in Nat
      /\ DOMAIN orders = 1 .. Len(orders) /\ DOMAIN orders' = 1 .. Len(orders) + Len(batch)
      /\ \A i \in 1 .. Len(orders) : SameTerms(orders'[i], orders[i])
  BY ArrivalShape DEF CoreInv, QueueInv
<1>2. 1 .. Len(orders) \subseteq 1 .. Len(orders) + Len(batch)
  BY <1>1
<1> QED
  BY <1>1, <1>2 DEF KeepsTerms, SameTerms

\* The symbols of the orders there are stay, whatever is worked.
LEMMA WorkKeepsTerms ==
  ASSUME CoreInv, TickInv, WorkOrder
  PROVE  KeepsTerms /\ PendingIds' \subseteq PendingIds
<1>1. PICK id, result : WorkedStep(id, result)
  BY WorkOrderShape DEF CoreInv, QueueInv
<1> QED
  BY <1>1 DEF WorkedStep, KeepsTerms, SameTerms

(* The cached quotes stay sound while orders come and go. *)
LEMMA QuotesKept ==
  ASSUME QuotesOK, KeepsTerms, quotes' = quotes
  PROVE  QuotesOK'
  BY DEF QuotesOK, KeepsTerms, Quoted

(* A halt holds on to what it held, while nothing joins the queue. *)
LEMMA HaltKept ==
  ASSUME CoreInv, HardHaltHoldsOnlyExits, KeepsTerms, PendingIds' \subseteq PendingIds,
         Hard("global")' => Hard("global")
  PROVE  HardHaltHoldsOnlyExits'
<1>1. PendingIds \subseteq DOMAIN orders
  BY DEF CoreInv, QueueInv
<1> QED
  BY <1>1 DEF HardHaltHoldsOnlyExits, KeepsTerms

(* A step that leaves the engine alone, and the switches or at least the     *)
(* global one.                                                                *)
LEMMA EngineAlone ==
  ASSUME EngineInv, QuotesOK, HardHaltHoldsOnlyExits, UNCHANGED engineVars, quotes' = quotes,
         Hard("global")' => Hard("global")
  PROVE  EngineInv' /\ QuotesOK' /\ HardHaltHoldsOnlyExits'
<1>1. EngineInv' /\ CoreInv
  BY EngineStutterKeeps DEF EngineInv
<1>2. KeepsTerms /\ PendingIds' \subseteq PendingIds
  BY DEF KeepsTerms, engineVars, bookVars, PendingIds
<1> QED
  BY <1>1, <1>2, QuotesKept, HaltKept

(* Only what an open gate lets through is placed, and while the global        *)
(* switch is hard no gate is open.                                            *)
LEMMA HardBlocksAll ==
  ASSUME NEW task, Passes(task)
  PROVE  ~Hard("global")
<1>1. SwitchesPass(task)
  BY DEF Passes
<1>2. "global" \in ScopesOf(task.order.symbol)
  BY DEF ScopesOf
<1> QED
  BY <1>1, <1>2 DEF SwitchesPass, ExitsBlocked, EntriesBlocked, Hard

(* place_order: the gates, the engine, and the cached quote once more. *)
LEMMA PlaceKeeps ==
  ASSUME RuntimeInv, ~tick.running, NEW task, IsNew(task.order), Place(task),
         UNCHANGED <<switches, quotes>>
  PROVE  EngineInv' /\ QuotesOK' /\ HardHaltHoldsOnlyExits'
<1>1. EngineInv /\ CoreInv /\ TickInv /\ QuotesOK /\ HardHaltHoldsOnlyExits
  BY DEF RuntimeInv, EngineInv
<1>2. Hard("global")' <=> Hard("global")
  BY DEF Hard, Active
<1>3. CASE ~Passes(task)
  <2>1. UNCHANGED engineVars
    BY <1>3 DEF Place
  <2> QED
    BY <1>1, <1>2, <2>1, EngineAlone
<1>4. CASE Passes(task)
  <2> DEFINE order == task.order
             quote == quotes[order.symbol]
  <2>1. Submit(order)
    BY <1>4 DEF Place
  <2>2. tick' = IF quote.book = NoBook THEN Quiet
                ELSE [running |-> TRUE, book |-> quote.book,
                      todo |-> quote.reach \intersect DOMAIN pending']
    BY <1>4 DEF Place
  <2>3. order.symbol \in Symbols
    BY OrderFields DEF IsNew
  <2> HIDE DEF order
  <2>4. CoreInv' /\ Arrival(<<order>>, {}) /\ Len(orders') = Len(orders) + 1
    BY <1>1, <2>1, SubmitKeepsCore DEF order
  <2>5. Len(orders') <= MaxOrders
    BY <2>1, <2>4, LenProperties, EngineAssumption DEF Submit, CoreInv, QueueInv
  <2>6. KeepsTerms /\ QuotesOK'
    BY <1>1, <2>4, ArrivalKeepsTerms, QuotesKept
  <2>7. TickInv'
    <3>1. CASE quote.book = NoBook
      BY <2>2, <3>1 DEF TickInv, Quiet
    <3>2. CASE quote.book # NoBook
      <4>1. /\ quote.book \in BookTops /\ quote.book.symbol = order.symbol
            /\ quote.reach \subseteq Nat
            /\ \A i \in quote.reach : i \in DOMAIN orders /\ orders[i].symbol = order.symbol
        BY <1>1, <2>3, <3>2 DEF QuotesOK, Quoted
      <4>2. \A i \in quote.reach : orders'[i].symbol = order.symbol
        BY <2>6, <4>1 DEF KeepsTerms
      <4> HIDE DEF quote
      <4>3. tick' = [running |-> TRUE, book |-> quote.book,
                     todo |-> quote.reach \intersect DOMAIN pending']
        BY <2>2, <3>2
      <4> QED
        BY <4>1, <4>2, <4>3 DEF TickInv, PendingIds
    <3> QED
      BY <3>1, <3>2
  <2>8. HardHaltHoldsOnlyExits'
    BY <1>2, <1>4, HardBlocksAll DEF HardHaltHoldsOnlyExits
  <2> QED
    BY <2>4, <2>5, <2>6, <2>7, <2>8 DEF EngineInv
<1> QED
  BY <1>3, <1>4

(* flatten_all leaves nothing to work but the orders with which it flattens. *)
LEMMA FlattenHolds ==
  ASSUME CoreInv, FlattenAll
  PROVE  \A i \in PendingIds' : orders'[i].source = "kill_switch"
<1> DEFINE batch == ExitOrders("kill_switch")
           n == Len(orders)
           m == Len(batch)
<1>1. Arrival(batch, PendingIds)
  BY FlattenIsArrival DEF CoreInv, AccountInv
<1>2. /\ batch \in Seq(Orders) /\ \A k \in DOMAIN batch : batch[k].source = "kill_switch"
  BY ExitOrdersAreNew DEF Sources, CoreInv, AccountInv
<1> HIDE DEF batch
<1>3. /\ n \in Nat /\ m \in Nat /\ DOMAIN batch = 1 .. m
      /\ \A i \in n + 1 .. n + m : SameTerms(orders'[i], batch[i - n])
      /\ AcceptedIds(batch) \subseteq n + 1 .. n + m
  BY <1>1, ArrivalShape DEF CoreInv, QueueInv
<1>4. PendingIds' = AcceptedIds(batch)
  BY <1>1 DEF Arrival
<1> HIDE DEF n, m
<1>5. ASSUME NEW i \in PendingIds' PROVE orders'[i].source = "kill_switch"
  <2>1. i \in n + 1 .. n + m
    BY <1>3, <1>4
  <2>2. i - n \in 1 .. m
    BY <1>3, <2>1
  <2> QED
    BY <1>2, <1>3, <2>1, <2>2 DEF SameTerms
<1> QED
  BY <1>5

(* on_trip: a trip that makes the global switch hard flattens; no other trip  *)
(* touches the engine.                                                        *)
LEMMA OnTripKeeps ==
  ASSUME RuntimeInv, ~tick.running, NEW scope, NEW level, OnTrip(scope, level),
         quotes' = quotes
  PROVE  /\ EngineInv' /\ QuotesOK'
         /\ IF scope = "global" /\ level = "hard" /\ TripTakesEffect(switches[scope], level)
            THEN \A i \in PendingIds' : orders'[i].source = "kill_switch"
            ELSE UNCHANGED engineVars
<1>1. EngineInv /\ CoreInv /\ TickInv /\ QuotesOK
  BY DEF RuntimeInv, EngineInv
<1>2. CASE scope = "global" /\ level = "hard" /\ TripTakesEffect(switches[scope], level)
  <2>1. FlattenAll /\ Calm
    BY <1>2 DEF OnTrip, Calm
  <2>2. /\ CoreInv' /\ Arrival(ExitOrders("kill_switch"), PendingIds)
        /\ Len(orders') <= MaxOrders
    BY <1>1, <2>1, FlattenKeepsCore
  <2>3. TickInv'
    BY <1>1, <2>1, CalmKeepsTick
  <2>4. QuotesOK'
    BY <1>1, <2>2, ArrivalKeepsTerms, QuotesKept
  <2> QED
    BY <1>1, <1>2, <2>1, <2>2, <2>3, <2>4, FlattenHolds DEF EngineInv
<1>3. CASE ~(scope = "global" /\ level = "hard" /\ TripTakesEffect(switches[scope], level))
  <2>1. UNCHANGED engineVars
    BY <1>3 DEF OnTrip
  <2>2. EngineInv' /\ KeepsTerms
    BY <1>1, <2>1, EngineStutterKeeps DEF KeepsTerms, engineVars, bookVars
  <2> QED
    BY <1>1, <1>3, <2>1, <2>2, QuotesKept
<1> QED
  BY <1>2, <1>3

(* A switch that is tripped is hard afterwards only if it was, or if a hard    *)
(* trip took effect.                                                           *)
LEMMA TrippedIsHard ==
  ASSUME NEW w, NEW level \in Levels, NEW cause,
         Tripped(w, level, cause).state # "armed", Tripped(w, level, cause).level = "hard"
  PROVE  \/ w.state # "armed" /\ w.level = "hard"
         \/ level = "hard" /\ TripTakesEffect(w, level)
  BY DEF Tripped, Levels

(* Every switch is good, so the registry is. *)
LEMMA AllGood ==
  ASSUME switches' = [scope \in Scopes |-> switches'[scope]],
         \A scope \in Scopes : GoodSwitch(switches'[scope])
  PROVE  KillInv'
  BY DEF KillInv, KillTypeOK, HardTripIsLatched, Hard, Active, GoodSwitch

\* A trip moves the switch it names, and leaves every switch well formed.
LEMMA TripKeepsKill ==
  ASSUME KillInv, NEW scope \in Scopes, NEW level \in Levels, NEW cause \in Causes,
         Trip(scope, level, cause)
  PROVE  /\ KillInv'
         /\ switches'[scope] = Tripped(switches[scope], level, cause)
         /\ \A other \in Scopes \ {scope} : switches'[other] = switches[other]
<1>1. switches' = [switches EXCEPT ![scope] = Tripped(switches[scope], level, cause)]
  BY DEF Trip
<1>2. GoodSwitch(Tripped(switches[scope], level, cause))
  BY SwitchesAreGood, GoodTripped
<1>3. KillInv'
  BY <1>1, <1>2, UpdatePreserves
<1> QED
  BY <1>1, <1>3 DEF KillInv, KillTypeOK

-----------------------------------------------------------------------------
(* The invariant is inductive.                                               *)

\* The runtime starts inside its invariant.
LEMMA RuntimeInitial == RuntimeInit => RuntimeInv
<1> SUFFICES ASSUME RuntimeInit PROVE RuntimeInv
  OBVIOUS
<1>1. EngineInv /\ KillInv
  BY EngineInitial, KillInitial DEF RuntimeInit
<1>2. QuotesOK
  BY DEF RuntimeInit, QuotesOK, Quoted, NoQuote
<1>3. HandlerOK
  <2>1. << >> \in Seq(Tasks) /\ DOMAIN << >> = {}
    OBVIOUS
  <2> QED
    BY <2>1 DEF RuntimeInit, HandlerOK, Idle
<1>4. GatesOK
  BY RuntimeAssumption, StartingBalanceAssumption DEF RuntimeInit, GatesOK, Ages, Fundings
<1>5. ~Hard("global")
  BY RuntimeAssumption DEF RuntimeInit, KillInit, Hard, Active, Armed
<1> QED
  BY <1>1, <1>2, <1>3, <1>4, <1>5 DEF RuntimeInv, HardHaltHoldsOnlyExits

(* The registry, when no switch changes. *)
LEMMA SwitchesKept ==
  ASSUME KillInv, switches' = switches
  PROVE  KillInv' /\ \A scope : Hard(scope)' <=> Hard(scope)
  BY DEF KillInv, KillTypeOK, HardTripIsLatched, Hard, Active

(* What a step that leaves switches, gates and handler alone has to show. *)
LEMMA GatesKept ==
  ASSUME RuntimeInv, UNCHANGED <<switches, gateVars, owed>>,
         EngineInv' /\ QuotesOK' /\ HardHaltHoldsOnlyExits'
  PROVE  RuntimeInv'
<1>1. KillInv'
  BY SwitchesKept DEF RuntimeInv
<1>2. HandlerOK' /\ GatesOK'
  BY DEF RuntimeInv, gateVars, HandlerOK, GatesOK
<1> QED
  BY <1>1, <1>2 DEF RuntimeInv

(* The endpoints: an order is created, a position closed, an order cancelled,  *)
(* a position protected.                                                       *)
LEMMA ClientsKeep ==
  ASSUME RuntimeInv, Clients
  PROVE  RuntimeInv'
<1>1. /\ EngineInv /\ CoreInv /\ TickInv /\ QuotesOK /\ HardHaltHoldsOnlyExits
      /\ Len(orders) <= MaxOrders
  BY DEF RuntimeInv, EngineInv
<1>2. ASSUME NEW order \in Requests, CreateOrder(order) PROVE RuntimeInv'
  <2>1. /\ ~tick.running /\ Place(Manual(order)) /\ UNCHANGED <<switches, gateVars, owed>>
        /\ quotes' = quotes
    BY <1>2 DEF CreateOrder, AtRest, gateVars
  <2>2. IsNew(Manual(order).order)
    BY RequestAssumption DEF Manual
  <2>3. EngineInv' /\ QuotesOK' /\ HardHaltHoldsOnlyExits'
    BY <2>1, <2>2, PlaceKeeps
  <2> QED
    BY <2>1, <2>3, GatesKept
<1>3. ASSUME NEW s \in Symbols, ClosePositionOf(s) PROVE RuntimeInv'
  <2>1. /\ ~tick.running /\ Place(Exit(s, "manual")) /\ UNCHANGED <<switches, gateVars, owed>>
        /\ quotes' = quotes
    BY <1>3 DEF ClosePositionOf, AtRest, gateVars
  <2>2. IsNew(Exit(s, "manual").order)
    BY <1>1, ExitOrderIsNew DEF Exit, Sources, CoreInv, AccountInv
  <2>3. EngineInv' /\ QuotesOK' /\ HardHaltHoldsOnlyExits'
    BY <2>1, <2>2, PlaceKeeps
  <2> QED
    BY <2>1, <2>3, GatesKept
<1>4. ASSUME NEW id \in PendingIds, CancelOrder(id) PROVE RuntimeInv'
  <2>1. /\ Cancel(id) /\ Calm /\ UNCHANGED <<switches, gateVars, owed>>
        /\ quotes' = quotes
    BY <1>4 DEF CancelOrder, AtRest, Calm, gateVars
  <2>2. CoreInv' /\ Arrival(<< >>, {id}) /\ Len(orders') = Len(orders) /\ TickInv'
    BY <1>1, <2>1, CancelKeepsCore, CalmKeepsTick
  <2>3. KeepsTerms /\ PendingIds' \subseteq PendingIds
    <3>1. PendingIds' = PendingIds \ {id}
      BY <2>1 DEF Cancel, Without, Restrict, PendingIds
    <3> QED
      BY <1>1, <2>2, <3>1, ArrivalKeepsTerms
  <2>4. QuotesOK' /\ HardHaltHoldsOnlyExits'
    BY <1>1, <2>1, <2>3, QuotesKept, HaltKept, SwitchesKept DEF RuntimeInv
  <2> QED
    BY <1>1, <2>1, <2>2, <2>4, GatesKept DEF EngineInv
<1>5. ASSUME NEW s \in Symbols, NEW stop \in ProtectPrices \union {NoPrice},
             NEW target \in ProtectPrices \union {NoPrice}, ProtectPosition(s, stop, target)
      PROVE  RuntimeInv'
  <2>1. /\ Protect(s, stop, target) /\ Calm /\ UNCHANGED <<switches, gateVars, owed>>
        /\ quotes' = quotes
    BY <1>5 DEF ProtectPosition, AtRest, Calm, gateVars
  <2>2. stop \in Nat /\ target \in Nat
    BY EngineAssumption DEF NoPrice
  <2>3. CoreInv' /\ UNCHANGED <<accountVars, orders, pending>> /\ TickInv'
    BY <1>1, <2>1, <2>2, ProtectKeepsCore, CalmKeepsTick
  <2>4. KeepsTerms /\ PendingIds' \subseteq PendingIds
    BY <2>3 DEF KeepsTerms, PendingIds
  <2>5. QuotesOK' /\ HardHaltHoldsOnlyExits'
    BY <1>1, <2>1, <2>4, QuotesKept, HaltKept, SwitchesKept DEF RuntimeInv
  <2> QED
    BY <1>1, <2>1, <2>3, <2>5, GatesKept DEF EngineInv
<1> QED
  BY <1>2, <1>3, <1>4, <1>5 DEF Clients

(* The one global switch, after a trip by hand or by the monitor: either it    *)
(* was hard before, or the engine has flattened.                               *)
LEMMA HaltAfterTrip ==
  ASSUME RuntimeInv, ~tick.running, NEW scope \in Scopes, NEW level \in Levels, NEW cause,
         OnTrip(scope, level), quotes' = quotes,
         switches'["global"] = IF scope = "global"
                               THEN Tripped(switches["global"], level, cause)
                               ELSE switches["global"]
  PROVE  EngineInv' /\ QuotesOK' /\ HardHaltHoldsOnlyExits'
<1> DEFINE flattens == /\ scope = "global" /\ level = "hard"
                       /\ TripTakesEffect(switches[scope], level)
<1>1. EngineInv /\ QuotesOK /\ HardHaltHoldsOnlyExits
  BY DEF RuntimeInv
<1>2. /\ EngineInv' /\ QuotesOK'
      /\ IF flattens THEN \A i \in PendingIds' : orders'[i].source = "kill_switch"
                     ELSE UNCHANGED engineVars
  BY OnTripKeeps
<1>3. CASE flattens
  BY <1>2, <1>3 DEF HardHaltHoldsOnlyExits
<1>4. CASE ~flattens
  <2>1. UNCHANGED engineVars
    BY <1>2, <1>4
  <2>2. Hard("global")' => Hard("global")
    <3>1. CASE scope = "global"
      BY <1>4, <3>1, TrippedIsHard DEF Hard, Active
    <3>2. CASE scope # "global"
      BY <3>2 DEF Hard, Active
    <3> QED
      BY <3>1, <3>2
  <2> QED
    BY <1>1, <2>1, <2>2, EngineAlone
<1> QED
  BY <1>3, <1>4

(* A person trips, acknowledges or re-arms a switch. *)
LEMMA PeopleKeep ==
  ASSUME RuntimeInv, People
  PROVE  RuntimeInv'
<1>1. EngineInv /\ KillInv /\ QuotesOK /\ HardHaltHoldsOnlyExits /\ "global" \in Scopes
  BY RuntimeAssumption DEF RuntimeInv
<1>2. ASSUME NEW scope \in Scopes, NEW level \in Levels, NEW reason \in ManualReasons,
             TripByHand(scope, level, reason)
      PROVE  RuntimeInv'
  <2>1. /\ ~tick.running /\ Trip(scope, level, reason) /\ OnTrip(scope, level)
        /\ owed' = owed \union {scope} /\ UNCHANGED gateVars /\ quotes' = quotes
    BY <1>2 DEF TripByHand, AtRest, gateVars
  <2>2. reason \in Causes
    BY RuntimeAssumption
  <2>3. /\ KillInv'
        /\ switches'[scope] = Tripped(switches[scope], level, reason)
        /\ \A other \in Scopes \ {scope} : switches'[other] = switches[other]
    BY <1>1, <2>1, <2>2, TripKeepsKill
  <2>4. switches'["global"] = IF scope = "global"
                              THEN Tripped(switches["global"], level, reason)
                              ELSE switches["global"]
    BY <1>1, <2>3
  <2>5. EngineInv' /\ QuotesOK' /\ HardHaltHoldsOnlyExits'
    BY <2>1, <2>4, HaltAfterTrip
  <2>6. HandlerOK' /\ GatesOK'
    BY <2>1 DEF RuntimeInv, HandlerOK, GatesOK, gateVars
  <2> QED
    BY <2>3, <2>5, <2>6 DEF RuntimeInv
<1>3. ASSUME NEW scope \in Scopes, NEW w, GoodSwitch(w), w.level = "hard" => Hard(scope),
             switches' = [switches EXCEPT ![scope] = w], owed' \subseteq owed,
             UNCHANGED <<engineVars, gateVars>>
      PROVE  RuntimeInv'
  <2>1. KillInv'
    BY <1>1, <1>3, UpdatePreserves
  <2>2. Hard("global")' => Hard("global")
    BY <1>1, <1>3 DEF Hard, Active, KillInv, KillTypeOK
  <2>3. EngineInv' /\ QuotesOK' /\ HardHaltHoldsOnlyExits'
    BY <1>1, <1>3, <2>2, EngineAlone DEF gateVars
  <2>4. HandlerOK' /\ GatesOK'
    BY <1>3 DEF RuntimeInv, HandlerOK, GatesOK, gateVars
  <2> QED
    BY <2>1, <2>3, <2>4 DEF RuntimeInv
<1>4. ASSUME NEW scope \in Scopes, AcknowledgeTrip(scope) PROVE RuntimeInv'
  <2> DEFINE w == [switches[scope] EXCEPT !.state = "acknowledged"]
  <2>1. /\ switches[scope].state = "tripped" /\ switches' = [switches EXCEPT ![scope] = w]
        /\ UNCHANGED <<engineVars, gateVars, owed>>
    BY <1>4 DEF AcknowledgeTrip, Acknowledge
  <2>2. GoodSwitch(switches[scope]) /\ GoodSwitch(w)
    BY <1>1, <2>1, SwitchesAreGood, GoodAcknowledged
  <2>3. w.level = "hard" => Hard(scope)
    BY <2>1, <2>2 DEF Hard, Active, GoodSwitch, Switches
  <2> HIDE DEF w
  <2> QED
    BY <1>3, <2>1, <2>2, <2>3
<1>5. ASSUME NEW scope \in Scopes, RearmSwitch(scope) PROVE RuntimeInv'
  <2>1. /\ switches' = [switches EXCEPT ![scope] = Rearmed(switches[scope])]
        /\ owed' \subseteq owed /\ UNCHANGED <<engineVars, gateVars>>
    BY <1>5 DEF RearmSwitch, Rearm
  <2>2. GoodSwitch(Rearmed(switches[scope]))
    BY <1>1, SwitchesAreGood, GoodReleased
  <2>3. Rearmed(switches[scope]).level = "hard" => Hard(scope)
    BY DEF Rearmed, Armed
  <2> QED
    BY <1>3, <2>1, <2>2, <2>3
<1>6. ASSUME NEW trip \in ManualTrips, TripByHand(trip[1], trip[2], trip[3])
      PROVE  RuntimeInv'
  <2>1. trip[1] \in Scopes /\ trip[2] \in Levels /\ trip[3] \in ManualReasons
    BY RuntimeAssumption
  <2> QED
    BY <1>2, <1>6, <2>1
<1> QED
  BY <1>4, <1>5, <1>6 DEF People

(* What a pass of the monitor makes of a good switch is a good switch. *)
LEMMA ChecksAreGood ==
  ASSUME KillInv, NEW s \in Symbols, NEW volatile
  PROVE  GoodSwitch(AfterChecks(s, volatile))
<1>1. s \in Scopes /\ {"stale", "volatility", "funding"} \subseteq Causes /\ "soft" \in Levels
  BY RuntimeAssumption DEF Levels
<1>2. GoodSwitch(switches[s])
  BY <1>1, SwitchesAreGood
<1>3. GoodSwitch(AfterData(s))
  BY <1>1, <1>2, GoodTripped, GoodReleased DEF AfterData
<1>4. GoodSwitch(AfterVolatility(s, volatile))
  BY <1>1, <1>3, GoodTripped DEF AfterVolatility
<1> QED
  BY <1>1, <1>4, GoodTripped DEF AfterChecks

(* A pass of the monitor. *)
LEMMA MonitorKeeps ==
  ASSUME RuntimeInv, NEW volatile \in SUBSET Symbols, MonitorPass(volatile)
  PROVE  RuntimeInv'
<1>1. /\ EngineInv /\ KillInv /\ QuotesOK /\ HardHaltHoldsOnlyExits
      /\ "global" \in Scopes /\ "global" \notin Symbols /\ Symbols \subseteq Scopes
      /\ "loss" \in Causes /\ "hard" \in Levels
  BY RuntimeAssumption DEF RuntimeInv, Levels
<1>2. /\ ~tick.running /\ UNCHANGED gateVars /\ quotes' = quotes
      /\ IF Lossy THEN OnTrip("global", "hard") ELSE UNCHANGED engineVars
  BY DEF MonitorPass, AtRest, gateVars
<1> DEFINE after(scope) ==
             CASE scope \in Symbols -> AfterChecks(scope, volatile)
               [] scope = "global" /\ Lossy -> Tripped(switches[scope], "hard", "loss")
               [] OTHER -> switches[scope]
<1>3. switches' = [scope \in Scopes |-> after(scope)]
  BY DEF MonitorPass
<1>4. ASSUME NEW scope \in Scopes PROVE GoodSwitch(after(scope))
  <2>1. CASE scope \in Symbols
    <3>1. after(scope) = AfterChecks(scope, volatile)
      BY <1>1, <2>1
    <3> HIDE DEF after
    <3> QED
      BY <1>1, <2>1, <3>1, ChecksAreGood
  <2>2. CASE scope = "global" /\ Lossy
    <3>1. after(scope) = Tripped(switches[scope], "hard", "loss")
      BY <1>1, <2>2
    <3> HIDE DEF after
    <3> QED
      BY <1>1, <3>1, SwitchesAreGood, GoodTripped
  <2>3. CASE scope \notin Symbols /\ ~(scope = "global" /\ Lossy)
    <3>1. after(scope) = switches[scope]
      BY <2>3
    <3> HIDE DEF after
    <3> QED
      BY <1>1, <3>1, SwitchesAreGood
  <2> QED
    BY <2>1, <2>2, <2>3
<1>5. /\ Lossy => switches'["global"] = Tripped(switches["global"], "hard", "loss")
      /\ ~Lossy => switches'["global"] = switches["global"]
  <2>1. switches'["global"] = after("global")
    BY <1>1, <1>3
  <2> QED
    BY <1>1, <2>1
<1> HIDE DEF after
<1>6. KillInv'
  BY <1>3, <1>4, AllGood
<1>7. EngineInv' /\ QuotesOK' /\ HardHaltHoldsOnlyExits'
  <2>1. CASE Lossy
    BY <1>1, <1>2, <1>5, <2>1, HaltAfterTrip
  <2>2. CASE ~Lossy
    <3>1. Hard("global")' => Hard("global")
      BY <1>5, <2>2 DEF Hard, Active
    <3> QED
      BY <1>1, <1>2, <2>2, <3>1, EngineAlone
  <2> QED
    BY <2>1, <2>2
<1>8. HandlerOK' /\ GatesOK'
  <2>1. owed' \subseteq Scopes
    BY <1>1 DEF MonitorPass, RuntimeInv, GatesOK
  <2> QED
    BY <1>2, <2>1 DEF RuntimeInv, HandlerOK, GatesOK, gateVars
<1> QED
  BY <1>6, <1>7, <1>8 DEF RuntimeInv

(* A step that touches neither the engine nor the switches nor the quotes has  *)
(* only the gates and the handler to answer for.                               *)
LEMMA OnlyGatesChange ==
  ASSUME RuntimeInv, UNCHANGED <<engineVars, switches, quotes>>, HandlerOK', GatesOK'
  PROVE  RuntimeInv'
<1>1. KillInv' /\ (Hard("global")' => Hard("global"))
  BY SwitchesKept DEF RuntimeInv
<1>2. EngineInv' /\ QuotesOK' /\ HardHaltHoldsOnlyExits'
  BY <1>1, EngineAlone DEF RuntimeInv
<1> QED
  BY <1>1, <1>2 DEF RuntimeInv

(* A book arrives: the hub caches it, and the engine is shown it. *)
LEMMA BookKeeps ==
  ASSUME RuntimeInv, NEW book \in Books, BookArrives(book)
  PROVE  RuntimeInv'
<1> DEFINE s == book.symbol
           quote == [book |-> book, reach |-> Eligible(pending, orders, book)]
<1>1. /\ EngineInv /\ CoreInv /\ TickInv /\ QuotesOK /\ HandlerOK /\ GatesOK
      /\ HardHaltHoldsOnlyExits
  BY DEF RuntimeInv, EngineInv
<1>2. book \in BookTops /\ s \in Symbols
  BY BookAssumption DEF BookTops
<1>3. /\ OnBook(book) /\ quotes' = [quotes EXCEPT ![s] = quote]
      /\ age' = [age EXCEPT ![s] = "fresh"]
      /\ handler' = [handler EXCEPT !.live = TRUE]
      /\ UNCHANGED <<switches, funding, peak2, streak, owed>>
  BY DEF BookArrives
<1>4. orders' = orders /\ pending' = pending
  BY <1>3 DEF OnBook
<1>5. EngineInv'
  BY <1>1, <1>2, <1>3, <1>4, OnBookKeepsCore DEF EngineInv
<1>6. QuotesOK'
  <2>1. PendingIds \subseteq Nat /\ PendingIds \subseteq DOMAIN orders
    BY <1>1, LenProperties DEF CoreInv, QueueInv
  <2>2. /\ Eligible(pending, orders, book) \subseteq PendingIds
        /\ \A i \in Eligible(pending, orders, book) : orders[i].symbol = s
    BY DEF Eligible, PendingIds
  <2>3. quote \in [book : BookTops \union {NoBook}, reach : SUBSET Nat]
    BY <1>2, <2>1, <2>2
  <2>4. \A i \in quote.reach : i \in DOMAIN orders /\ orders[i].symbol = s
    BY <2>1, <2>2
  <2>5. quote.book.symbol = s
    OBVIOUS
  <2> HIDE DEF quote, s
  <2> QED
    BY <1>1, <1>2, <1>3, <1>4, <2>3, <2>4, <2>5 DEF QuotesOK, Quoted
<1>7. KillInv' /\ HardHaltHoldsOnlyExits'
  <2>1. KeepsTerms /\ PendingIds' \subseteq PendingIds
    BY <1>4 DEF KeepsTerms, PendingIds
  <2> QED
    BY <1>1, <1>3, <2>1, SwitchesKept, HaltKept DEF RuntimeInv
<1>8. HandlerOK'
  BY <1>1, <1>3 DEF HandlerOK
<1>9. GatesOK'
  BY <1>1, <1>2, <1>3 DEF GatesOK, Ages
<1> QED
  BY <1>5, <1>6, <1>7, <1>8, <1>9 DEF RuntimeInv

(* Books, tickers and closed candles arrive, or nothing does for a while. *)
LEMMA MarketKeeps ==
  ASSUME RuntimeInv, Market
  PROVE  RuntimeInv'
<1>1. EngineInv /\ QuotesOK /\ HandlerOK /\ GatesOK /\ AccountInv
  BY DEF RuntimeInv, EngineInv, CoreInv
<1>2. ASSUME NEW s \in Symbols, NEW class \in Fundings, TickerArrives(s, class)
      PROVE  RuntimeInv'
  <2>1. /\ UNCHANGED <<engineVars, switches, quotes, handler, peak2, streak, owed>>
        /\ funding' = [funding EXCEPT ![s] = class] /\ age' = [age EXCEPT ![s] = "fresh"]
    BY <1>2 DEF TickerArrives
  <2>2. HandlerOK' /\ GatesOK'
    BY <1>1, <2>1 DEF HandlerOK, GatesOK, Ages
  <2> QED
    BY <2>1, <2>2, OnlyGatesChange
<1>3. ASSUME NEW s \in Symbols, Silence(s) PROVE RuntimeInv'
  <2>1. /\ UNCHANGED <<engineVars, switches, quotes, funding, handler, peak2, streak, owed>>
        /\ age' = [age EXCEPT ![s] = OlderClass[age[s]]]
    BY <1>3 DEF Silence
  <2>2. age[s] \in Ages
    BY <1>1 DEF GatesOK
  <2>3. OlderClass[age[s]] \in Ages
    BY <2>2 DEF OlderClass, Ages
  <2>4. HandlerOK' /\ GatesOK'
    BY <1>1, <2>1, <2>3 DEF HandlerOK, GatesOK
  <2> QED
    BY <2>1, <2>4, OnlyGatesChange
<1>4. ASSUME NEW signal \in Signals, Autotrade(signal) PROVE RuntimeInv'
  <2> DEFINE acts == /\ Quoted(signal.symbol)
                     /\ ~(/\ IsOpen(positions[signal.symbol])
                          /\ positions[signal.symbol].side = signal.side)
                     /\ EntryOf(signal).qty > 0
  <2>1. /\ UNCHANGED <<engineVars, switches, quotes, funding, peak2, streak, owed>>
        /\ age' = [age EXCEPT ![signal.symbol] = "fresh"]
        /\ handler' = IF acts THEN [Idle EXCEPT !.next = PlanOf(signal)] ELSE Idle
    BY <1>4 DEF Autotrade
  <2>2. HandlerOK'
    <3>1. CASE acts
      <4>1. /\ PlanOf(signal) \in Seq(Tasks)
            /\ \A k \in DOMAIN PlanOf(signal) : IsNew(PlanOf(signal)[k].order)
        BY <1>1, <3>1, PlanIsNew
      <4>2. handler' = [live |-> FALSE, next |-> PlanOf(signal)]
        BY <2>1, <3>1 DEF Idle
      <4> HIDE DEF acts
      <4> QED
        BY <4>1, <4>2 DEF HandlerOK
    <3>2. CASE ~acts
      <4>1. << >> \in Seq(Tasks) /\ DOMAIN << >> = {}
        OBVIOUS
      <4>2. handler' = Idle
        BY <2>1, <3>2
      <4> QED
        BY <4>1, <4>2 DEF HandlerOK, Idle
    <3> QED
      BY <3>1, <3>2
  <2> HIDE DEF acts
  <2>3. GatesOK'
    BY <1>1, <2>1 DEF GatesOK, Ages
  <2> QED
    BY <2>1, <2>2, <2>3, OnlyGatesChange
<1> QED
  BY <1>2, <1>3, <1>4, BookKeeps DEF Market

(* _on_fill: the streak counts a closed trade, and a fill of abnormal slippage *)
(* trips the switch of its symbol softly.                                      *)
LEMMA OnFillKeeps ==
  ASSUME KillInv, GatesOK, NEW s \in Symbols, OnFill(s), UNCHANGED <<age, funding>>,
         peak2' \in Nat
  PROVE  KillInv' /\ GatesOK' /\ (Hard("global")' => Hard("global"))
<1>1. s \in Scopes /\ "global" \in Scopes /\ s # "global" /\ "slippage" \in Causes
      /\ "soft" \in Levels
  BY RuntimeAssumption DEF Levels
<1>2. streak' \in [losses : Nat, cooling : BOOLEAN]
  <2>1. streak \in [losses : Nat, cooling : BOOLEAN]
    BY DEF GatesOK
  <2>2. Outcome(s) \in {streak, [losses |-> streak.losses + 1, cooling |-> TRUE],
                        [streak EXCEPT !.losses = 0]}
    BY DEF Outcome
  <2>3. [losses |-> streak.losses + 1, cooling |-> TRUE] \in [losses : Nat, cooling : BOOLEAN]
    BY <2>1
  <2>4. [streak EXCEPT !.losses = 0] \in [losses : Nat, cooling : BOOLEAN]
    BY <2>1
  <2> QED
    BY <2>1, <2>2, <2>3, <2>4 DEF OnFill
<1>3. CASE UNCHANGED <<switches, owed>>
  BY <1>2, <1>3, SwitchesKept DEF GatesOK
<1>4. CASE Trip(s, "soft", "slippage") /\ owed' = owed \union {s}
  <2>1. KillInv' /\ switches'["global"] = switches["global"]
    BY <1>1, <1>4, TripKeepsKill
  <2> QED
    BY <1>1, <1>2, <1>4, <2>1 DEF GatesOK, Hard, Active
<1> QED
  BY <1>3, <1>4 DEF OnFill

(* The handlers' own work: an order is worked, a call of on_book ends, or the  *)
(* next order of a plan is placed.                                             *)
LEMMA WorkKeeps ==
  ASSUME RuntimeInv, Work
  PROVE  RuntimeInv'
<1>1. /\ EngineInv /\ CoreInv /\ TickInv /\ KillInv /\ QuotesOK /\ HandlerOK /\ GatesOK
      /\ HardHaltHoldsOnlyExits
  BY DEF RuntimeInv, EngineInv
<1>2. ASSUME tick.running PROVE tick.book.symbol \in Symbols
  BY <1>1, <1>2 DEF TickInv, BookTops
<1>3. CASE WorkQuote
  <2>1. /\ WorkOrder /\ OnFill(tick.book.symbol) /\ tick.running
        /\ UNCHANGED <<quotes, age, funding, handler, peak2>>
    BY <1>3 DEF WorkQuote, WorkOrder
  <2>2. CoreInv' /\ TickInv' /\ Len(orders') = Len(orders)
    BY <1>1, <2>1, WorkOrderKeepsCore
  <2>3. KeepsTerms /\ PendingIds' \subseteq PendingIds
    BY <1>1, <2>1, WorkKeepsTerms
  <2>4. peak2' \in Nat
    BY <1>1, <2>1 DEF GatesOK
  <2>5. KillInv' /\ GatesOK' /\ (Hard("global")' => Hard("global"))
    BY <1>1, <1>2, <2>1, <2>4, OnFillKeeps
  <2>6. QuotesOK' /\ HardHaltHoldsOnlyExits'
    BY <1>1, <2>1, <2>3, <2>5, QuotesKept, HaltKept
  <2>7. HandlerOK'
    BY <1>1, <2>1 DEF HandlerOK
  <2> QED
    BY <1>1, <2>2, <2>5, <2>6, <2>7 DEF RuntimeInv, EngineInv
<1>4. CASE LeaveQuote
  <2>1. /\ EndTick /\ OnFill(tick.book.symbol) /\ tick.running
        /\ UNCHANGED <<quotes, age, funding>> /\ handler' = [handler EXCEPT !.live = FALSE]
        /\ peak2' = IF handler.live /\ Equity2' > peak2 THEN Equity2' ELSE peak2
        /\ UNCHANGED <<orders, pending>>
    BY <1>4 DEF LeaveQuote, EndTick
  <2>2. CoreInv' /\ TickInv'
    BY <1>1, <2>1, EndTickKeepsCore
  <2>3. KeepsTerms /\ PendingIds' \subseteq PendingIds
    BY <2>1 DEF KeepsTerms, PendingIds
  <2>4. QuotesOK'
    BY <1>1, <2>1, <2>3, QuotesKept
  <2>5. peak2' \in Nat
    <3>1. Equity2' \in Int
      BY <2>2, <2>4, NextEquityIsInteger DEF CoreInv, AccountInv
    <3>2. peak2 \in Nat
      BY <1>1 DEF GatesOK
    <3> QED
      BY <2>1, <3>1, <3>2
  <2>6. KillInv' /\ GatesOK' /\ (Hard("global")' => Hard("global"))
    BY <1>1, <1>2, <2>1, <2>5, OnFillKeeps
  <2>7. HardHaltHoldsOnlyExits'
    BY <1>1, <2>3, <2>6, HaltKept
  <2>8. HandlerOK'
    BY <1>1, <2>1 DEF HandlerOK
  <2> QED
    BY <1>1, <2>1, <2>2, <2>4, <2>6, <2>7, <2>8 DEF RuntimeInv, EngineInv
<1>5. CASE PlaceNext
  <2>1. /\ ~tick.running /\ handler.next # << >> /\ Place(Head(handler.next))
        /\ handler' = [handler EXCEPT !.next = Tail(handler.next)]
        /\ UNCHANGED <<switches, quotes, age, funding, peak2, streak, owed>>
    BY <1>5 DEF PlaceNext
  <2> DEFINE next == handler.next
  <2>2. /\ next \in Seq(Tasks) /\ next # << >>
        /\ \A k \in DOMAIN next : IsNew(next[k].order)
    BY <1>1, <2>1 DEF HandlerOK
  <2> HIDE DEF next
  <2>3. IsNew(Head(next).order)
    <3>1. 1 \in DOMAIN next /\ Head(next) = next[1]
      BY <2>2
    <3> QED
      BY <2>2, <3>1
  <2>4. Tail(next) \in Seq(Tasks) /\ \A k \in DOMAIN Tail(next) : IsNew(Tail(next)[k].order)
    BY <2>2
  <2>5. EngineInv' /\ QuotesOK' /\ HardHaltHoldsOnlyExits'
    BY <2>1, <2>3, PlaceKeeps DEF next
  <2>6. HandlerOK'
    BY <1>1, <2>1, <2>4 DEF HandlerOK, next
  <2>7. KillInv' /\ GatesOK'
    BY <1>1, <2>1, SwitchesKept DEF GatesOK
  <2> QED
    BY <2>5, <2>6, <2>7 DEF RuntimeInv
<1> QED
  BY <1>3, <1>4, <1>5 DEF Work

(* Every step keeps the invariant. *)
LEMMA RuntimeStepKeeps ==
  ASSUME RuntimeInv, RuntimeNext
  PROVE  RuntimeInv'
<1>1. EngineInv /\ CoreInv /\ TickInv /\ QuotesOK /\ HandlerOK /\ GatesOK
      /\ HardHaltHoldsOnlyExits
  BY DEF RuntimeInv, EngineInv
<1>2. CASE Monitor
  <2>1. PICK volatile \in SUBSET Symbols : MonitorPass(volatile)
    BY <1>2 DEF Monitor
  <2> QED
    BY <2>1, MonitorKeeps
<1>3. CASE Time
  <2>1. /\ Elapse /\ Calm /\ UNCHANGED <<switches, gateVars, owed>> /\ quotes' = quotes
        /\ orders' = orders
    BY <1>3 DEF Time, AtRest, Calm, gateVars, Elapse
  <2>2. CoreInv' /\ TickInv' /\ PendingIds' = PendingIds
    BY <1>1, <2>1, AgingKeepsCore, CalmKeepsTick DEF Elapse
  <2>3. KeepsTerms
    BY <2>1 DEF KeepsTerms
  <2>4. QuotesOK' /\ HardHaltHoldsOnlyExits'
    BY <1>1, <2>1, <2>2, <2>3, QuotesKept, HaltKept, SwitchesKept DEF RuntimeInv
  <2> QED
    BY <1>1, <2>1, <2>2, <2>4, GatesKept DEF EngineInv
<1>4. CASE CoolDown
  <2>1. /\ UNCHANGED <<engineVars, switches, quotes, age, funding, handler, peak2, owed>>
        /\ streak' = [streak EXCEPT !.cooling = FALSE]
    BY <1>4 DEF CoolDown
  <2>2. HandlerOK' /\ GatesOK'
    BY <1>1, <2>1 DEF HandlerOK, GatesOK
  <2> QED
    BY <2>1, <2>2, OnlyGatesChange
<1> QED
  BY <1>2, <1>3, <1>4, ClientsKeep, PeopleKeep, MarketKeeps, WorkKeeps DEF RuntimeNext

\* The invariant of the runtime holds for every signal, request, book and
\* restart of the data.
THEOREM RuntimeInvariant == RuntimeSpec => []RuntimeInv
<1>1. ASSUME RuntimeInv, UNCHANGED runtimeVars PROVE RuntimeInv'
  <2>1. UNCHANGED <<engineVars, switches, gateVars, owed>> /\ quotes' = quotes
    BY <1>1 DEF runtimeVars, gateVars
  <2>2. HandlerOK' /\ GatesOK'
    BY <1>1, <2>1 DEF RuntimeInv, HandlerOK, GatesOK, gateVars
  <2> QED
    BY <1>1, <2>1, <2>2, OnlyGatesChange
<1>2. RuntimeInv /\ [RuntimeNext]_runtimeVars => RuntimeInv'
  BY <1>1, RuntimeStepKeeps
<1> QED
  BY RuntimeInitial, <1>2, PTL DEF RuntimeSpec

(* Type correctness of the runtime. *)
THEOREM RuntimeTypeCorrect == RuntimeSpec => []RuntimeTypeOK
<1>1. EngineInv => EngineTypeOK
  BY DEF EngineInv, CoreInv, AccountInv, QueueInv, AgesOK, GuardsOK, TickInv, EngineTypeOK
<1>2. RuntimeInv => RuntimeTypeOK
  BY <1>1 DEF RuntimeInv, KillInv, QuotesOK, HandlerOK, GatesOK, RuntimeTypeOK
<1> QED
  BY RuntimeInvariant, <1>2, PTL

(* While the global switch is hard, whoever or whatever tripped it, nothing    *)
(* works but the orders with which the engine flattens.                        *)
THEOREM HaltHoldsOnlyExits == RuntimeSpec => []HardHaltHoldsOnlyExits
<1>1. RuntimeInv => HardHaltHoldsOnlyExits
  BY DEF RuntimeInv
<1> QED
  BY RuntimeInvariant, <1>1, PTL

-----------------------------------------------------------------------------
(* The switches under the runtime.                                           *)

(* What a step of the runtime may do to one switch. *)
SwitchMoves(scope) ==
  LET before == switches[scope]
      after == switches'[scope]
  IN \/ after = before
     \/ \E cause : \E level \in Levels : after = Tripped(before, level, cause)
     \/ before.state = "tripped" /\ after = [before EXCEPT !.state = "acknowledged"]
     \/ before.state = "acknowledged" /\ after = Rearmed(before)
     \/ \E volatile : scope \in Symbols /\ after = AfterChecks(scope, volatile)

\* Every step of the runtime moves each switch in one of these ways, or
\* leaves it.
LEMMA RuntimeMovesSwitches ==
  ASSUME RuntimeInv, [RuntimeNext]_runtimeVars, NEW scope \in Scopes
  PROVE  SwitchMoves(scope)
<1>1. DOMAIN switches = Scopes /\ Symbols \subseteq Scopes
  BY RuntimeAssumption DEF RuntimeInv, KillInv, KillTypeOK
<1>2. ASSUME NEW s, NEW level \in Levels, NEW cause, Trip(s, level, cause)
      PROVE  SwitchMoves(scope)
  BY <1>1, <1>2 DEF Trip, SwitchMoves
<1>3. ASSUME NEW s, Acknowledge(s) \/ Rearm(s) PROVE SwitchMoves(scope)
  BY <1>1, <1>3 DEF Acknowledge, Rearm, SwitchMoves
<1>4. ASSUME UNCHANGED switches PROVE SwitchMoves(scope)
  BY <1>4 DEF SwitchMoves
<1>5. CASE Clients
  BY <1>4, <1>5 DEF Clients, CreateOrder, ClosePositionOf, CancelOrder, ProtectPosition
<1>6. CASE People
  <2>1. ASSUME NEW trip \in ManualTrips, TripByHand(trip[1], trip[2], trip[3])
        PROVE  SwitchMoves(scope)
    <3>1. trip[2] \in Levels
      BY RuntimeAssumption
    <3> QED
      BY <1>2, <2>1, <3>1 DEF TripByHand
  <2>2. ASSUME NEW s, AcknowledgeTrip(s) \/ RearmSwitch(s) PROVE SwitchMoves(scope)
    BY <1>3, <2>2 DEF AcknowledgeTrip, RearmSwitch
  <2> QED
    BY <1>6, <2>1, <2>2 DEF People
<1>7. CASE Monitor
  <2>1. PICK volatile : MonitorPass(volatile)
    BY <1>7 DEF Monitor
  <2>2. switches'[scope] =
          CASE scope \in Symbols -> AfterChecks(scope, volatile)
            [] scope = "global" /\ Lossy -> Tripped(switches[scope], "hard", "loss")
            [] OTHER -> switches[scope]
    BY <2>1 DEF MonitorPass
  <2>3. "global" \notin Symbols /\ "hard" \in Levels
    BY RuntimeAssumption DEF Levels
  <2>4. CASE scope \in Symbols
    <3>1. switches'[scope] = AfterChecks(scope, volatile)
      BY <2>2, <2>3, <2>4
    <3> QED
      BY <2>4, <3>1 DEF SwitchMoves
  <2>5. CASE scope \notin Symbols
    <3>1. \/ switches'[scope] = Tripped(switches[scope], "hard", "loss")
          \/ switches'[scope] = switches[scope]
      BY <2>2, <2>5
    <3> QED
      BY <2>3, <3>1 DEF SwitchMoves
  <2> QED
    BY <2>4, <2>5
<1>8. CASE Market
  BY <1>4, <1>8 DEF Market, BookArrives, TickerArrives, Silence, Autotrade
<1>9. CASE Work
  <2>1. ASSUME NEW s, OnFill(s) PROVE SwitchMoves(scope)
    <3>1. "soft" \in Levels
      BY DEF Levels
    <3> QED
      BY <1>2, <1>4, <2>1, <3>1 DEF OnFill
  <2> QED
    BY <1>4, <1>9, <2>1 DEF Work, WorkQuote, LeaveQuote, PlaceNext
<1>10. CASE Time \/ CoolDown \/ UNCHANGED runtimeVars
  BY <1>4, <1>10 DEF Time, CoolDown, runtimeVars
<1> QED
  BY <1>5, <1>6, <1>7, <1>8, <1>9, <1>10 DEF RuntimeNext

(* A trip leaves no switch armed. *)
LEMMA TripDisarmsNothing ==
  \A w, level, cause : Tripped(w, level, cause).state # "armed"
  BY DEF Tripped, TripTakesEffect

(* A pass of the monitor arms a switch only by clearing a trip whose reason    *)
(* speaks of dead data.                                                        *)
LEMMA ChecksClearOnlyStale ==
  ASSUME NEW s, NEW volatile, switches[s].state # "armed",
         AfterChecks(s, volatile).state = "armed"
  PROVE  age[s] = "fresh" /\ Recovers(switches[s])
<1>1. AfterChecks(s, volatile) = AfterVolatility(s, volatile)
  BY TripDisarmsNothing DEF AfterChecks
<1>2. AfterVolatility(s, volatile) = AfterData(s)
  BY <1>1, TripDisarmsNothing DEF AfterVolatility
<1>3. AfterData(s).state = "armed"
  BY <1>1, <1>2
<1>4. age[s] # "dead"
  BY <1>3, TripDisarmsNothing DEF AfterData
<1> QED
  BY <1>3, <1>4 DEF AfterData

(* The system itself takes back only a soft trip of a symbol whose reason      *)
(* speaks of dead data, its own or a person's, and only when the data are      *)
(* fresh; a person takes back what a person has acknowledged.                  *)
THEOREM OnlyDataClears == RuntimeSpec => OnlyDataTripsClear
<1>1. ASSUME RuntimeInv, [RuntimeNext]_runtimeVars, NEW scope \in Scopes,
             switches[scope].state # "armed", switches'[scope].state = "armed"
      PROVE  \/ switches[scope].state = "acknowledged"
             \/ /\ switches[scope].cause \in MentionsData /\ switches[scope].level = "soft"
                /\ scope \in Symbols /\ age[scope] = "fresh"
  <2>1. SwitchMoves(scope)
    BY <1>1, RuntimeMovesSwitches
  <2>2. ASSUME NEW volatile, scope \in Symbols, switches'[scope] = AfterChecks(scope, volatile)
        PROVE  age[scope] = "fresh" /\ Recovers(switches[scope])
    BY <1>1, <2>2, ChecksClearOnlyStale
  <2>3. ASSUME switches'[scope] = [switches[scope] EXCEPT !.state = "acknowledged"] PROVE FALSE
    <3>1. GoodSwitch(switches[scope])
      BY <1>1, SwitchesAreGood DEF RuntimeInv
    <3> QED
      BY <1>1, <2>3, <3>1 DEF GoodSwitch, Switches
  <2> QED
    BY <1>1, <2>1, <2>2, <2>3, TripDisarmsNothing DEF SwitchMoves, Recovers, Clearable
<1>2. RuntimeInv /\ [RuntimeNext]_runtimeVars
        => [\A scope \in Scopes :
              switches[scope].state # "armed" /\ switches'[scope].state = "armed" =>
                \/ switches[scope].state = "acknowledged"
                \/ /\ switches[scope].cause \in MentionsData /\ switches[scope].level = "soft"
                   /\ scope \in Symbols /\ age[scope] = "fresh"]_runtimeVars
  BY <1>1
<1> QED
  BY RuntimeInvariant, <1>2, PTL DEF RuntimeSpec, OnlyDataTripsClear

-----------------------------------------------------------------------------
(* The engine inside the runtime: gates, handlers, quotes shown again and      *)
(* trips that flatten have no effects on it but its own.                       *)

\* An order that the gates let through has an effect of the engine.
LEMMA PlaceHasEffect ==
  ASSUME RuntimeInv, ~tick.running, NEW task, IsNew(task.order), Place(task)
  PROVE  EngineEffect
<1>1. CASE Passes(task)
  <2>1. Submit(task.order)
    BY <1>1 DEF Place
  <2>2. Arrival(<<task.order>>, {})
    BY <2>1, SubmitIsArrival DEF RuntimeInv, EngineInv, CoreInv, QueueInv
  <2> QED
    BY <2>1, <2>2 DEF EngineEffect, Submit
<1>2. CASE ~Passes(task)
  BY <1>2 DEF Place, EngineEffect, engineVars, bookVars, PendingIds
<1> QED
  BY <1>1, <1>2

\* So has the flattening that a hard trip causes, and a trip that flattens
\* nothing.
LEMMA OnTripHasEffect ==
  ASSUME RuntimeInv, ~tick.running, NEW scope, NEW level, OnTrip(scope, level)
  PROVE  EngineEffect
<1>1. CASE FlattenAll
  BY <1>1, FlattenIsArrival DEF RuntimeInv, EngineInv, CoreInv, EngineEffect, FlattenAll, AccountInv
<1>2. CASE UNCHANGED engineVars
  BY <1>2 DEF EngineEffect, engineVars, bookVars, PendingIds
<1> QED
  BY <1>1, <1>2 DEF OnTrip

\* Every step of the runtime does to the engine what a step may do to it.
LEMMA RuntimeStepEffect == RuntimeInv /\ [RuntimeNext]_runtimeVars => EngineEffect
<1> SUFFICES ASSUME RuntimeInv, [RuntimeNext]_runtimeVars PROVE EngineEffect
  OBVIOUS
<1>1. EngineInv /\ CoreInv /\ HandlerOK
  BY DEF RuntimeInv, EngineInv
<1>2. ASSUME UNCHANGED engineVars PROVE EngineEffect
  BY <1>2 DEF EngineEffect, engineVars, bookVars, PendingIds
<1>3. CASE Clients
  <2>1. ASSUME NEW order \in Requests, CreateOrder(order) PROVE EngineEffect
    <3>1. IsNew(Manual(order).order)
      BY RequestAssumption DEF Manual
    <3> QED
      BY <2>1, <3>1, PlaceHasEffect DEF CreateOrder, AtRest
  <2>2. ASSUME NEW s \in Symbols, ClosePositionOf(s) PROVE EngineEffect
    <3>1. IsNew(Exit(s, "manual").order)
      BY <1>1, ExitOrderIsNew DEF Exit, Sources, CoreInv, AccountInv
    <3> QED
      BY <2>2, <3>1, PlaceHasEffect DEF ClosePositionOf, AtRest
  <2>3. ASSUME NEW id, CancelOrder(id) PROVE EngineEffect
    BY <1>1, <2>3, CancelIsArrival DEF CancelOrder, AtRest, EngineEffect, Cancel, CoreInv, QueueInv
  <2>4. ASSUME NEW s, NEW stop, NEW target, ProtectPosition(s, stop, target) PROVE EngineEffect
    BY <2>4 DEF ProtectPosition, Protect, EngineEffect, PendingIds
  <2> QED
    BY <1>3, <2>1, <2>2, <2>3, <2>4 DEF Clients
<1>4. CASE People
  BY <1>2, <1>4, OnTripHasEffect DEF People, TripByHand, AcknowledgeTrip, RearmSwitch, AtRest
<1>5. CASE Monitor
  BY <1>2, <1>5, OnTripHasEffect DEF Monitor, MonitorPass, AtRest
<1>6. CASE Market
  <2>1. ASSUME NEW book, BookArrives(book) PROVE EngineEffect
    BY <2>1 DEF BookArrives, AtRest, OnBook, EngineEffect, PendingIds
  <2> QED
    BY <1>2, <1>6, <2>1 DEF Market, TickerArrives, Silence, Autotrade
<1>7. CASE Work
  <2>1. CASE PlaceNext
    <3> DEFINE next == handler.next
    <3>1. next \in Seq(Tasks) /\ next # << >> /\ \A k \in DOMAIN next : IsNew(next[k].order)
      BY <1>1, <2>1 DEF HandlerOK, PlaceNext
    <3>2. ~tick.running /\ Place(Head(next))
      BY <2>1 DEF PlaceNext
    <3> HIDE DEF next
    <3>3. 1 \in DOMAIN next /\ Head(next) = next[1]
      BY <3>1
    <3> QED
      BY <3>1, <3>2, <3>3, PlaceHasEffect
  <2> QED
    BY <1>7, <2>1 DEF Work, WorkQuote, LeaveQuote, EngineEffect
<1>8. CASE Time
  BY <1>8 DEF Time, Elapse, EngineEffect, PendingIds
<1>9. CASE CoolDown \/ UNCHANGED runtimeVars
  BY <1>2, <1>9 DEF CoolDown, runtimeVars
<1> QED
  BY <1>3, <1>4, <1>5, <1>6, <1>7, <1>8, <1>9 DEF RuntimeNext

(* The invariant of the engine, under the runtime. *)
LEMMA RuntimeKeepsEngine == RuntimeSpec => []EngineInv
<1>1. RuntimeInv => EngineInv
  BY DEF RuntimeInv
<1> QED
  BY RuntimeInvariant, <1>1, PTL

(* Whatever the gates let through, autotrading places and the switches         *)
(* flatten, the balance is what the account has booked.                        *)
THEOREM RuntimeBalanceIsBooked == RuntimeSpec => []BalanceIsBookedPnl
<1>1. RuntimeInit => BalanceIsBookedPnl
  BY BalanceInitial DEF RuntimeInit, EngineInit
<1>2. RuntimeInv /\ EngineInv /\ BalanceIsBookedPnl /\ [RuntimeNext]_runtimeVars
        => BalanceIsBookedPnl'
  BY RuntimeStepEffect, EffectKeepsBalance
<1> QED
  BY RuntimeInvariant, RuntimeKeepsEngine, <1>1, <1>2, PTL DEF RuntimeSpec

(* No fill of the runtime is lost, doubled or booked for another symbol. *)
THEOREM RuntimeFillsAreBooked == RuntimeSpec => []FillsAreAccounted
<1>1. RuntimeInit => FillsAreAccounted
  BY NothingFilled DEF RuntimeInit
<1>2. RuntimeInv /\ EngineInv /\ FillsAreAccounted /\ [RuntimeNext]_runtimeVars
        => FillsAreAccounted'
  BY RuntimeStepEffect, EffectAccounted
<1> QED
  BY RuntimeInvariant, RuntimeKeepsEngine, <1>1, <1>2, PTL DEF RuntimeSpec

(* A quote that is shown again, an exit that a trip submits and an entry that  *)
(* waits for its latency are all part of one life per order.                   *)
THEOREM RuntimeRefinesOrderLife == RuntimeSpec => EngineImplementsOrderLife
<1>1. RuntimeInit => Life!LifeInit
  BY LifeInitial DEF RuntimeInit
<1>2. RuntimeInv /\ EngineInv /\ [RuntimeNext]_runtimeVars /\ EngineInv'
        => [Life!LifeNext]_(Life!lifeVars)
  BY RuntimeStepEffect, EffectIsLife
<1> QED
  BY RuntimeInvariant, RuntimeKeepsEngine, <1>1, <1>2, PTL
     DEF RuntimeSpec, EngineImplementsOrderLife, Life!LifeSpec

(* Every call of on_book, of the market or of a placed order, leaves what it   *)
(* leaves open inside its protections.                                         *)
THEOREM RuntimeProtectionsHold == RuntimeSpec => NoSnapshotLeavesBreach
<1>1. RuntimeInv /\ EngineInv /\ [RuntimeNext]_runtimeVars
        => [tick.running /\ ~tick'.running =>
              LET s == tick.book.symbol
              IN IsOpen(positions'[s]) =>
                   InsideProtections(positions'[s], protect'[s], Mid2(tick.book))]_engineVars
  BY RuntimeStepEffect, EffectLeavesNoBreach
<1> QED
  BY RuntimeInvariant, RuntimeKeepsEngine, <1>1, PTL DEF RuntimeSpec, NoSnapshotLeavesBreach

(* Every fill under the runtime pays at least the touch of the book that was   *)
(* shown and honours the limit of its order, fees apart.                       *)
THEOREM RuntimeFillsArePriced ==
  ASSUME SensibleFees
  PROVE  RuntimeSpec => FillsHonourBookAndLimit
<1>1. RuntimeInv /\ EngineInv /\ [RuntimeNext]_runtimeVars
        => [\A i \in DOMAIN orders : FillHonours(i)]_engineVars
  BY RuntimeStepEffect, EffectIsPriced
<1> QED
  BY RuntimeInvariant, RuntimeKeepsEngine, <1>1, PTL
     DEF RuntimeSpec, FillsHonourBookAndLimit, FillHonours
=============================================================================
