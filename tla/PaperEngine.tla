---------------------------- MODULE PaperEngine ----------------------------
(***************************************************************************)
(* The paper execution engine: orders wait out the simulated wire latency, *)
(* are worked against every snapshot of their symbol, and the stop-loss    *)
(* and take-profit of a position are checked at the end of each snapshot.  *)
(* Source: backend/app/services/paper_engine/engine.py, over the account   *)
(* (PaperAccount) and the fill simulator (FillSimulator); the protection   *)
(* endpoint of api/routes.py.                                              *)
(*                                                                         *)
(* on_book runs without an await, so nothing else of the process happens   *)
(* while it does.  It is one action for its beginning, one for each order  *)
(* it works and one for its end; every other action waits for it to end.   *)
(*                                                                         *)
(* Time is relative: a pending order carries its age in latency units and  *)
(* a snapshot carries how long ago the exchange stamped it (lag), so that  *)
(* book.ts_ms >= submitted_ts_ms + latency_ms reads age >= Latency + lag.  *)
(***************************************************************************)
EXTENDS PaperAccount, FillSimulator, SequencesExt

CONSTANTS Requests,      \* the orders that clients may submit, status "new"
          Books,         \* the snapshots that the market may show
          ProtectPrices, \* prices a client may set as stop-loss or target
          Latency,       \* FillConfig.latency_ms
          MaxLag,        \* bound: the oldest stamp of a snapshot
          MaxOrders      \* bound: orders of one behaviour

\* An order and a snapshot, as Order and BookTop of models.py make them.
Orders == [symbol : Symbols, side : Sides, type : OrderTypes, qty : Nat,
           price : Nat, trigger : Nat, trail : Nat, reduceOnly : BOOLEAN,
           tif : TimesInForce, stopLoss : Nat, takeProfit : Nat,
           source : {"manual", "signal", "kill_switch", "risk_engine"},
           status : OrderStatuses, filled : Nat, extreme : Nat, rested : BOOLEAN]
IsNew(order) == order \in Orders /\ order.status = "new" /\ order.filled = 0
BookTops == [symbol : Symbols, bid : Nat \ {0}, ask : Nat \ {0},
             bidQty : Nat, askQty : Nat, lag : Nat]

ASSUME EngineAssumption == /\ Latency \in Nat /\ MaxLag \in Nat /\ MaxOrders \in Nat
                           /\ ProtectPrices \subseteq Nat \ {NoPrice}
ASSUME RequestAssumption == \A order \in Requests : IsNew(order)
ASSUME BookAssumption == Books \subseteq BookTops

VARIABLES orders,   \* every order ever submitted; an order's id is its index
          pending,  \* _pending: the age of each working order, by id
          protect,  \* Position.stop_loss and take_profit of each symbol
          tick,     \* the call of on_book in progress
          exits     \* ghost: signed sum of the protections' exits

bookVars == <<orders, pending, protect, tick, exits>>
engineVars == <<accountVars, bookVars>>

NoProtection == [stopLoss |-> NoPrice, takeProfit |-> NoPrice]
NoBook == [symbol |-> "none", bid |-> 0, ask |-> 0, bidQty |-> 0, askQty |-> 0,
           lag |-> 0]
Quiet == [running |-> FALSE, book |-> NoBook, todo |-> {}]
MaxAge == Latency + MaxLag

\* An order as the Order dataclass makes it when only these fields are given.
BlankOrder(symbol, side, type, qty) ==
  [symbol |-> symbol, side |-> side, type |-> type, qty |-> qty,
   price |-> NoPrice, trigger |-> NoPrice, trail |-> 0,
   reduceOnly |-> FALSE, tif |-> "gtc",
   stopLoss |-> NoPrice, takeProfit |-> NoPrice, source |-> "manual",
   status |-> "new", filled |-> 0, extreme |-> NoPrice, rested |-> FALSE]

ExitOrder(symbol, source) ==
  [BlankOrder(symbol, Opposite(positions[symbol].side), "market",
              positions[symbol].qty) EXCEPT !.reduceOnly = TRUE, !.source = source]

PendingIds == DOMAIN pending
Without(ids) == Restrict(pending, PendingIds \ ids)
With(ids) == [i \in PendingIds \union ids |-> IF i \in ids THEN 0 ELSE pending[i]]

-----------------------------------------------------------------------------
\* submit, cancel, cancel_all, flatten_all, protect

Reducible(order) ==
  /\ IsOpen(positions[order.symbol])
  /\ positions[order.symbol].side # order.side
  /\ positions[order.symbol].qty >= order.qty

Admissible(order) == order.qty > 0 /\ (order.reduceOnly => Reducible(order))

\* What submit makes of a sequence of new orders, and the ids of those of them
\* that were accepted.  Ids grow, so the order of ids is the insertion order.
AfterSubmit(batch) ==
  [i \in DOMAIN batch |->
     [batch[i] EXCEPT !.status = IF Admissible(batch[i]) THEN "accepted" ELSE "rejected"]]
\* Bug: the ids of a batch start one too low.
AcceptedIdsFromZero(batch) ==
  {Len(orders) + i - 1 : i \in {j \in DOMAIN batch : Admissible(batch[j])}}
AcceptedIds(batch) ==
  {Len(orders) + i : i \in {j \in DOMAIN batch : Admissible(batch[j])}}

Submit(order) ==
  /\ Len(orders) < MaxOrders
  /\ orders' = orders \o AfterSubmit(<<order>>)
  /\ pending' = With(AcceptedIds(<<order>>))
  /\ UNCHANGED <<accountVars, protect, exits>>

\* Bug: a cancelled order leaves the queue without a new status.
CancelledSilently(ids) == orders
\* Bug: cancelling reaches orders that have already ended.
CancelledWithHistory(ids) ==
  [i \in DOMAIN orders |-> [orders[i] EXCEPT !.status = "cancelled"]]
Cancelled(ids) ==
  [i \in DOMAIN orders |->
     IF i \in ids THEN [orders[i] EXCEPT !.status = "cancelled"] ELSE orders[i]]

Cancel(id) ==
  /\ id \in PendingIds
  /\ orders' = Cancelled({id})
  /\ pending' = Without({id})
  /\ UNCHANGED <<accountVars, protect, exits>>

\* Everything pending is cancelled, and one reduce-only market order for the
\* whole of each open position takes its place.
OpenSymbols == {s \in Symbols : IsOpen(positions[s])}
ExitOrders(source) ==
  LET open == SetToSeq(OpenSymbols)
  IN [i \in DOMAIN open |-> ExitOrder(open[i], source)]

FlattenAll ==
  LET batch == ExitOrders("kill_switch")
  IN /\ Len(orders) + Len(batch) <= MaxOrders
     /\ orders' = Cancelled(PendingIds) \o AfterSubmit(batch)
     /\ pending' = [i \in AcceptedIds(batch) |-> 0]
     /\ UNCHANGED <<accountVars, protect, exits>>

\* POST /positions/{symbol}/protect: each price that is given replaces its own.
Amended(old, stopLoss, takeProfit) ==
  [stopLoss |-> IF stopLoss # NoPrice THEN stopLoss ELSE old.stopLoss,
   takeProfit |-> IF takeProfit # NoPrice THEN takeProfit ELSE old.takeProfit]

Protect(symbol, stopLoss, takeProfit) ==
  /\ IsOpen(positions[symbol])
  /\ protect' = [protect EXCEPT ![symbol] = Amended(@, stopLoss, takeProfit)]
  /\ UNCHANGED <<accountVars, orders, pending, exits>>

-----------------------------------------------------------------------------
\* on_book

\* The pending orders this snapshot may interact with.  Neither their symbol
\* nor their age changes while on_book runs, so they can be listed at once.
\* Bug: an order does not wait for its latency.
EligibleAtOnce(queue, known, book) ==
  {i \in DOMAIN queue : known[i].symbol = book.symbol}
\* Bug: an order misses the first snapshot after its latency.
EligibleLate(queue, known, book) ==
  {i \in DOMAIN queue : known[i].symbol = book.symbol /\ queue[i] > Latency + book.lag}
Eligible(queue, known, book) ==
  {i \in DOMAIN queue : known[i].symbol = book.symbol /\ queue[i] >= Latency + book.lag}

Running(book) == [running |-> TRUE, book |-> book,
                  todo |-> Eligible(pending, orders, book)]

OnBook(book) ==
  /\ tick' = Running(book)
  /\ UNCHANGED <<accountVars, orders, pending, protect, exits>>

\* _settle: the account books the fill, then the protections that travel with
\* the order are attached to the position it left on its own side.
BookFill(order, fill) ==
  LET s == order.symbol
      kept == IF IsOpen(positions[s]) /\ IsOpen(positions'[s])
                   /\ positions[s].side = positions'[s].side
              THEN protect[s] ELSE NoProtection
      attaches == IsOpen(positions'[s]) /\ positions'[s].side = order.side
  IN /\ ApplyFill([symbol |-> s, side |-> order.side, qty |-> fill.qty,
                   price |-> fill.price, fee |-> fill.fee])
     /\ protect' = [protect EXCEPT ![s] =
                      IF attaches THEN Amended(kept, order.stopLoss, order.takeProfit)
                                  ELSE kept]

WorkOrder ==
  LET id == Min(tick.todo)
      result == TryFill(orders[id], tick.book)
      settled == [result.order EXCEPT !.status = result.status]
  IN /\ tick.running /\ tick.todo # {}
     /\ orders' = [orders EXCEPT ![id] = settled]
     /\ pending' = IF IsTerminal(settled) THEN Without({id}) ELSE pending
     /\ IF HasFill(result) THEN BookFill(orders[id], result.fill)
                           ELSE UNCHANGED <<accountVars, protect>>
     /\ tick' = [tick EXCEPT !.todo = @ \ {id}]
     /\ UNCHANGED exits

\* The mid is at or through the stop-loss or the target of the position.
\* Bug: a stop-loss at the mid does not count.
BreachedBeyond(pos, protection, book) ==
  /\ IsOpen(pos) /\ protection.stopLoss # NoPrice
  /\ IF pos.side = "buy" THEN Mid2(book) < 2 * protection.stopLoss
                          ELSE Mid2(book) > 2 * protection.stopLoss
Breached(pos, protection, book) ==
  LET through(level, above) ==
        /\ level # NoPrice
        /\ IF above THEN Mid2(book) >= 2 * level ELSE Mid2(book) <= 2 * level
      long == pos.side = "buy"
  IN IsOpen(pos) /\ (through(protection.stopLoss, ~long)
                     \/ through(protection.takeProfit, long))

\* _check_protections: a breached protection sells or buys back the whole
\* position on this very snapshot; on_book returns.
EndTick ==
  LET s == tick.book.symbol
      order == [ExitOrder(s, "risk_engine") EXCEPT !.status = "triggered"]
      fill == TryFill(order, tick.book).fill
  IN /\ tick.running /\ tick.todo = {}
     /\ tick' = Quiet
     /\ IF Breached(positions[s], protect[s], tick.book)
        THEN /\ BookFill(order, fill)
             /\ exits' = [exits EXCEPT ![s] = @ + Sign(order.side) * fill.qty]
        ELSE UNCHANGED <<accountVars, protect, exits>>
     /\ UNCHANGED <<orders, pending>>

\* One unit of latency passes for every pending order.
Older(age) == IF age < MaxAge THEN age + 1 ELSE age

Elapse ==
  /\ pending' = [i \in PendingIds |-> Older(pending[i])] /\ pending' # pending
  /\ UNCHANGED <<accountVars, orders, protect, exits>>

-----------------------------------------------------------------------------
EngineInit ==
  /\ AccountInit
  /\ orders = << >>
  /\ pending = << >>
  /\ protect = [s \in Symbols |-> NoProtection]
  /\ tick = Quiet
  /\ exits = [s \in Symbols |-> 0]

\* Clients, the clock and the market act only between two calls of on_book.
Calm == ~tick.running /\ UNCHANGED tick

EngineNext ==
  \/ \E order \in Requests : Calm /\ Submit(order)
  \/ \E id \in PendingIds : Calm /\ Cancel(id)
  \/ Calm /\ FlattenAll
  \/ \E s \in Symbols, stop, target \in ProtectPrices \union {NoPrice} :
       Calm /\ Protect(s, stop, target)
  \/ Calm /\ Elapse
  \/ \E book \in Books : ~tick.running /\ OnBook(book)
  \/ WorkOrder
  \/ EndTick

EngineSpec == EngineInit /\ [][EngineNext]_engineVars

-----------------------------------------------------------------------------
\* What the engine promises

EngineTypeOK ==
  /\ AccountTypeOK
  /\ orders \in Seq(Orders)
  /\ PendingIds \subseteq DOMAIN orders
  /\ \A i \in PendingIds : pending[i] \in 0 .. MaxAge
  /\ protect \in [Symbols -> [stopLoss : Nat, takeProfit : Nat]]
  /\ tick.running \in BOOLEAN /\ tick.todo \subseteq DOMAIN orders
  /\ exits \in [Symbols -> Int]

\* An order is working exactly until its status is terminal: no order is
\* dropped while it is live, and none can trade after its end.
PendingAreLive ==
  \A i \in DOMAIN orders : i \in PendingIds <=> ~IsTerminal(orders[i])

\* Without a restart no order trades more than its quantity, and it is filled
\* exactly when all of its quantity has traded.
NoOverfill ==
  \A i \in DOMAIN orders :
     /\ orders[i].filled <= orders[i].qty
     /\ orders[i].status = "filled" <=> orders[i].filled = orders[i].qty /\ orders[i].qty > 0

\* What the orders of a symbol have filled, and what its protections have
\* exited, is what the account has booked for it.
FilledOf(s) ==
  LET mine == {i \in DOMAIN orders : orders[i].symbol = s}
      signed(i) == Sign(orders[i].side) * orders[i].filled
  IN MapThenSumSet(signed, mine)
FillsAreAccounted == \A s \in Symbols : FilledOf(s) + exits[s] = net[s]

\* Seen by a client that lists its orders, an order arrives once, trades while
\* it is working and ends once: nothing that is cancelled, flattened or filled in
\* the same snapshot reaches it after its end, it never trades more than it has
\* left, and it is filled exactly by the trade that leaves nothing.
Life == INSTANCE OrderLife WITH
  Ids <- 1 .. MaxOrders,
  working <- [i \in PendingIds |-> [traded |-> orders[i].filled, left |-> Remaining(orders[i])]],
  ended <- [i \in DOMAIN orders \ PendingIds |->
              [how |-> orders[i].status, traded |-> orders[i].filled]]
EngineImplementsOrderLife == Life!LifeSpec

\* No snapshot leaves a position open whose stop-loss or target it has passed,
\* not even one that the snapshot itself opened, flipped or protected.
InsideProtections(pos, protection, mid2) ==
  LET low == IF pos.side = "buy" THEN protection.stopLoss ELSE protection.takeProfit
      high == IF pos.side = "buy" THEN protection.takeProfit ELSE protection.stopLoss
  IN /\ low # NoPrice => mid2 > 2 * low
     /\ high # NoPrice => mid2 < 2 * high
NoSnapshotLeavesBreach ==
  [][tick.running /\ ~tick'.running =>
       LET s == tick.book.symbol
       IN IsOpen(positions'[s]) =>
            InsideProtections(positions'[s], protect'[s], Mid2(tick.book))]_engineVars

\* The price of every fill, read off the cash it moved, is no better than the
\* touch of the snapshot and honours the limit of the order.
FillsHonourBookAndLimit ==
  [][\A i \in DOMAIN orders :
       LET order == orders[i]
           qty == orders'[i].filled - order.filled
           s == order.symbol
           gross == cash[s] - cash'[s]
           touch == Touch(order.side, tick.book)
       IN qty > 0 =>
            IF order.side = "buy"
            THEN /\ gross >= touch * qty
                 /\ order.type \in {"limit", "stop_limit"} =>
                      gross <= order.price * qty + MakeFill(qty, order.price, "taker").fee
            ELSE /\ -gross <= touch * qty
                 /\ order.type \in {"limit", "stop_limit"} =>
                      -gross >= order.price * qty
                                - MakeFill(qty, touch, "taker").fee]_engineVars
=============================================================================
