-------------------------- MODULE PaperEngineProofs --------------------------
(***************************************************************************)
(* Theorems about PaperEngine, for every set of symbols, requests and      *)
(* books, every latency and every fill configuration.                      *)
(*                                                                         *)
(* EngineInv is the inductive invariant: the account, the queue, the ages  *)
(* and the protections (CoreInv), the call of on_book in progress          *)
(* (TickInv) and the bound on the orders.  EngineEffect says what a step   *)
(* may do to the engine, whoever takes it; the results about fills,        *)
(* balances, protections and the life of an order are proved of such a     *)
(* step, so that they hold of the engine inside the trading runtime and    *)
(* inside a backtest as well.                                              *)
(***************************************************************************)
EXTENDS PaperEngine, RiskLimits, PaperAccountProofs, SequenceTheorems, FiniteSetTheorems,
        WellFoundedInduction

(* What never changes about an order. *)
SameTerms(a, b) ==
  /\ a.symbol = b.symbol /\ a.side = b.side /\ a.type = b.type /\ a.qty = b.qty
  /\ a.price = b.price /\ a.trigger = b.trigger /\ a.trail = b.trail
  /\ a.reduceOnly = b.reduceOnly /\ a.tif = b.tif /\ a.source = b.source
  /\ a.stopLoss = b.stopLoss /\ a.takeProfit = b.takeProfit

\* The fields of an order have their types.
LEMMA OrderFields ==
  ASSUME NEW o \in Orders
  PROVE  /\ o.symbol \in Symbols /\ o.side \in Sides /\ o.type \in OrderTypes
         /\ o.qty \in Nat /\ o.price \in Nat /\ o.trigger \in Nat /\ o.trail \in Nat
         /\ o.reduceOnly \in BOOLEAN /\ o.tif \in TimesInForce
         /\ o.stopLoss \in Nat /\ o.takeProfit \in Nat
         /\ o.source \in {"manual", "signal", "kill_switch", "risk_engine"}
         /\ o.status \in OrderStatuses /\ o.filled \in Nat /\ o.extreme \in Nat
         /\ o.rested \in BOOLEAN
  BY DEF Orders

\* The fields that the engine writes of an order leave its terms alone.
LEMMA OrderUpdates ==
  ASSUME NEW o \in Orders
  PROVE  /\ \A st \in OrderStatuses :
              LET u == [o EXCEPT !.status = st]
              IN /\ u \in Orders /\ SameTerms(u, o) /\ u.status = st
                 /\ u.filled = o.filled /\ u.extreme = o.extreme /\ u.rested = o.rested
         /\ \A n \in Nat :
              LET u == [o EXCEPT !.filled = n]
              IN /\ u \in Orders /\ SameTerms(u, o) /\ u.filled = n
                 /\ u.status = o.status /\ u.extreme = o.extreme /\ u.rested = o.rested
         /\ \A n \in Nat :
              LET u == [o EXCEPT !.extreme = n]
              IN /\ u \in Orders /\ SameTerms(u, o) /\ u.extreme = n
                 /\ u.status = o.status /\ u.filled = o.filled /\ u.rested = o.rested
         /\ LET u == [o EXCEPT !.rested = TRUE]
            IN /\ u \in Orders /\ SameTerms(u, o) /\ u.rested = TRUE
               /\ u.status = o.status /\ u.filled = o.filled /\ u.extreme = o.extreme
<1>1. ASSUME NEW st \in OrderStatuses PROVE
              LET u == [o EXCEPT !.status = st]
              IN /\ u \in Orders /\ SameTerms(u, o) /\ u.status = st
                 /\ u.filled = o.filled /\ u.extreme = o.extreme /\ u.rested = o.rested
  BY DEF Orders, SameTerms
<1>2. ASSUME NEW n \in Nat PROVE 
              LET u == [o EXCEPT !.filled = n]
              IN /\ u \in Orders /\ SameTerms(u, o) /\ u.filled = n
                 /\ u.status = o.status /\ u.extreme = o.extreme /\ u.rested = o.rested
  BY DEF Orders, SameTerms
<1>3. ASSUME NEW n \in Nat PROVE 
              LET u == [o EXCEPT !.extreme = n]
              IN /\ u \in Orders /\ SameTerms(u, o) /\ u.extreme = n
                 /\ u.status = o.status /\ u.filled = o.filled /\ u.rested = o.rested
  BY DEF Orders, SameTerms
<1>4. LET u == [o EXCEPT !.rested = TRUE]
            IN /\ u \in Orders /\ SameTerms(u, o) /\ u.rested = TRUE
               /\ u.status = o.status /\ u.filled = o.filled /\ u.extreme = o.extreme
  BY DEF Orders, SameTerms
<1> QED
  BY <1>1, <1>2, <1>3, <1>4

-----------------------------------------------------------------------------
(* The fill simulator: what a snapshot may do to one working order.          *)

(* A working order, as on_book finds it. *)
Working(order) ==
  /\ order \in Orders /\ ~IsTerminal(order) /\ order.filled < order.qty
  /\ order.tif = "post_only" => order.filled = 0

(* What every path through try_fill hands back. *)
Worked(order, result) ==
  /\ result.order \in Orders /\ SameTerms(result.order, order)
  /\ result.status \in {"accepted", "partially_filled", "filled", "cancelled", "rejected"}
  /\ result.fill.qty \in Nat /\ result.fill.price \in Int /\ result.fill.fee \in Int
  /\ result.order.filled = order.filled + result.fill.qty
  /\ result.order.filled <= order.qty
  /\ result.status = "filled" <=> result.order.filled = order.qty
  /\ result.status \in {"cancelled", "rejected"} => result.fill.qty = 0
  /\ result.status = "rejected" => order.filled = 0
  /\ result.status # "filled" /\ order.tif = "post_only" => result.fill.qty = 0

\* Rounding down leaves a natural quotient.
LEMMA QuotientIsNatural ==
  ASSUME NEW x \in Nat, NEW d \in Nat \ {0}
  PROVE  x \div d \in Nat
  OBVIOUS

\* The fields of a snapshot, and what is read off them, are natural numbers.
LEMMA BookFields ==
  ASSUME NEW book \in BookTops, NEW side \in Sides
  PROVE  /\ book.symbol \in Symbols /\ book.bid \in Nat /\ book.ask \in Nat
         /\ Mid2(book) \in Nat /\ Touch(side, book) \in Nat
         /\ Displayed(side, book) \in Nat
  BY DEF BookTops, Mid2, Touch, Displayed

\* Slippage moves the price by a natural number of ticks.
LEMMA AdjustmentIsNatural ==
  ASSUME NEW touch \in Nat, NEW qty \in Nat, NEW displayed \in Nat
  PROVE  Adjustment(touch, qty, displayed) \in Nat
<1>1. /\ SlippageBps \in Nat /\ ImpactBpsPerLevel \in Nat /\ Bps \in Nat \ {0}
      /\ SlippageModel \in {"touch", "spread_plus_bps", "impact"}
  BY FillConfigAssumption DEF Bps
<1>2. (touch * SlippageBps) \div Bps \in Nat
  <2>1. touch * SlippageBps \in Nat
    BY <1>1
  <2> QED
    BY <1>1, <2>1, QuotientIsNatural
<1>3. (touch * (SlippageBps + ImpactBpsPerLevel)) \div Bps \in Nat
  <2>1. touch * (SlippageBps + ImpactBpsPerLevel) \in Nat
    BY <1>1
  <2> QED
    BY <1>1, <2>1, QuotientIsNatural
<1>4. ASSUME displayed > 0
      PROVE  (touch * (SlippageBps * displayed + ImpactBpsPerLevel * qty))
               \div (displayed * Bps) \in Nat
  <2>1. touch * (SlippageBps * displayed + ImpactBpsPerLevel * qty) \in Nat
    <3>1. SlippageBps * displayed \in Nat /\ ImpactBpsPerLevel * qty \in Nat
      BY <1>1
    <3> QED
      BY <3>1
  <2>2. displayed * Bps \in Nat \ {0}
    BY <1>4 DEF Bps
  <2> QED
    BY <2>1, <2>2, QuotientIsNatural
<1> QED
  BY <1>1, <1>2, <1>3, <1>4 DEF Adjustment

\* A fill that the simulator makes has a quantity, a price and a fee.
LEMMA MadeFill ==
  ASSUME NEW qty \in Nat, NEW price \in Int, NEW role \in {"taker", "maker"}
  PROVE  LET fill == MakeFill(qty, price, role)
         IN fill.qty = qty /\ fill.price = price /\ fill.fee \in Int
<1>1. /\ qty * price * TakerFeeBps \in Int /\ qty * price * MakerFeeBps \in Int
      /\ Bps \in Nat \ {0}
  BY FillConfigAssumption DEF Bps
<1>2. /\ (qty * price * TakerFeeBps) \div Bps \in Int
      /\ (qty * price * MakerFeeBps) \div Bps \in Int
  BY <1>1, QuotientIsInteger
<1> QED
  BY <1>2 DEF MakeFill

(* A market fill takes everything that remains, at an adverse price. *)
LEMMA FillMarketWorks ==
  ASSUME NEW order \in Orders, order.filled < order.qty, NEW book \in BookTops
  PROVE  /\ Worked(order, FillMarket(order, book))
         /\ FillMarket(order, book).status = "filled"
         /\ FillMarket(order, book).fill.qty = Remaining(order)
<1> DEFINE touch == Touch(order.side, book)
           rest == Remaining(order)
           displayed == Displayed(order.side, book)
           price == SlippedPrice(touch, order.side, rest, displayed)
           fill == MakeFill(rest, price, "taker")
           after == [order EXCEPT !.filled = order.qty]
<1>1. order.qty \in Nat /\ order.filled \in Nat /\ order.side \in Sides
  BY OrderFields
<1>2. rest \in Nat /\ rest > 0 /\ order.qty = order.filled + rest
  BY <1>1 DEF Remaining
<1>3. touch \in Nat /\ displayed \in Nat
  BY <1>1, BookFields
<1>4. price \in Int
  <2>1. Adjustment(touch, rest, displayed) \in Nat
    BY <1>2, <1>3, AdjustmentIsNatural
  <2> HIDE DEF touch, rest, displayed
  <2> QED
    BY <1>3, <2>1 DEF SlippedPrice
<1>5. fill.qty = rest /\ fill.price = price /\ fill.fee \in Int
  BY <1>2, <1>4, MadeFill
<1>6. /\ after \in Orders /\ SameTerms(after, order) /\ after.filled = order.qty
  BY <1>1, OrderUpdates
<1>7. FillMarket(order, book) = [order |-> after, fill |-> fill, status |-> "filled"]
  BY DEF FillMarket, Result
<1> HIDE DEF touch, rest, displayed, price, fill, after
<1>8. /\ FillMarket(order, book).order = after /\ FillMarket(order, book).fill = fill
      /\ FillMarket(order, book).status = "filled"
  BY <1>7
<1>9. Worked(order, FillMarket(order, book))
  BY <1>1, <1>2, <1>4, <1>5, <1>6, <1>8 DEF Worked
<1> QED
  BY <1>5, <1>8, <1>9 DEF rest

(* Whatever has been noted on the order before, the terms it works under are *)
(* the ones it came with.                                                     *)
LEMMA WorkedFromNoted ==
  ASSUME NEW order \in Orders, NEW noted \in Orders, SameTerms(noted, order),
         noted.filled = order.filled, NEW result, Worked(noted, result)
  PROVE  Worked(order, result)
  BY DEF Worked, SameTerms

(* No trade: the order goes on waiting, or is turned away. *)
LEMMA NoTrade ==
  ASSUME NEW order \in Orders, Working(order), NEW noted \in Orders,
         SameTerms(noted, order), noted.filled = order.filled,
         NEW status \in {"accepted", "cancelled", "rejected"},
         status = "rejected" => order.filled = 0
  PROVE  Worked(order, Result(noted, NoFill, status))
<1>1. order.qty \in Nat /\ order.filled \in Nat
  BY OrderFields
<1> QED
  BY <1>1 DEF Worked, Working, Result, NoFill

(* A limit takes what is displayed, never more than what remains. *)
LEMMA LimitQtyBounds ==
  ASSUME NEW order \in Orders, order.filled < order.qty, NEW book \in BookTops
  PROVE  /\ LimitQty(order, book) \in Nat
         /\ 0 < LimitQty(order, book) /\ LimitQty(order, book) <= Remaining(order)
<1>1. order.qty \in Nat /\ order.filled \in Nat /\ order.side \in Sides
  BY OrderFields
<1>2. Displayed(order.side, book) \in Nat
  BY <1>1, BookFields
<1> QED
  BY <1>1, <1>2 DEF LimitQty, Remaining

\* A limit order takes what is displayed, up to what remains, or rests.
LEMMA FillLimitWorks ==
  ASSUME NEW order \in Orders, Working(order), NEW book \in BookTops
  PROVE  Worked(order, FillLimit(order, book))
<1> DEFINE qty == LimitQty(order, book)
           done == order.filled + qty
           touch == Touch(order.side, book)
<1>1. /\ order.qty \in Nat /\ order.filled \in Nat /\ order.price \in Nat
      /\ order.side \in Sides /\ order.tif \in TimesInForce /\ order.filled < order.qty
  BY OrderFields DEF Working
<1>2. qty \in Nat /\ 0 < qty /\ order.filled + qty <= order.qty
  BY <1>1, LimitQtyBounds DEF Working, Remaining
<1>3. CASE Marketable(order, book) /\ order.tif = "post_only" /\ ~order.rested
  <2>1. FillLimit(order, book) = Result(order, NoFill, "rejected")
    BY <1>3 DEF FillLimit
  <2>2. order.filled = 0 /\ SameTerms(order, order)
    BY <1>3 DEF Working, SameTerms
  <2> QED
    BY <2>1, <2>2, NoTrade
<1>4. CASE Marketable(order, book) /\ order.tif = "post_only" /\ order.rested
  <2> DEFINE after == [order EXCEPT !.filled = order.qty]
             fill == MakeFill(Remaining(order), order.price, "maker")
  <2>1. FillLimit(order, book) = Result(after, fill, "filled")
    BY <1>4 DEF FillLimit
  <2>2. /\ after \in Orders /\ SameTerms(after, order) /\ after.filled = order.qty
    BY <1>1, OrderUpdates
  <2>3. Remaining(order) \in Nat /\ order.qty = order.filled + Remaining(order)
    BY <1>1 DEF Remaining
  <2>4. fill.qty = Remaining(order) /\ fill.price \in Int /\ fill.fee \in Int
    BY <1>1, <2>3, MadeFill
  <2> HIDE DEF after, fill
  <2> QED
    BY <1>1, <2>1, <2>2, <2>3, <2>4 DEF Worked, Result
<1>5. CASE Marketable(order, book) /\ order.tif # "post_only"
  <2> DEFINE after == [order EXCEPT !.filled = done]
             fill == MakeFill(qty, touch, "taker")
             status == IF done = order.qty THEN "filled" ELSE "partially_filled"
  <2>1. FillLimit(order, book) = Result(after, fill, status)
    BY <1>5 DEF FillLimit
  <2>2. /\ after \in Orders /\ SameTerms(after, order) /\ after.filled = done
    <3>1. done \in Nat
      BY <1>1, <1>2
    <3> QED
      BY <3>1, OrderUpdates
  <2>3. touch \in Nat
    BY <1>1, BookFields
  <2>4. fill.qty = qty /\ fill.price \in Int /\ fill.fee \in Int
    BY <1>2, <2>3, MadeFill
  <2> HIDE DEF after, fill, qty
  <2> QED
    BY <1>1, <1>2, <1>5, <2>1, <2>2, <2>4 DEF Worked, Result
<1>6. CASE ~Marketable(order, book)
  <2> DEFINE after == [order EXCEPT !.rested = TRUE]
  <2>1. FillLimit(order, book)
          = Result(after, NoFill, IF order.tif = "ioc" THEN "cancelled" ELSE "accepted")
    BY <1>6 DEF FillLimit
  <2>2. after \in Orders /\ SameTerms(after, order) /\ after.filled = order.filled
    BY OrderUpdates
  <2> HIDE DEF after
  <2> QED
    BY <2>1, <2>2, NoTrade
<1> QED
  BY <1>3, <1>4, <1>5, <1>6, OrderFields

(* Whichever type the order has, a snapshot trades at most what remains and  *)
(* reports the trade it has recorded.                                         *)
LEMMA TryFillWorks ==
  ASSUME NEW order \in Orders, Working(order), NEW book \in BookTops
  PROVE  Worked(order, TryFill(order, book))
<1>1. /\ order.type \in OrderTypes /\ order.filled < order.qty /\ SameTerms(order, order)
  BY OrderFields DEF Working, SameTerms
<1> DEFINE noted == [order EXCEPT !.status = "triggered"]
           trailed == [order EXCEPT !.extreme = Extreme(order, book)]
<1>2. /\ noted \in Orders /\ SameTerms(noted, order) /\ noted.filled = order.filled
      /\ noted.status = "triggered"
  BY OrderUpdates DEF OrderStatuses
<1>3. /\ trailed \in Orders /\ SameTerms(trailed, order) /\ trailed.filled = order.filled
  <2>1. Extreme(order, book) \in Nat
    <3>1. order.extreme \in Nat /\ order.side \in Sides /\ Mid2(book) \in Nat
      BY OrderFields, BookFields
    <3> QED
      BY <3>1 DEF Extreme
  <2> QED
    BY <2>1, OrderUpdates
<1> HIDE DEF noted, trailed
<1>4. noted.filled < noted.qty /\ trailed.filled < trailed.qty /\ Working(noted)
  BY <1>1, <1>2, <1>3 DEF SameTerms, Working, IsTerminal
<1>5. Worked(order, Result(order, NoFill, "accepted"))
  BY <1>1, NoTrade
<1>6. Worked(order, Result(trailed, NoFill, "accepted"))
  BY <1>3, NoTrade
<1>7. Worked(order, FillMarket(noted, book)) /\ Worked(order, FillLimit(noted, book))
  BY <1>2, <1>4, FillMarketWorks, FillLimitWorks, WorkedFromNoted
<1>8. Worked(order, FillMarket(trailed, book))
  BY <1>3, <1>4, FillMarketWorks, WorkedFromNoted
<1>9. CASE order.type = "market"
  BY <1>1, <1>9, FillMarketWorks DEF TryFill
<1>10. CASE order.type = "limit"
  BY <1>10, FillLimitWorks DEF TryFill
<1>11. CASE order.type \in {"stop_market", "take_profit"}
  <2>1. TryFill(order, book) = MaybeTriggerThenMarket(order, book)
    BY <1>11 DEF TryFill
  <2> QED
    BY <2>1, <1>5, <1>7 DEF MaybeTriggerThenMarket, noted
<1>12. CASE order.type = "stop_limit"
  <2>1. TryFill(order, book) = MaybeTriggerStopLimit(order, book)
    BY <1>12 DEF TryFill
  <2> QED
    BY <2>1, <1>5, <1>7 DEF MaybeTriggerStopLimit, noted
<1>13. CASE order.type = "trailing_stop"
  <2>1. TryFill(order, book) = UpdateTrailing(order, book)
    BY <1>13 DEF TryFill
  <2> QED
    BY <2>1, <1>6, <1>8 DEF UpdateTrailing, trailed
<1> QED
  BY <1>1, <1>9, <1>10, <1>11, <1>12, <1>13 DEF OrderTypes

-----------------------------------------------------------------------------
(* The queue: orders by id, and which of them work.                          *)

QueueInv ==
  /\ orders \in Seq(Orders)
  /\ PendingIds \subseteq DOMAIN orders
  /\ PendingAreLive
  /\ NoOverfill
  /\ \A i \in PendingIds : Working(orders[i])

(* The least of a set of numbers is one of them. *)
LEMMA MinIsMember ==
  ASSUME NEW S \in SUBSET Nat, S # {}
  PROVE  Min(S) \in S
<1>1. PICK x \in S : \A y \in S : ~(<<y, x>> \in OpToRel(<, Nat))
  BY NatLessThanWellFounded, WFMin
<1>2. \A y \in S : ~(y < x)
  BY <1>1 DEF OpToRel
<1>3. \A y \in S : x <= y
  BY <1>2
<1> QED
  BY <1>3 DEF Min

(* What submit makes of a batch of new orders. *)
LEMMA AfterSubmitShape ==
  ASSUME NEW batch \in Seq(Orders)
  PROVE  /\ AfterSubmit(batch) \in Seq(Orders) /\ Len(AfterSubmit(batch)) = Len(batch)
         /\ \A k \in 1 .. Len(batch) :
              LET o == AfterSubmit(batch)[k]
              IN /\ SameTerms(o, batch[k]) /\ o.filled = batch[k].filled
                 /\ o.status = IF Admissible(batch[k]) THEN "accepted" ELSE "rejected"
<1>1. Len(batch) \in Nat /\ DOMAIN batch = 1 .. Len(batch)
  BY LenProperties
<1>2. ASSUME NEW k \in 1 .. Len(batch)
      PROVE  LET o == [batch[k] EXCEPT !.status =
                         IF Admissible(batch[k]) THEN "accepted" ELSE "rejected"]
             IN /\ o \in Orders /\ SameTerms(o, batch[k]) /\ o.filled = batch[k].filled
                /\ o.status = IF Admissible(batch[k]) THEN "accepted" ELSE "rejected"
  <2>1. batch[k] \in Orders
    BY ElementOfSeq
  <2>2. (IF Admissible(batch[k]) THEN "accepted" ELSE "rejected") \in OrderStatuses
    BY DEF OrderStatuses
  <2> QED
    BY <2>1, <2>2, OrderUpdates
<1> DEFINE e(k) == [batch[k] EXCEPT !.status =
                      IF Admissible(batch[k]) THEN "accepted" ELSE "rejected"]
<1>3. AfterSubmit(batch) = [k \in 1 .. Len(batch) |-> e(k)]
  BY <1>1 DEF AfterSubmit
<1>4. \A k \in 1 .. Len(batch) : e(k) \in Orders
  BY <1>2
<1> HIDE DEF e
<1>5. AfterSubmit(batch) \in Seq(Orders) /\ Len(AfterSubmit(batch)) = Len(batch)
  BY <1>1, <1>3, <1>4
<1>6. \A k \in 1 .. Len(batch) : AfterSubmit(batch)[k] = e(k)
  BY <1>3
<1> QED
  BY <1>2, <1>5, <1>6 DEF e

\* Cancelling changes the status of the orders it reaches and nothing else.
LEMMA CancelledShape ==
  ASSUME orders \in Seq(Orders), NEW gone
  PROVE  /\ Cancelled(gone) \in Seq(Orders) /\ Len(Cancelled(gone)) = Len(orders)
         /\ \A i \in 1 .. Len(orders) :
              LET o == Cancelled(gone)[i]
              IN /\ SameTerms(o, orders[i]) /\ o.filled = orders[i].filled
                 /\ i \in gone => o.status = "cancelled"
                 /\ i \notin gone => o = orders[i]
<1>1. Len(orders) \in Nat /\ DOMAIN orders = 1 .. Len(orders)
  BY LenProperties
<1> DEFINE e(i) == IF i \in gone THEN [orders[i] EXCEPT !.status = "cancelled"] ELSE orders[i]
<1>2. ASSUME NEW i \in 1 .. Len(orders)
      PROVE  /\ e(i) \in Orders /\ SameTerms(e(i), orders[i]) /\ e(i).filled = orders[i].filled
             /\ i \in gone => e(i).status = "cancelled"
             /\ i \notin gone => e(i) = orders[i]
  <2>1. orders[i] \in Orders /\ SameTerms(orders[i], orders[i])
    BY ElementOfSeq DEF SameTerms
  <2>2. "cancelled" \in OrderStatuses
    BY DEF OrderStatuses
  <2> QED
    BY <2>1, <2>2, OrderUpdates
<1>3. Cancelled(gone) = [i \in 1 .. Len(orders) |-> e(i)]
  BY <1>1 DEF Cancelled
<1> HIDE DEF e
<1>4. Cancelled(gone) \in Seq(Orders) /\ Len(Cancelled(gone)) = Len(orders)
  BY <1>1, <1>2, <1>3
<1>5. \A i \in 1 .. Len(orders) : Cancelled(gone)[i] = e(i)
  BY <1>3
<1> QED
  BY <1>2, <1>4, <1>5

(* Orders arrive, and those in gone are cancelled to make room: the common   *)
(* form of submit, cancel, cancel_all and flatten_all.                        *)
Arrival(batch, gone) ==
  /\ batch \in Seq(Orders) /\ \A k \in DOMAIN batch : IsNew(batch[k])
  /\ gone \subseteq PendingIds
  /\ orders' = Cancelled(gone) \o AfterSubmit(batch)
  /\ PendingIds' = (PendingIds \ gone) \union AcceptedIds(batch)

\* What an arrival does to each order, and to which ids it accepts.
LEMMA ArrivalShape ==
  ASSUME orders \in Seq(Orders), NEW batch, NEW gone, Arrival(batch, gone)
  PROVE  LET n == Len(orders)
             m == Len(batch)
         IN /\ n \in Nat /\ m \in Nat /\ DOMAIN orders = 1 .. n /\ DOMAIN batch = 1 .. m
            /\ orders' \in Seq(Orders) /\ DOMAIN orders' = 1 .. n + m
            /\ Len(orders') = n + m
            /\ \A i \in 1 .. n :
                 /\ SameTerms(orders'[i], orders[i]) /\ orders'[i].filled = orders[i].filled
                 /\ i \in gone => orders'[i].status = "cancelled"
                 /\ i \notin gone => orders'[i] = orders[i]
            /\ \A i \in n + 1 .. n + m :
                 /\ batch[i - n] \in Orders /\ IsNew(batch[i - n])
                 /\ SameTerms(orders'[i], batch[i - n]) /\ orders'[i].filled = 0
                 /\ orders'[i].status = IF Admissible(batch[i - n]) THEN "accepted" ELSE "rejected"
            /\ AcceptedIds(batch) = {i \in n + 1 .. n + m : Admissible(batch[i - n])}
<1> DEFINE n == Len(orders)
           m == Len(batch)
           old == Cancelled(gone)
           new == AfterSubmit(batch)
<1>1. /\ n \in Nat /\ m \in Nat /\ DOMAIN orders = 1 .. n /\ DOMAIN batch = 1 .. m
      /\ batch \in Seq(Orders) /\ orders' = old \o new
  BY LenProperties DEF Arrival
<1>2. /\ old \in Seq(Orders) /\ Len(old) = n
      /\ \A i \in 1 .. n :
           /\ SameTerms(old[i], orders[i]) /\ old[i].filled = orders[i].filled
           /\ i \in gone => old[i].status = "cancelled"
           /\ i \notin gone => old[i] = orders[i]
  BY CancelledShape
<1>3. /\ new \in Seq(Orders) /\ Len(new) = m
      /\ \A k \in 1 .. m :
           /\ SameTerms(new[k], batch[k]) /\ new[k].filled = batch[k].filled
           /\ new[k].status = IF Admissible(batch[k]) THEN "accepted" ELSE "rejected"
  BY <1>1, AfterSubmitShape
<1>4. \A k \in 1 .. m : batch[k] \in Orders /\ IsNew(batch[k]) /\ batch[k].filled = 0
  BY <1>1, ElementOfSeq DEF Arrival, IsNew
<1> HIDE DEF n, m, old, new
<1>5. /\ old \o new \in Seq(Orders) /\ Len(old \o new) = n + m
      /\ \A i \in 1 .. n + m : (old \o new)[i] = IF i <= n THEN old[i] ELSE new[i - n]
  <2>1. old \in Seq(Orders) /\ new \in Seq(Orders)
    BY <1>2, <1>3
  <2>2. /\ old \o new \in Seq(Orders) /\ Len(old \o new) = Len(old) + Len(new)
        /\ \A i \in 1 .. Len(old) + Len(new) :
             (old \o new)[i] = IF i <= Len(old) THEN old[i] ELSE new[i - Len(old)]
    BY <2>1, ConcatProperties
  <2> QED
    BY <1>2, <1>3, <2>2
<1>6. orders' \in Seq(Orders) /\ Len(orders') = n + m /\ DOMAIN orders' = 1 .. n + m
  BY <1>1, <1>5, LenProperties
<1>7. \A i \in 1 .. n : orders'[i] = old[i]
  BY <1>1, <1>5
<1>8. ASSUME NEW i \in n + 1 .. n + m
      PROVE  /\ i - n \in 1 .. m /\ orders'[i] = new[i - n]
             /\ SameTerms(orders'[i], batch[i - n]) /\ orders'[i].filled = 0
             /\ batch[i - n] \in Orders /\ IsNew(batch[i - n])
             /\ orders'[i].status = IF Admissible(batch[i - n]) THEN "accepted" ELSE "rejected"
  <2>1. i - n \in 1 .. m /\ i \in 1 .. n + m /\ ~(i <= n)
    BY <1>1
  <2>2. orders'[i] = new[i - n]
    BY <1>1, <1>5, <2>1
  <2> QED
    BY <1>3, <1>4, <2>1, <2>2
<1>9. AcceptedIds(batch) = {i \in n + 1 .. n + m : Admissible(batch[i - n])}
  <2> DEFINE good == {k \in 1 .. m : Admissible(batch[k])}
             late == {i \in n + 1 .. n + m : Admissible(batch[i - n])}
  <2>1. AcceptedIds(batch) = {n + k : k \in good}
    BY <1>1 DEF AcceptedIds, n
  <2>2. ASSUME NEW k \in good PROVE n + k \in late
    <3>1. n + k \in n + 1 .. n + m /\ (n + k) - n = k
      BY <1>1
    <3> QED
      BY <3>1
  <2>3. ASSUME NEW i \in late PROVE \E k \in good : i = n + k
    <3>1. i - n \in 1 .. m /\ i = n + (i - n)
      BY <1>1
    <3> QED
      BY <3>1
  <2> HIDE DEF good, late
  <2>4. {n + k : k \in good} = late
    BY <2>2, <2>3
  <2> QED
    BY <2>1, <2>4 DEF late
<1> QED
  BY <1>1, <1>2, <1>6, <1>7, <1>8, <1>9 DEF n, m

\* The queue holds exactly the live orders after an arrival.
LEMMA ArrivalKeepsQueue ==
  ASSUME QueueInv, NEW batch, NEW gone, Arrival(batch, gone)
  PROVE  QueueInv'
<1> DEFINE n == Len(orders)
           m == Len(batch)
<1>1. /\ n \in Nat /\ m \in Nat /\ DOMAIN orders = 1 .. n
      /\ orders' \in Seq(Orders) /\ DOMAIN orders' = 1 .. n + m
      /\ \A i \in 1 .. n :
           /\ SameTerms(orders'[i], orders[i]) /\ orders'[i].filled = orders[i].filled
           /\ i \in gone => orders'[i].status = "cancelled"
           /\ i \notin gone => orders'[i] = orders[i]
      /\ \A i \in n + 1 .. n + m :
           /\ batch[i - n] \in Orders
           /\ SameTerms(orders'[i], batch[i - n]) /\ orders'[i].filled = 0
           /\ orders'[i].status = IF Admissible(batch[i - n]) THEN "accepted" ELSE "rejected"
      /\ AcceptedIds(batch) = {i \in n + 1 .. n + m : Admissible(batch[i - n])}
  BY ArrivalShape DEF QueueInv
<1>2. /\ gone \subseteq PendingIds /\ PendingIds \subseteq 1 .. n
      /\ PendingIds' = (PendingIds \ gone) \union AcceptedIds(batch)
  BY <1>1 DEF Arrival, QueueInv
<1> HIDE DEF n, m
<1>3. \A i \in 1 .. n + m : i \in 1 .. n \/ i \in n + 1 .. n + m
  BY <1>1
<1>4. (1 .. n) \intersect (n + 1 .. n + m) = {} /\ PendingIds' \subseteq 1 .. n + m
  <2>1. AcceptedIds(batch) \subseteq n + 1 .. n + m
    BY <1>1
  <2>2. 1 .. n \subseteq 1 .. n + m /\ n + 1 .. n + m \subseteq 1 .. n + m
    BY <1>1
  <2>3. PendingIds' \subseteq 1 .. n + m
    BY <1>2, <2>1, <2>2
  <2>4. (1 .. n) \intersect (n + 1 .. n + m) = {}
    BY <1>1
  <2> QED
    BY <2>3, <2>4
<1>5. ASSUME NEW i \in 1 .. n
      PROVE  /\ i \in PendingIds' <=> ~IsTerminal(orders'[i])
             /\ orders'[i].filled <= orders'[i].qty
             /\ orders'[i].status = "filled"
                  <=> orders'[i].filled = orders'[i].qty /\ orders'[i].qty > 0
             /\ i \in PendingIds' => Working(orders'[i])
  <2>1. /\ i \in PendingIds <=> ~IsTerminal(orders[i])
        /\ orders[i].filled <= orders[i].qty
        /\ orders[i].status = "filled" <=> orders[i].filled = orders[i].qty /\ orders[i].qty > 0
        /\ i \in PendingIds => Working(orders[i])
    BY <1>1 DEF QueueInv, PendingAreLive, NoOverfill
  <2>2. i \in PendingIds' <=> i \in PendingIds \ gone
    BY <1>1, <1>2, <1>4
  <2>3. CASE i \in gone
    <3>1. Working(orders[i]) /\ orders[i].filled \in Nat /\ orders[i].qty \in Nat
      BY <1>2, <2>1, <2>3, OrderFields DEF Working
    <3> QED
      BY <1>1, <2>1, <2>2, <2>3, <3>1 DEF IsTerminal, SameTerms, Working
  <2>4. CASE i \notin gone
    BY <1>1, <2>1, <2>2, <2>4
  <2> QED
    BY <2>3, <2>4
<1>6. ASSUME NEW i \in n + 1 .. n + m
      PROVE  /\ i \in PendingIds' <=> ~IsTerminal(orders'[i])
             /\ orders'[i].filled <= orders'[i].qty
             /\ orders'[i].status = "filled"
                  <=> orders'[i].filled = orders'[i].qty /\ orders'[i].qty > 0
             /\ i \in PendingIds' => Working(orders'[i])
  <2>1. i \in 1 .. n + m /\ orders'[i] \in Orders
    <3>1. i \in 1 .. n + m
      BY <1>1
    <3> QED
      BY <1>1, <3>1, LenProperties, ElementOfSeq
  <2>2. i \in PendingIds' <=> Admissible(batch[i - n])
    BY <1>1, <1>2, <1>4
  <2>3. orders'[i].qty = batch[i - n].qty /\ orders'[i].qty \in Nat /\ orders'[i].filled = 0
    BY <1>1, <2>1, OrderFields DEF SameTerms
  <2>4. CASE Admissible(batch[i - n])
    <3>1. batch[i - n].qty > 0 /\ orders'[i].status = "accepted"
      BY <1>1, <2>4 DEF Admissible
    <3> QED
      BY <2>1, <2>2, <2>3, <2>4, <3>1 DEF IsTerminal, Working
  <2>5. CASE ~Admissible(batch[i - n])
    <3>1. orders'[i].status = "rejected"
      BY <1>1, <2>5
    <3> QED
      BY <2>2, <2>3, <2>5, <3>1 DEF IsTerminal
  <2> QED
    BY <2>4, <2>5
<1>7. PendingAreLive' /\ NoOverfill'
  BY <1>1, <1>3, <1>5, <1>6 DEF PendingAreLive, NoOverfill
<1>8. \A i \in PendingIds' : Working(orders'[i])
  BY <1>3, <1>4, <1>5, <1>6
<1> QED
  BY <1>1, <1>4, <1>7, <1>8 DEF QueueInv

-----------------------------------------------------------------------------
(* submit, cancel and flatten_all are arrivals.                              *)

\* Cancelling no order leaves all orders as they are.
LEMMA NothingCancelled ==
  ASSUME orders \in Seq(Orders)
  PROVE  Cancelled({}) = orders
  BY CancelledShape, SeqEqual

\* submit is an arrival of one order.
LEMMA SubmitIsArrival ==
  ASSUME orders \in Seq(Orders), NEW order, IsNew(order), Submit(order)
  PROVE  Arrival(<<order>>, {})
<1>1. order \in Orders
  BY DEF IsNew
<1>2. <<order>> \in Seq(Orders) /\ \A k \in DOMAIN <<order>> : IsNew(<<order>>[k])
  BY <1>1
<1>3. orders' = Cancelled({}) \o AfterSubmit(<<order>>)
  BY NothingCancelled DEF Submit
<1>4. PendingIds' = (PendingIds \ {}) \union AcceptedIds(<<order>>)
  BY DEF Submit, With, PendingIds
<1> QED
  BY <1>2, <1>3, <1>4 DEF Arrival

\* cancel is an arrival of none that makes one leave.
LEMMA CancelIsArrival ==
  ASSUME orders \in Seq(Orders), NEW id, Cancel(id)
  PROVE  Arrival(<< >>, {id})
<1>1. AfterSubmit(<< >>) = << >> /\ AcceptedIds(<< >>) = {}
  BY DEF AfterSubmit, AcceptedIds
<1>2. Cancelled({id}) \in Seq(Orders)
  BY CancelledShape
<1>3. orders' = Cancelled({id}) \o AfterSubmit(<< >>)
  BY <1>1, <1>2, ConcatEmptySeq DEF Cancel
<1>4. PendingIds' = (PendingIds \ {id}) \union AcceptedIds(<< >>)
  BY <1>1 DEF Cancel, Without, Restrict, PendingIds
<1>5. id \in PendingIds /\ << >> \in Seq(Orders) /\ DOMAIN << >> = {}
  BY DEF Cancel
<1> QED
  BY <1>3, <1>4, <1>5 DEF Arrival

(* A finite set is listed by its sequence. *)
LEMMA SetListed ==
  ASSUME NEW S, IsFiniteSet(S)
  PROVE  SetToSeq(S) \in Seq(S)
<1>1. Cardinality(S) \in Nat /\ ExistsBijection(1 .. Cardinality(S), S)
  BY FS_CardinalityType
<1>2. \E f \in [1 .. Cardinality(S) -> S] : IsInjective(f)
  BY <1>1 DEF ExistsBijection, Bijection, Injection, IsInjective
<1>3. SetToSeq(S) \in [1 .. Cardinality(S) -> S]
  BY <1>2 DEF SetToSeq
<1> QED
  BY <1>1, <1>3

(* Who may send an order. *)
Sources == {"manual", "signal", "kill_switch", "risk_engine"}

(* The exit for a whole position is a new order. *)
LEMMA ExitOrderIsNew ==
  ASSUME AccountTypeOK, NEW s \in Symbols,
         NEW source \in Sources
  PROVE  LET o == ExitOrder(s, source)
         IN /\ IsNew(o) /\ o \in Orders /\ o.symbol = s /\ o.type = "market"
            /\ o.side = Opposite(positions[s].side) /\ o.qty = positions[s].qty
            /\ o.reduceOnly = TRUE /\ o.source = source /\ o.tif = "gtc"
            /\ o.stopLoss = NoPrice /\ o.takeProfit = NoPrice
<1>1. Opposite(positions[s].side) \in Sides /\ positions[s].qty \in Nat
  BY PositionTypes DEF Opposite, Sides
<1> QED
  BY <1>1 DEF ExitOrder, BlankOrder, IsNew, Orders, NoPrice, OrderTypes,
              TimesInForce, OrderStatuses, Sources

\* The orders with which flatten_all exits every position are new.
LEMMA ExitOrdersAreNew ==
  ASSUME AccountTypeOK, NEW source \in Sources
  PROVE  /\ ExitOrders(source) \in Seq(Orders)
         /\ \A k \in DOMAIN ExitOrders(source) :
              IsNew(ExitOrders(source)[k]) /\ ExitOrders(source)[k].source = source
<1> DEFINE open == SetToSeq(OpenSymbols)
           e(k) == ExitOrder(open[k], source)
<1>1. open \in Seq(OpenSymbols)
  <2>1. IsFiniteSet(OpenSymbols)
    BY SymbolAssumption, FS_Subset DEF OpenSymbols
  <2> QED
    BY <2>1, SetListed
<1> HIDE DEF open
<1>2. Len(open) \in Nat /\ DOMAIN open = 1 .. Len(open)
  BY <1>1, LenProperties
<1>3. \A k \in 1 .. Len(open) : open[k] \in Symbols
  BY <1>1, ElementOfSeq DEF OpenSymbols
<1>4. ASSUME NEW k \in 1 .. Len(open)
      PROVE  e(k) \in Orders /\ IsNew(e(k)) /\ e(k).source = source
  <2>1. ASSUME NEW s \in Symbols
        PROVE  ExitOrder(s, source) \in Orders /\ IsNew(ExitOrder(s, source))
               /\ ExitOrder(s, source).source = source
    BY ExitOrderIsNew
  <2> QED
    BY <1>3, <2>1
<1>5. ExitOrders(source) = [k \in 1 .. Len(open) |-> e(k)]
  BY <1>2 DEF ExitOrders, open
<1> HIDE DEF e
<1> QED
  BY <1>2, <1>4, <1>5

\* flatten_all is an arrival of the exits that makes all that waited leave.
LEMMA FlattenIsArrival ==
  ASSUME AccountTypeOK, FlattenAll
  PROVE  /\ Arrival(ExitOrders("kill_switch"), PendingIds)
         /\ Len(orders) + Len(ExitOrders("kill_switch")) <= MaxOrders
<1> DEFINE batch == ExitOrders("kill_switch")
<1>1. batch \in Seq(Orders) /\ \A k \in DOMAIN batch : IsNew(batch[k])
  BY ExitOrdersAreNew DEF Sources
<1>2. orders' = Cancelled(PendingIds) \o AfterSubmit(batch) /\ Len(orders) + Len(batch) <= MaxOrders
  BY DEF FlattenAll
<1>3. PendingIds' = (PendingIds \ PendingIds) \union AcceptedIds(batch)
  BY DEF FlattenAll, PendingIds
<1> HIDE DEF batch
<1>4. Arrival(batch, PendingIds)
  BY <1>1, <1>2, <1>3 DEF Arrival
<1> QED
  BY <1>2, <1>4 DEF batch

-----------------------------------------------------------------------------
(* The inductive invariant of the engine.                                    *)

(* How long the pending orders have waited. *)
AgesOK == pending \in [PendingIds -> 0 .. MaxAge]

(* The protections of the positions, and what they have exited. *)
GuardsOK == /\ protect \in [Symbols -> [stopLoss : Nat, takeProfit : Nat]]
            /\ exits \in [Symbols -> Int]

(* What holds between two calls of on_book, and during one. *)
CoreInv == AccountInv /\ QueueInv /\ AgesOK /\ GuardsOK

(* What a call of on_book has still to work is pending, and of its symbol. *)
TickInv ==
  /\ tick \in [running : BOOLEAN, book : BookTops \union {NoBook}, todo : SUBSET Nat]
  /\ tick.running => tick.book \in BookTops
  /\ ~tick.running => tick.todo = {}
  /\ tick.todo \subseteq PendingIds
  /\ \A i \in tick.todo : orders[i].symbol = tick.book.symbol

EngineInv == CoreInv /\ TickInv /\ Len(orders) <= MaxOrders

\* The bound on the age of a waiting order is a natural number.
LEMMA MaxAgeIsNatural == MaxAge \in Nat
  BY EngineAssumption DEF MaxAge

(* The fresh engine knows no order and holds nothing. *)
LEMMA EngineInitial == EngineInit => EngineInv
<1> SUFFICES ASSUME EngineInit PROVE EngineInv
  OBVIOUS
<1>1. orders = << >> /\ pending = << >> /\ tick = Quiet
  BY DEF EngineInit
<1>2. AccountInv
  BY AccountInitial DEF EngineInit
<1>3. PendingIds = {} /\ DOMAIN orders = {} /\ Len(orders) = 0 /\ orders \in Seq(Orders)
  BY <1>1 DEF PendingIds
<1>4. QueueInv
  BY <1>3 DEF QueueInv, PendingAreLive, NoOverfill
<1>5. AgesOK
  BY <1>1, <1>3 DEF AgesOK
<1>6. GuardsOK
  BY DEF EngineInit, GuardsOK, NoProtection, NoPrice
<1>7. TickInv
  BY <1>1, <1>3 DEF TickInv, Quiet
<1> QED
  BY <1>2, <1>3, <1>4, <1>5, <1>6, <1>7, EngineAssumption DEF EngineInv, CoreInv

(* Orders that arrive find an account, protections and ages as they were. *)
LEMMA ArrivalKeepsCore ==
  ASSUME CoreInv, NEW batch, NEW gone, Arrival(batch, gone),
         pending' \in [PendingIds' -> 0 .. MaxAge],
         UNCHANGED <<accountVars, protect, exits>>
  PROVE  CoreInv'
<1>1. AccountInv'
  BY AccountStutter DEF CoreInv
<1>2. QueueInv'
  BY ArrivalKeepsQueue DEF CoreInv
<1>3. GuardsOK'
  BY DEF CoreInv, GuardsOK
<1>4. AgesOK'
  BY DEF AgesOK, PendingIds
<1> QED
  BY <1>1, <1>2, <1>3, <1>4 DEF CoreInv

(* submit: one order more, accepted or refused. *)
LEMMA SubmitKeepsCore ==
  ASSUME CoreInv, NEW order, IsNew(order), Submit(order)
  PROVE  CoreInv' /\ Arrival(<<order>>, {}) /\ Len(orders') = Len(orders) + 1
<1>1. Arrival(<<order>>, {})
  BY SubmitIsArrival DEF CoreInv, QueueInv
<1>2. pending' \in [PendingIds' -> 0 .. MaxAge]
  <2>1. pending \in [PendingIds -> 0 .. MaxAge] /\ 0 \in 0 .. MaxAge
    BY MaxAgeIsNatural DEF CoreInv, AgesOK
  <2> QED
    BY <2>1 DEF Submit, With, PendingIds
<1>3. CoreInv'
  BY <1>1, <1>2, ArrivalKeepsCore DEF Submit
<1>4. Len(orders') = Len(orders) + 1
  BY <1>1, ArrivalShape DEF CoreInv, QueueInv
<1> QED
  BY <1>1, <1>3, <1>4

(* cancel: one order fewer works. *)
LEMMA CancelKeepsCore ==
  ASSUME CoreInv, NEW id, Cancel(id)
  PROVE  CoreInv' /\ Arrival(<< >>, {id}) /\ Len(orders') = Len(orders)
<1>1. Arrival(<< >>, {id})
  BY CancelIsArrival DEF CoreInv, QueueInv
<1>2. pending' \in [PendingIds' -> 0 .. MaxAge]
  BY DEF Cancel, Without, Restrict, PendingIds, CoreInv, AgesOK
<1>3. CoreInv'
  BY <1>1, <1>2, ArrivalKeepsCore DEF Cancel
<1>4. Len(orders') = Len(orders)
  BY <1>1, ArrivalShape DEF CoreInv, QueueInv
<1> QED
  BY <1>1, <1>3, <1>4

(* flatten_all: every pending order makes room for the exits. *)
LEMMA FlattenKeepsCore ==
  ASSUME CoreInv, FlattenAll
  PROVE  /\ CoreInv' /\ Arrival(ExitOrders("kill_switch"), PendingIds)
         /\ Len(orders') <= MaxOrders
<1>1. /\ Arrival(ExitOrders("kill_switch"), PendingIds)
      /\ Len(orders) + Len(ExitOrders("kill_switch")) <= MaxOrders
  BY FlattenIsArrival DEF CoreInv, AccountInv
<1>2. pending' \in [PendingIds' -> 0 .. MaxAge]
  <2>1. 0 \in 0 .. MaxAge
    BY MaxAgeIsNatural
  <2> QED
    BY <2>1 DEF FlattenAll, PendingIds
<1>3. CoreInv'
  BY <1>1, <1>2, ArrivalKeepsCore DEF FlattenAll
<1>4. Len(orders') <= MaxOrders
  BY <1>1, ArrivalShape DEF CoreInv, QueueInv
<1> QED
  BY <1>1, <1>3, <1>4

(* A price that is set replaces the old one. *)
LEMMA AmendedIsProtection ==
  ASSUME NEW old \in [stopLoss : Nat, takeProfit : Nat], NEW stop \in Nat, NEW target \in Nat
  PROVE  Amended(old, stop, target) \in [stopLoss : Nat, takeProfit : Nat]
  BY DEF Amended

(* protect: only the protections of one position change. *)
LEMMA ProtectKeepsCore ==
  ASSUME CoreInv, NEW s \in Symbols, NEW stop \in Nat, NEW target \in Nat,
         Protect(s, stop, target)
  PROVE  CoreInv' /\ UNCHANGED <<accountVars, orders, pending>>
<1>1. AccountInv'
  BY AccountStutter DEF CoreInv, Protect
<1>2. UNCHANGED <<accountVars, orders, pending, exits>>
  BY DEF Protect
<1>3. QueueInv' /\ AgesOK'
  BY <1>2 DEF CoreInv, QueueInv, AgesOK, PendingAreLive, NoOverfill, PendingIds
<1>4. GuardsOK'
  <2>1. protect' = [protect EXCEPT ![s] = Amended(protect[s], stop, target)]
    BY DEF Protect
  <2>2. Amended(protect[s], stop, target) \in [stopLoss : Nat, takeProfit : Nat]
    BY AmendedIsProtection DEF CoreInv, GuardsOK
  <2> QED
    BY <1>2, <2>1, <2>2 DEF CoreInv, GuardsOK
<1> QED
  BY <1>1, <1>2, <1>3, <1>4 DEF CoreInv

(* Time passes: the ages change, and no more. *)
LEMMA AgingKeepsCore ==
  ASSUME CoreInv, pending' = [i \in PendingIds |-> Older(pending[i])],
         UNCHANGED <<accountVars, orders, protect, exits>>
  PROVE  CoreInv' /\ PendingIds' = PendingIds
<1>1. AccountInv'
  BY AccountStutter DEF CoreInv
<1>2. PendingIds' = PendingIds
  BY DEF PendingIds
<1>3. QueueInv' /\ GuardsOK'
  BY <1>2 DEF CoreInv, QueueInv, GuardsOK, PendingAreLive, NoOverfill
<1>4. AgesOK'
  <2>1. \A i \in PendingIds : Older(pending[i]) \in 0 .. MaxAge
    BY MaxAgeIsNatural DEF CoreInv, AgesOK, Older
  <2> QED
    BY <1>2, <2>1 DEF AgesOK
<1> QED
  BY <1>1, <1>2, <1>3, <1>4 DEF CoreInv

(* A snapshot arrives: what it may fill is listed. *)
LEMMA OnBookKeepsCore ==
  ASSUME CoreInv, NEW book \in BookTops, OnBook(book)
  PROVE  CoreInv' /\ TickInv'
<1>1. UNCHANGED <<accountVars, orders, pending, protect, exits>> /\ tick' = Running(book)
  BY DEF OnBook
<1>2. CoreInv'
  BY <1>1, AccountStutter DEF CoreInv, QueueInv, GuardsOK, AgesOK, PendingAreLive,
                             NoOverfill, PendingIds
<1>3. TickInv'
  <2>1. PendingIds \subseteq Nat
    BY LenProperties DEF CoreInv, QueueInv
  <2>2. PendingIds' = PendingIds
    BY <1>1 DEF PendingIds
  <2>3. Eligible(pending, orders, book) \subseteq PendingIds
    BY DEF Eligible, PendingIds
  <2>4. \A i \in Eligible(pending, orders, book) : orders[i].symbol = book.symbol
    BY DEF Eligible
  <2> QED
    BY <1>1, <2>1, <2>2, <2>3, <2>4 DEF TickInv, Running
<1> QED
  BY <1>2, <1>3

(* Every simulated fill is one that apply_fill may be given. *)
LEMMA FillIsAccountable ==
  ASSUME NEW order \in Orders, NEW fill,
         fill.qty \in Nat \ {0}, fill.price \in Int, fill.fee \in Int
  PROVE  [symbol |-> order.symbol, side |-> order.side, qty |-> fill.qty,
          price |-> fill.price, fee |-> fill.fee] \in AnyFill
  BY OrderFields DEF AnyFill

(* _settle: the account books the fill, and one symbol's protections change. *)
LEMMA BookFillKeeps ==
  ASSUME AccountInv, GuardsOK, NEW order \in Orders, NEW fill,
         fill.qty \in Nat \ {0}, fill.price \in Int, fill.fee \in Int,
         BookFill(order, fill)
  PROVE  /\ AccountStepOK
         /\ protect' \in [Symbols -> [stopLoss : Nat, takeProfit : Nat]]
<1> DEFINE booked == [symbol |-> order.symbol, side |-> order.side, qty |-> fill.qty,
                      price |-> fill.price, fee |-> fill.fee]
<1>1. booked \in AnyFill
  BY FillIsAccountable
<1>2. ApplyFill(booked)
  BY DEF BookFill
<1>3. AccountStepOK
  BY <1>1, <1>2, FillPreserves
<1> HIDE DEF booked
<1>4. /\ order.symbol \in Symbols /\ order.stopLoss \in Nat /\ order.takeProfit \in Nat
      /\ protect \in [Symbols -> [stopLoss : Nat, takeProfit : Nat]]
      /\ NoProtection \in [stopLoss : Nat, takeProfit : Nat]
  BY OrderFields DEF GuardsOK, NoProtection, NoPrice
<1>5. protect' \in [Symbols -> [stopLoss : Nat, takeProfit : Nat]]
  <2> DEFINE s == order.symbol
             kept == IF IsOpen(positions[s]) /\ IsOpen(positions'[s])
                          /\ positions[s].side = positions'[s].side
                     THEN protect[s] ELSE NoProtection
             attaches == IsOpen(positions'[s]) /\ positions'[s].side = order.side
             new == IF attaches THEN Amended(kept, order.stopLoss, order.takeProfit) ELSE kept
  <2>1. protect' = [protect EXCEPT ![s] = new]
    BY DEF BookFill
  <2>2. kept \in [stopLoss : Nat, takeProfit : Nat]
    BY <1>4
  <2>3. Amended(kept, order.stopLoss, order.takeProfit) \in [stopLoss : Nat, takeProfit : Nat]
    BY <1>4, <2>2, AmendedIsProtection
  <2>4. new \in [stopLoss : Nat, takeProfit : Nat]
    BY <2>2, <2>3
  <2> HIDE DEF new
  <2> QED
    BY <1>4, <2>1, <2>4
<1> QED
  BY <1>3, <1>5

(* The working of one order, as on_book does it: what changes. *)
WorkedStep(id, result) ==
  /\ id \in tick.todo /\ id \in PendingIds /\ id \in DOMAIN orders
  /\ Working(orders[id]) /\ Worked(orders[id], result)
  /\ result = TryFill(orders[id], tick.book)
  /\ orders' \in Seq(Orders) /\ Len(orders') = Len(orders) /\ DOMAIN orders' = DOMAIN orders
  /\ SameTerms(orders'[id], orders[id])
  /\ orders'[id].filled = result.order.filled /\ orders'[id].status = result.status
  /\ \A i \in DOMAIN orders \ {id} : orders'[i] = orders[i]
  /\ IsTerminal(orders'[id]) <=> result.status \in {"filled", "cancelled", "rejected"}
  /\ pending' = IF IsTerminal(orders'[id]) THEN Without({id}) ELSE pending
  /\ PendingIds' = IF IsTerminal(orders'[id]) THEN PendingIds \ {id} ELSE PendingIds
  /\ tick' = [tick EXCEPT !.todo = tick.todo \ {id}]
  /\ IF HasFill(result) THEN BookFill(orders[id], result.fill)
                        ELSE UNCHANGED <<accountVars, protect>>
  /\ UNCHANGED exits

\* Working an order is a WorkedStep of the first that is left to work.
LEMMA WorkOrderShape ==
  ASSUME orders \in Seq(Orders), PendingIds \subseteq DOMAIN orders,
         \A i \in PendingIds : Working(orders[i]), TickInv, WorkOrder
  PROVE  /\ tick.running /\ tick.todo # {}
         /\ LET id == Min(tick.todo) IN WorkedStep(id, TryFill(orders[id], tick.book))
<1> DEFINE id == Min(tick.todo)
           result == TryFill(orders[id], tick.book)
           settled == [result.order EXCEPT !.status = result.status]
<1>1. tick.running /\ tick.todo # {} /\ tick.book \in BookTops
  BY DEF WorkOrder, TickInv
<1>2. id \in tick.todo
  BY <1>1, MinIsMember DEF TickInv
<1>3. id \in PendingIds /\ id \in DOMAIN orders /\ Working(orders[id])
  BY <1>2 DEF TickInv
<1>4. orders[id] \in Orders /\ Worked(orders[id], result)
  BY <1>1, <1>3, TryFillWorks DEF Working
<1>5. /\ orders' = [orders EXCEPT ![id] = settled]
      /\ pending' = IF IsTerminal(settled) THEN Without({id}) ELSE pending
      /\ IF HasFill(result) THEN BookFill(orders[id], result.fill)
                            ELSE UNCHANGED <<accountVars, protect>>
      /\ tick' = [tick EXCEPT !.todo = tick.todo \ {id}]
      /\ UNCHANGED exits
  BY DEF WorkOrder
<1> HIDE DEF id, result
<1>6. /\ settled \in Orders /\ SameTerms(settled, orders[id])
      /\ settled.filled = result.order.filled /\ settled.status = result.status
  <2>1. result.order \in Orders /\ SameTerms(result.order, orders[id])
        /\ result.status \in OrderStatuses
    BY <1>4 DEF Worked, OrderStatuses
  <2>2. /\ settled \in Orders /\ SameTerms(settled, result.order)
        /\ settled.filled = result.order.filled /\ settled.status = result.status
    BY <2>1, OrderUpdates
  <2> QED
    BY <2>1, <2>2 DEF SameTerms
<1> HIDE DEF settled
<1>7. /\ orders \in Seq(Orders) /\ Len(orders) \in Nat /\ DOMAIN orders = 1 .. Len(orders)
  BY LenProperties
<1>8. /\ orders' \in Seq(Orders) /\ Len(orders') = Len(orders) /\ DOMAIN orders' = DOMAIN orders
      /\ orders'[id] = settled /\ \A i \in DOMAIN orders \ {id} : orders'[i] = orders[i]
  <2>1. /\ orders' \in Seq(Orders) /\ Len(orders') = Len(orders) /\ orders'[id] = settled
        /\ \A i \in 1 .. Len(orders) : i # id => orders'[i] = orders[i]
    BY <1>3, <1>5, <1>6, <1>7, ExceptSeq
  <2> QED
    BY <1>7, <2>1, LenProperties
<1>9. PendingIds' = IF IsTerminal(orders'[id]) THEN PendingIds \ {id} ELSE PendingIds
  BY <1>5, <1>8 DEF PendingIds, Without, Restrict
<1>10. IsTerminal(orders'[id]) <=> result.status \in {"filled", "cancelled", "rejected"}
  BY <1>6, <1>8 DEF IsTerminal
<1>11. WorkedStep(id, result)
  BY <1>2, <1>3, <1>4, <1>5, <1>6, <1>8, <1>9, <1>10 DEF WorkedStep, result
<1> QED
  BY <1>1, <1>11 DEF id, result

\* An order that a snapshot has worked and that has not ended works with the rest.
LEMMA WorkedGoesOn ==
  ASSUME NEW id, NEW result, WorkedStep(id, result), ~IsTerminal(orders'[id])
  PROVE  Working(orders'[id])
<1>1. id \in DOMAIN orders' /\ orders' \in Seq(Orders) /\ orders[id] \in Orders
  BY DEF WorkedStep, Working
<1>2. /\ orders'[id].qty = orders[id].qty /\ orders'[id].tif = orders[id].tif
      /\ orders'[id] \in Orders /\ orders'[id].qty \in Nat /\ orders'[id].filled \in Nat
      /\ orders[id].filled \in Nat
  BY <1>1, ElementOfSeq, LenProperties, OrderFields DEF WorkedStep, SameTerms
<1>3. /\ orders'[id].filled <= orders'[id].qty
      /\ orders'[id].status = "filled" <=> orders'[id].filled = orders'[id].qty
  BY <1>1, <1>2 DEF WorkedStep, Worked
<1>4. orders'[id].status # "filled" /\ orders'[id].filled < orders'[id].qty
  BY <1>2, <1>3 DEF IsTerminal
<1>5. orders'[id].tif = "post_only" => orders'[id].filled = 0
  <2>1. /\ orders[id].tif = "post_only" => orders[id].filled = 0
        /\ result.status # "filled" /\ orders[id].tif = "post_only" => result.fill.qty = 0
        /\ orders'[id].filled = orders[id].filled + result.fill.qty
        /\ orders'[id].status = result.status
    BY DEF WorkedStep, Worked, Working
  <2> QED
    BY <1>2, <1>4, <2>1
<1> QED
  BY <1>2, <1>4, <1>5 DEF Working

(* An order that a snapshot has worked is still in order: it works with the  *)
(* rest of its quantity, or it has left the queue.                            *)
LEMMA WorkedKeepsQueue ==
  ASSUME QueueInv, NEW id, NEW result, WorkedStep(id, result)
  PROVE  QueueInv'
<1>1. /\ id \in DOMAIN orders /\ id \in PendingIds /\ DOMAIN orders' = DOMAIN orders
      /\ orders' \in Seq(Orders) /\ orders[id] \in Orders /\ orders'[id] \in Orders
      /\ \A i \in DOMAIN orders \ {id} : orders'[i] = orders[i]
      /\ PendingIds' = IF IsTerminal(orders'[id]) THEN PendingIds \ {id} ELSE PendingIds
  BY ElementOfSeq, LenProperties DEF WorkedStep, Working
<1>2. /\ orders'[id].qty = orders[id].qty /\ orders'[id].qty \in Nat
      /\ orders'[id].filled \in Nat /\ orders[id].filled \in Nat
  BY <1>1, OrderFields DEF WorkedStep, SameTerms
<1>3. /\ orders'[id].filled <= orders'[id].qty /\ orders'[id].qty > 0
      /\ orders'[id].status = "filled" <=> orders'[id].filled = orders'[id].qty
  BY <1>1, <1>2 DEF WorkedStep, Worked, Working
<1>4. ~IsTerminal(orders'[id]) => Working(orders'[id])
  BY WorkedGoesOn
<1>5. PendingAreLive'
  BY <1>1 DEF QueueInv, PendingAreLive
<1>6. NoOverfill'
  BY <1>1, <1>3 DEF QueueInv, NoOverfill
<1>7. \A i \in PendingIds' : Working(orders'[i])
  BY <1>1, <1>4 DEF QueueInv
<1>8. PendingIds' \subseteq DOMAIN orders'
  BY <1>1 DEF QueueInv
<1> QED
  BY <1>1, <1>5, <1>6, <1>7, <1>8 DEF QueueInv

\* Working an order keeps the account, the queue and the call of on_book.
LEMMA WorkOrderKeepsCore ==
  ASSUME CoreInv, TickInv, WorkOrder
  PROVE  CoreInv' /\ TickInv' /\ Len(orders') = Len(orders)
<1>1. PICK id, result : WorkedStep(id, result)
  BY WorkOrderShape DEF CoreInv, QueueInv
<1>2. QueueInv'
  BY <1>1, WorkedKeepsQueue DEF CoreInv
<1>3. AccountInv' /\ GuardsOK'
  <2>1. CASE HasFill(result)
    <3>1. /\ result.fill.qty \in Nat \ {0} /\ result.fill.price \in Int
          /\ result.fill.fee \in Int /\ orders[id] \in Orders
      BY <1>1, <2>1 DEF WorkedStep, Worked, Working, HasFill
    <3>2. BookFill(orders[id], result.fill) /\ UNCHANGED exits
      BY <1>1, <2>1 DEF WorkedStep
    <3> QED
      BY <3>1, <3>2, BookFillKeeps DEF CoreInv, GuardsOK, AccountStepOK
  <2>2. CASE ~HasFill(result)
    BY <1>1, <2>2, AccountStutter DEF WorkedStep, CoreInv, GuardsOK
  <2> QED
    BY <2>1, <2>2
<1>4. AgesOK'
  <2>1. pending' = IF IsTerminal(orders'[id]) THEN Without({id}) ELSE pending
    BY <1>1 DEF WorkedStep
  <2> QED
    BY <2>1 DEF CoreInv, AgesOK, Without, Restrict, PendingIds
<1>5. TickInv'
  <2>1. /\ tick' = [tick EXCEPT !.todo = tick.todo \ {id}] /\ id \in tick.todo
        /\ PendingIds \ {id} \subseteq PendingIds'
        /\ \A i \in DOMAIN orders \ {id} : orders'[i] = orders[i]
        /\ PendingIds \subseteq DOMAIN orders
    BY <1>1 DEF WorkedStep, CoreInv, QueueInv
  <2>2. /\ tick' \in [running : BOOLEAN, book : BookTops \union {NoBook}, todo : SUBSET Nat]
        /\ tick'.running = tick.running /\ tick'.book = tick.book
        /\ tick'.todo = tick.todo \ {id}
    BY <2>1 DEF TickInv
  <2>3. tick.running
    BY DEF WorkOrder
  <2> QED
    BY <2>1, <2>2, <2>3 DEF TickInv
<1> QED
  BY <1>1, <1>2, <1>3, <1>4, <1>5 DEF CoreInv, WorkedStep

(* The exit of a protection is for the whole of the position. *)
ExitOf(s) == [ExitOrder(s, "risk_engine") EXCEPT !.status = "triggered"]

\* The protection of a position exits all of it in one fill.
LEMMA ExitFillIsWhole ==
  ASSUME AccountTypeOK, NEW s \in Symbols, IsOpen(positions[s]), NEW book \in BookTops
  PROVE  LET order == ExitOf(s)
             fill == TryFill(order, book).fill
         IN /\ order \in Orders /\ order.symbol = s
            /\ order.side = Opposite(positions[s].side)
            /\ order.stopLoss = NoPrice /\ order.takeProfit = NoPrice
            /\ fill.qty = positions[s].qty
            /\ fill.qty \in Nat \ {0} /\ fill.price \in Int /\ fill.fee \in Int
<1> DEFINE exit == ExitOrder(s, "risk_engine")
           order == [exit EXCEPT !.status = "triggered"]
<1>1. /\ exit \in Orders /\ exit.symbol = s /\ exit.type = "market" /\ exit.filled = 0
      /\ exit.side = Opposite(positions[s].side) /\ exit.qty = positions[s].qty
      /\ exit.stopLoss = NoPrice /\ exit.takeProfit = NoPrice
  BY ExitOrderIsNew DEF IsNew, Sources
<1> HIDE DEF exit
<1>2. /\ order \in Orders /\ SameTerms(order, exit) /\ order.filled = 0
  BY <1>1, OrderUpdates DEF OrderStatuses
<1> HIDE DEF order
<1>3. /\ order.symbol = s /\ order.type = "market"
      /\ order.side = Opposite(positions[s].side) /\ order.qty = positions[s].qty
      /\ order.stopLoss = NoPrice /\ order.takeProfit = NoPrice
  BY <1>1, <1>2 DEF SameTerms
<1>4. positions[s].qty \in Nat /\ positions[s].qty > 0
  BY PositionTypes DEF IsOpen
<1>5. TryFill(order, book) = FillMarket(order, book)
  BY <1>3 DEF TryFill
<1>6. /\ Worked(order, FillMarket(order, book))
      /\ FillMarket(order, book).fill.qty = order.qty - order.filled
  BY <1>2, <1>3, <1>4, FillMarketWorks DEF Remaining
<1>7. /\ TryFill(order, book).fill.qty = positions[s].qty
      /\ TryFill(order, book).fill.price \in Int /\ TryFill(order, book).fill.fee \in Int
  BY <1>2, <1>3, <1>4, <1>5, <1>6 DEF Worked
<1>8. order = ExitOf(s)
  BY DEF order, exit, ExitOf
<1> QED
  BY <1>2, <1>3, <1>4, <1>7, <1>8

(* A fill of the whole of a position, on the other side, leaves none. *)
LEMMA WholeFillFlattens ==
  ASSUME AccountInv, NEW s \in Symbols, NEW order, NEW fill, BookFill(order, fill),
         IsOpen(positions[s]), order.symbol = s, order.side = Opposite(positions[s].side),
         fill.qty = positions[s].qty
  PROVE  positions'[s] = Flat
<1> DEFINE booked == [symbol |-> order.symbol, side |-> order.side, qty |-> fill.qty,
                      price |-> fill.price, fee |-> fill.fee]
<1>1. ApplyFill(booked)
  BY DEF BookFill
<1>2. /\ booked.symbol = s /\ booked.side = Opposite(positions[s].side)
      /\ booked.qty = positions[s].qty
  OBVIOUS
<1>3. positions[s].side # booked.side /\ positions[s].qty \in Nat /\ ~Reduces(positions[s], booked)
  BY <1>2, BeforeFill DEF Opposite, Sides, Reduces
<1> HIDE DEF booked
<1>4. ClosePosition(booked)
  BY <1>1, <1>2, <1>3 DEF ApplyFill, OpenPosition, AddToPosition, ReducePosition
<1>5. Leftover(positions[s], booked) = 0
  BY <1>2, <1>3 DEF Leftover
<1> QED
  BY <1>2, <1>4, <1>5 DEF ClosePosition, AccountInv, AccountTypeOK

(* The exit of a protection leaves no position and no protection behind. *)
LEMMA ExitLeavesNothing ==
  ASSUME AccountInv, GuardsOK, NEW s \in Symbols, IsOpen(positions[s]), NEW book \in BookTops,
         BookFill(ExitOf(s), TryFill(ExitOf(s), book).fill)
  PROVE  positions'[s] = Flat /\ protect'[s] = NoProtection
<1> DEFINE order == ExitOf(s)
           fill == TryFill(order, book).fill
<1>1. /\ order.symbol = s /\ order.side = Opposite(positions[s].side)
      /\ fill.qty = positions[s].qty
  BY ExitFillIsWhole DEF AccountInv
<1>2. BookFill(order, fill)
  OBVIOUS
<1> HIDE DEF fill, order
<1>3. positions'[s] = Flat
  BY <1>1, <1>2, WholeFillFlattens
<1>4. ~IsOpen(positions'[s])
  BY <1>3 DEF IsOpen, Flat
<1>5. protect'[s] = NoProtection
  BY <1>1, <1>2, <1>4 DEF BookFill, GuardsOK
<1> QED
  BY <1>3, <1>5

(* The end of on_book, in the terms of the exit. *)
LEMMA EndTickShape ==
  ASSUME EndTick
  PROVE  LET s == tick.book.symbol
             fill == TryFill(ExitOf(s), tick.book).fill
         IN /\ tick.running /\ tick.todo = {} /\ tick' = Quiet
            /\ UNCHANGED <<orders, pending>>
            /\ IF Breached(positions[s], protect[s], tick.book)
               THEN /\ BookFill(ExitOf(s), fill)
                    /\ exits' = [exits EXCEPT ![s] = @ + Sign(ExitOf(s).side) * fill.qty]
               ELSE UNCHANGED <<accountVars, protect, exits>>
  BY DEF EndTick, ExitOf

\* The end of on_book keeps the account and the queue.
LEMMA EndTickKeepsCore ==
  ASSUME CoreInv, TickInv, EndTick
  PROVE  CoreInv' /\ TickInv'
<1> DEFINE s == tick.book.symbol
           order == ExitOf(s)
           fill == TryFill(order, tick.book).fill
<1>1. tick.book \in BookTops /\ s \in Symbols /\ tick' = Quiet /\ UNCHANGED <<orders, pending>>
  <2>1. tick.running /\ tick' = Quiet /\ UNCHANGED <<orders, pending>>
    BY DEF EndTick
  <2> QED
    BY <2>1 DEF TickInv, BookTops
<1>2. QueueInv' /\ AgesOK'
  BY <1>1 DEF CoreInv, QueueInv, AgesOK, PendingAreLive, NoOverfill, PendingIds
<1>3. TickInv'
  BY <1>1 DEF TickInv, Quiet
<1>4. AccountInv' /\ GuardsOK'
  <2>1. CASE Breached(positions[s], protect[s], tick.book)
    <3>1. IsOpen(positions[s])
      BY <2>1 DEF Breached
    <3>2. /\ BookFill(order, fill)
          /\ exits' = [exits EXCEPT ![s] = @ + Sign(order.side) * fill.qty]
      BY <2>1, EndTickShape
    <3>3. /\ order \in Orders /\ fill.qty \in Nat \ {0} /\ fill.price \in Int /\ fill.fee \in Int
      BY <1>1, <3>1, ExitFillIsWhole DEF CoreInv, AccountInv
    <3> HIDE DEF order, fill, s
    <3>4. AccountStepOK /\ protect' \in [Symbols -> [stopLoss : Nat, takeProfit : Nat]]
      BY <3>2, <3>3, BookFillKeeps DEF CoreInv
    <3>5. exits' \in [Symbols -> Int]
      <4>1. Sign(order.side) * fill.qty \in Int
        BY <3>3 DEF Sign
      <4> QED
        BY <1>1, <3>2, <4>1 DEF CoreInv, GuardsOK
    <3> QED
      BY <3>4, <3>5 DEF AccountStepOK, GuardsOK
  <2>2. CASE ~Breached(positions[s], protect[s], tick.book)
    <3>1. UNCHANGED <<accountVars, protect, exits>>
      BY <2>2, EndTickShape
    <3> QED
      BY <3>1, AccountStutter DEF CoreInv, GuardsOK
  <2> QED
    BY <2>1, <2>2
<1> QED
  BY <1>2, <1>3, <1>4 DEF CoreInv

-----------------------------------------------------------------------------
(* The invariant is inductive.                                               *)

(* Between two calls of on_book nothing is left to work. *)
LEMMA CalmKeepsTick ==
  ASSUME TickInv, Calm
  PROVE  TickInv'
  BY DEF TickInv, Calm, PendingIds

\* Every action of the engine keeps its invariant.
LEMMA EngineStepKeeps ==
  ASSUME EngineInv, EngineNext
  PROVE  EngineInv'
<1>1. CoreInv /\ TickInv /\ Len(orders) <= MaxOrders /\ Len(orders) \in Nat
  BY LenProperties DEF EngineInv, CoreInv, QueueInv
<1>2. ASSUME NEW order \in Requests, Calm, Submit(order) PROVE EngineInv'
  <2>1. IsNew(order)
    BY RequestAssumption
  <2>2. CoreInv' /\ Len(orders') = Len(orders) + 1 /\ TickInv'
    BY <1>1, <1>2, <2>1, SubmitKeepsCore, CalmKeepsTick
  <2>3. Len(orders) < MaxOrders
    BY <1>2 DEF Submit
  <2> QED
    BY <1>1, <2>2, <2>3, EngineAssumption DEF EngineInv
<1>3. ASSUME NEW id \in PendingIds, Calm, Cancel(id) PROVE EngineInv'
  BY <1>1, <1>3, CancelKeepsCore, CalmKeepsTick DEF EngineInv
<1>4. ASSUME Calm, FlattenAll PROVE EngineInv'
  BY <1>1, <1>4, FlattenKeepsCore, CalmKeepsTick DEF EngineInv
<1>5. ASSUME NEW s \in Symbols, NEW stop \in ProtectPrices \union {NoPrice},
             NEW target \in ProtectPrices \union {NoPrice}, Calm, Protect(s, stop, target)
      PROVE  EngineInv'
  <2>1. stop \in Nat /\ target \in Nat
    BY EngineAssumption DEF NoPrice
  <2>2. CoreInv' /\ TickInv' /\ UNCHANGED <<accountVars, orders, pending>>
    BY <1>1, <1>5, <2>1, ProtectKeepsCore, CalmKeepsTick
  <2> QED
    BY <1>1, <2>2 DEF EngineInv
<1>6. ASSUME Calm, Elapse PROVE EngineInv'
  <2>1. CoreInv' /\ TickInv'
    BY <1>1, <1>6, AgingKeepsCore, CalmKeepsTick DEF Elapse
  <2> QED
    BY <1>1, <1>6, <2>1 DEF EngineInv, Elapse
<1>7. ASSUME NEW book \in Books, OnBook(book) PROVE EngineInv'
  <2>1. book \in BookTops
    BY BookAssumption
  <2>2. CoreInv' /\ TickInv'
    BY <1>1, <1>7, <2>1, OnBookKeepsCore
  <2> QED
    BY <1>1, <1>7, <2>2 DEF EngineInv, OnBook
<1>8. ASSUME WorkOrder PROVE EngineInv'
  BY <1>1, <1>8, WorkOrderKeepsCore DEF EngineInv
<1>9. ASSUME EndTick PROVE EngineInv'
  <2>1. CoreInv' /\ TickInv'
    BY <1>1, <1>9, EndTickKeepsCore
  <2> QED
    BY <1>1, <1>9, <2>1 DEF EngineInv, EndTick
<1> QED
  BY <1>2, <1>3, <1>4, <1>5, <1>6, <1>7, <1>8, <1>9 DEF EngineNext

\* So does a step in which nothing happens.
LEMMA EngineStutterKeeps ==
  ASSUME EngineInv, UNCHANGED engineVars
  PROVE  EngineInv'
<1>1. UNCHANGED accountVars /\ UNCHANGED <<orders, pending, protect, tick, exits>>
  BY DEF engineVars, bookVars
<1>2. AccountInv'
  BY <1>1, AccountStutter DEF EngineInv, CoreInv
<1> QED
  BY <1>1, <1>2 DEF EngineInv, CoreInv, QueueInv, AgesOK, GuardsOK, TickInv,
                    PendingAreLive, NoOverfill, PendingIds

\* The invariant of the engine holds for every set of symbols, requests and
\* books.
THEOREM EngineInvariant == EngineSpec => []EngineInv
<1>1. EngineInv /\ [EngineNext]_engineVars => EngineInv'
  BY EngineStepKeeps, EngineStutterKeeps
<1> QED
  BY EngineInitial, <1>1, PTL DEF EngineSpec

(* Type correctness of the engine. *)
THEOREM EngineTypeCorrect == EngineSpec => []EngineTypeOK
<1>1. EngineInv => EngineTypeOK
  BY DEF EngineInv, CoreInv, AccountInv, QueueInv, AgesOK, GuardsOK, TickInv, EngineTypeOK
<1> QED
  BY EngineInvariant, <1>1, PTL

(* An order is in the queue exactly while it is live. *)
THEOREM LiveOrdersWork == EngineSpec => []PendingAreLive
<1>1. EngineInv => PendingAreLive
  BY DEF EngineInv, CoreInv, QueueInv
<1> QED
  BY EngineInvariant, <1>1, PTL

(* No order trades more than its quantity; filled means all of it. *)
THEOREM OrdersNeverOverfill == EngineSpec => []NoOverfill
<1>1. EngineInv => NoOverfill
  BY DEF EngineInv, CoreInv, QueueInv
<1> QED
  BY EngineInvariant, <1>1, PTL

(* Under the engine, whose fills the simulator computes, the account keeps    *)
(* its identities.                                                            *)
THEOREM EngineKeepsAccount ==
  EngineSpec => [](PositionIsNetOfFills /\ StakeCoversPosition /\ BookedIsCashPlusCost)
<1>1. EngineInv => PositionIsNetOfFills /\ StakeCoversPosition /\ BookedIsCashPlusCost
  BY DEF EngineInv, CoreInv, AccountInv
<1> QED
  BY EngineInvariant, <1>1, PTL

-----------------------------------------------------------------------------
(* What a step may do to the engine, whoever takes it.                       *)

(* Orders arrive and make others leave; or a call of on_book works an order,  *)
(* or ends; or nothing happens to the orders and the account.  Whatever       *)
(* composes the engine with more has only these effects on it.                *)
EngineEffect ==
  \/ /\ \E batch, gone : Arrival(batch, gone)
     /\ UNCHANGED <<accountVars, exits>> /\ (tick.running => tick'.running)
  \/ WorkOrder
  \/ EndTick
  \/ UNCHANGED <<accountVars, exits, orders, PendingIds>> /\ (tick.running => tick'.running)

\* Every step of the engine alone has one of these effects.
LEMMA EngineStepEffect == EngineInv /\ [EngineNext]_engineVars => EngineEffect
<1> SUFFICES ASSUME EngineInv, [EngineNext]_engineVars PROVE EngineEffect
  OBVIOUS
<1>1. CoreInv /\ TickInv
  BY DEF EngineInv
<1>2. ASSUME NEW order \in Requests, Calm, Submit(order) PROVE EngineEffect
  BY <1>1, <1>2, RequestAssumption, SubmitKeepsCore DEF EngineEffect, Calm, Submit
<1>3. ASSUME NEW id \in PendingIds, Calm, Cancel(id) PROVE EngineEffect
  BY <1>1, <1>3, CancelKeepsCore DEF EngineEffect, Calm, Cancel
<1>4. ASSUME Calm, FlattenAll PROVE EngineEffect
  BY <1>1, <1>4, FlattenKeepsCore DEF EngineEffect, Calm, FlattenAll
<1>5. ASSUME NEW s, NEW stop, NEW target, Calm, Protect(s, stop, target) PROVE EngineEffect
  BY <1>5 DEF EngineEffect, Calm, Protect, PendingIds
<1>6. ASSUME Calm, Elapse PROVE EngineEffect
  BY <1>6 DEF EngineEffect, Calm, Elapse, PendingIds
<1>7. ASSUME NEW book, ~tick.running, OnBook(book) PROVE EngineEffect
  BY <1>7 DEF EngineEffect, OnBook, PendingIds
<1>8. CASE UNCHANGED engineVars
  BY <1>8 DEF EngineEffect, engineVars, bookVars, PendingIds
<1> QED
  BY <1>2, <1>3, <1>4, <1>5, <1>6, <1>7, <1>8 DEF EngineNext, EngineEffect

-----------------------------------------------------------------------------
(* What a snapshot leaves behind.                                            *)

(* A call of on_book ends in its last step only. *)
LEMMA OnlyEndTickEnds ==
  ASSUME TickInv, EngineEffect, tick.running, ~tick'.running
  PROVE  EndTick
<1>1. ~WorkOrder
  BY DEF WorkOrder, TickInv
<1> QED
  BY <1>1 DEF EngineEffect

(* A protection that is not breached has the mid of the book inside it. *)
LEMMA UnbreachedIsInside ==
  ASSUME NEW pos, NEW protection \in [stopLoss : Nat, takeProfit : Nat], NEW book,
         Mid2(book) \in Nat, IsOpen(pos), ~Breached(pos, protection, book)
  PROVE  InsideProtections(pos, protection, Mid2(book))
<1>1. protection.stopLoss \in Nat /\ protection.takeProfit \in Nat
  OBVIOUS
<1> QED
  BY <1>1 DEF Breached, InsideProtections

(* What a call of on_book leaves open is inside its protections. *)
LEMMA EffectLeavesNoBreach ==
  ASSUME EngineInv, EngineEffect, tick.running, ~tick'.running,
         IsOpen(positions'[tick.book.symbol])
  PROVE  InsideProtections(positions'[tick.book.symbol], protect'[tick.book.symbol],
                           Mid2(tick.book))
<1> DEFINE s == tick.book.symbol
<1>1. EndTick /\ CoreInv /\ TickInv /\ tick.book \in BookTops
  BY OnlyEndTickEnds DEF EngineInv, TickInv
<1>2. s \in Symbols /\ Mid2(tick.book) \in Nat
  <2>1. "buy" \in Sides
    BY DEF Sides
  <2> QED
    BY <1>1, <2>1, BookFields
<1>3. CASE Breached(positions[s], protect[s], tick.book)
  <2>1. IsOpen(positions[s])
    BY <1>3 DEF Breached
  <2>2. BookFill(ExitOf(s), TryFill(ExitOf(s), tick.book).fill)
    BY <1>1, <1>3, EndTickShape
  <2>3. positions'[s] = Flat
    BY <1>1, <1>2, <2>1, <2>2, ExitLeavesNothing DEF CoreInv
  <2> QED
    BY <2>3 DEF IsOpen, Flat
<1>4. CASE ~Breached(positions[s], protect[s], tick.book)
  <2>1. positions' = positions /\ protect' = protect
    BY <1>1, <1>4, EndTickShape DEF accountVars
  <2>2. protect[s] \in [stopLoss : Nat, takeProfit : Nat]
    BY <1>1, <1>2 DEF CoreInv, GuardsOK
  <2> HIDE DEF s
  <2>3. IsOpen(positions[s])
    BY <2>1 DEF s
  <2>4. InsideProtections(positions[s], protect[s], Mid2(tick.book))
    BY <1>2, <1>4, <2>2, <2>3, UnbreachedIsInside
  <2> QED
    BY <2>1, <2>4 DEF s
<1> QED
  BY <1>3, <1>4

(* No snapshot leaves a position open whose stop or target it has passed: the *)
(* exit of on_book is for the whole of it.                                    *)
THEOREM ProtectionsHold == EngineSpec => NoSnapshotLeavesBreach
<1>1. EngineInv /\ [EngineNext]_engineVars
        => [tick.running /\ ~tick'.running =>
              LET s == tick.book.symbol
              IN IsOpen(positions'[s]) =>
                   InsideProtections(positions'[s], protect'[s], Mid2(tick.book))]_engineVars
  BY EngineStepEffect, EffectLeavesNoBreach
<1> QED
  BY EngineInvariant, <1>1, PTL DEF EngineSpec, NoSnapshotLeavesBreach

-----------------------------------------------------------------------------
(* What the account books.                                                   *)

(* Every step books one fill for one symbol, or none. *)
LEMMA EffectBooks ==
  ASSUME EngineInv, EngineEffect
  PROVE  AccountStepOK \/ UNCHANGED accountVars
<1>1. CoreInv /\ TickInv
  BY DEF EngineInv
<1>2. CASE WorkOrder
  <2>1. PICK id, result : WorkedStep(id, result)
    BY <1>1, <1>2, WorkOrderShape DEF CoreInv, QueueInv
  <2>2. CASE HasFill(result)
    <3>1. /\ result.fill.qty \in Nat \ {0} /\ result.fill.price \in Int
          /\ result.fill.fee \in Int /\ orders[id] \in Orders
      BY <2>1, <2>2 DEF WorkedStep, Worked, Working, HasFill
    <3>2. BookFill(orders[id], result.fill)
      BY <2>1, <2>2 DEF WorkedStep
    <3> QED
      BY <1>1, <3>1, <3>2, BookFillKeeps DEF CoreInv
  <2>3. CASE ~HasFill(result)
    BY <2>1, <2>3 DEF WorkedStep
  <2> QED
    BY <2>2, <2>3
<1>3. CASE EndTick
  <2> DEFINE s == tick.book.symbol
  <2>1. tick.book \in BookTops /\ s \in Symbols
    <3>1. "buy" \in Sides
      BY DEF Sides
    <3> QED
      BY <1>1, <1>3, <3>1, BookFields DEF EndTick, TickInv
  <2>2. CASE Breached(positions[s], protect[s], tick.book)
    <3>1. IsOpen(positions[s])
      BY <2>2 DEF Breached
    <3>2. BookFill(ExitOf(s), TryFill(ExitOf(s), tick.book).fill)
      BY <1>3, <2>2, EndTickShape
    <3> QED
      BY <1>1, <2>1, <3>1, <3>2, ExitFillIsWhole, BookFillKeeps DEF CoreInv, AccountInv
  <2>3. CASE ~Breached(positions[s], protect[s], tick.book)
    BY <1>3, <2>3, EndTickShape
  <2> QED
    BY <2>2, <2>3
<1> QED
  BY <1>2, <1>3 DEF EngineEffect

(* Conservation, under the engine: the balance moves with the books of the    *)
(* symbol that a snapshot trades, and with nothing else.                      *)
THEOREM EngineConserves == EngineSpec => BalanceMovesWithBooks
<1>1. EngineInv /\ [EngineNext]_engineVars
        => [\E s \in Symbols :
              /\ balance' - balance = BookedPnl(s)' - BookedPnl(s)
              /\ \A t \in Symbols \ {s} : BookedPnl(t)' = BookedPnl(t)]_accountVars
  BY EngineStepEffect, EffectBooks DEF AccountStepOK, BooksOf
<1> QED
  BY EngineInvariant, <1>1, PTL DEF EngineSpec, BalanceMovesWithBooks

(* The balance is what the account has booked for all its symbols, after a    *)
(* step that books one fill or none.                                          *)
LEMMA EffectKeepsBalance ==
  ASSUME EngineInv, BalanceIsBookedPnl, EngineEffect
  PROVE  BalanceIsBookedPnl'
<1>1. CASE AccountStepOK
  BY <1>1, BooksKeepBalance DEF EngineInv, CoreInv
<1>2. CASE UNCHANGED accountVars
  BY <1>2, BalanceStutters
<1> QED
  BY <1>1, <1>2, EffectBooks

(* The balance is the starting balance plus the booked pnl of every symbol,  *)
(* whatever orders trade and whatever protections exit.                      *)
THEOREM EngineBalanceIsBooked == EngineSpec => []BalanceIsBookedPnl
<1>1. EngineInit => BalanceIsBookedPnl
  BY BalanceInitial DEF EngineInit
<1>2. EngineInv /\ BalanceIsBookedPnl /\ [EngineNext]_engineVars => BalanceIsBookedPnl'
  BY EngineStepEffect, EffectKeepsBalance
<1> QED
  BY EngineInvariant, <1>1, <1>2, PTL DEF EngineSpec

-----------------------------------------------------------------------------
(* The engine implements the life of an order.                               *)

(* The two maps that a client sees. *)
WorkingMap ==
  [i \in PendingIds |-> [traded |-> orders[i].filled, left |-> Remaining(orders[i])]]
EndedMap ==
  [i \in DOMAIN orders \ PendingIds |->
     [how |-> orders[i].status, traded |-> orders[i].filled]]

(* Orders that arrive do so once, and those that make room end where they are. *)
LEMMA ArrivalIsArrive ==
  ASSUME QueueInv, NEW batch, NEW gone, Arrival(batch, gone), Len(orders') <= MaxOrders
  PROVE  Life!LifeNext
<1> DEFINE n == Len(orders)
           m == Len(batch)
           new == n + 1 .. n + m
           refused == {i \in new : ~Admissible(batch[i - n])}
<1>1. /\ n \in Nat /\ m \in Nat /\ DOMAIN orders = 1 .. n /\ DOMAIN orders' = 1 .. n + m
      /\ Len(orders') = n + m
      /\ \A i \in 1 .. n :
           /\ orders'[i].filled = orders[i].filled
           /\ i \in gone => orders'[i].status = "cancelled"
           /\ i \notin gone => orders'[i] = orders[i]
      /\ \A i \in new :
           /\ orders'[i].filled = 0
           /\ orders'[i].status = IF Admissible(batch[i - n]) THEN "accepted" ELSE "rejected"
      /\ AcceptedIds(batch) = {i \in new : Admissible(batch[i - n])}
  BY ArrivalShape DEF QueueInv
<1>2. /\ gone \subseteq PendingIds /\ PendingIds \subseteq 1 .. n
      /\ PendingIds' = (PendingIds \ gone) \union AcceptedIds(batch)
  BY <1>1 DEF Arrival, QueueInv
<1>3. QueueInv'
  BY ArrivalKeepsQueue
<1>4. AcceptedIds(batch) = new \ refused
  BY <1>1
<1>5. \A i \in refused : orders'[i].status = "rejected" /\ orders'[i].filled = 0
  BY <1>1
<1>6. new \subseteq 1 .. MaxOrders /\ gone \subseteq 1 .. MaxOrders
  BY <1>1, <1>2, EngineAssumption
<1>7. new \intersect (1 .. n) = {} /\ 1 .. n + m = (1 .. n) \union new
  BY <1>1
<1>8. refused \subseteq new
  OBVIOUS
<1> HIDE DEF n, m, new, refused
<1>9. DOMAIN WorkingMap = PendingIds /\ DOMAIN EndedMap = (1 .. n) \ PendingIds
  BY <1>1 DEF WorkingMap, EndedMap
<1>10. WorkingMap' \in [(PendingIds \ gone) \union (new \ refused) -> Life!Progress]
  <2>1. ASSUME NEW i \in PendingIds'
        PROVE  orders'[i].filled \in Nat /\ Remaining(orders'[i]) \in Nat \ {0}
    <3>1. Working(orders'[i])
      BY <1>3 DEF QueueInv
    <3> QED
      BY <3>1, OrderFields DEF Working, Remaining
  <2>2. PendingIds' = (PendingIds \ gone) \union (new \ refused)
    BY <1>2, <1>4
  <2> QED
    BY <2>1, <2>2 DEF WorkingMap, Life!Progress
<1>11. \A i \in PendingIds \ gone : WorkingMap'[i] = WorkingMap[i]
  BY <1>1, <1>2 DEF WorkingMap
<1>12. \A i \in new \ refused : WorkingMap'[i].traded = 0
  BY <1>1, <1>2, <1>4 DEF WorkingMap
<1>13. EndedMap' = [i \in ((1 .. n) \ PendingIds) \union gone \union refused |->
                      CASE i \in refused -> Life!Fate("rejected", 0)
                        [] i \in gone -> Life!Fate("cancelled", WorkingMap[i].traded)
                        [] OTHER -> EndedMap[i]]
  <2> DEFINE ids == ((1 .. n) \ PendingIds) \union gone \union refused
             fate(i) == CASE i \in refused -> Life!Fate("rejected", 0)
                          [] i \in gone -> Life!Fate("cancelled", WorkingMap[i].traded)
                          [] OTHER -> EndedMap[i]
  <2>1. DOMAIN orders' \ PendingIds' = ids
    BY <1>1, <1>2, <1>4, <1>7, <1>8
  <2>2. ASSUME NEW i \in ids
        PROVE  [how |-> orders'[i].status, traded |-> orders'[i].filled] = fate(i)
    <3>1. CASE i \in refused
      <4>1. i \notin gone
        BY <1>2, <1>7, <1>8, <3>1
      <4> QED
        BY <1>5, <3>1, <4>1 DEF Life!Fate
    <3>2. CASE i \in gone /\ i \notin refused
      <4>1. i \in 1 .. n /\ i \in PendingIds
        BY <1>2, <3>2
      <4>2. WorkingMap[i].traded = orders'[i].filled /\ orders'[i].status = "cancelled"
        BY <1>1, <3>2, <4>1 DEF WorkingMap
      <4> QED
        BY <3>2, <4>2 DEF Life!Fate
    <3>3. CASE i \notin gone /\ i \notin refused
      <4>1. i \in (1 .. n) \ PendingIds
        BY <3>3
      <4>2. EndedMap[i] = [how |-> orders'[i].status, traded |-> orders'[i].filled]
        BY <1>1, <3>3, <4>1 DEF EndedMap
      <4> QED
        BY <3>3, <4>2
    <3> QED
      BY <3>1, <3>2, <3>3
  <2>3. EndedMap' = [i \in DOMAIN orders' \ PendingIds' |->
                       [how |-> orders'[i].status, traded |-> orders'[i].filled]]
    BY DEF EndedMap
  <2> HIDE DEF fate, ids
  <2>4. EndedMap' = [i \in ids |-> fate(i)]
    BY <2>1, <2>2, <2>3
  <2> QED
    BY <2>4 DEF fate, ids
<1>14. Life!Arrive(new, refused, gone)
  <2>1. new \intersect (DOMAIN WorkingMap \union DOMAIN EndedMap) = {}
    BY <1>2, <1>7, <1>9
  <2> QED
    BY <1>2, <1>8, <1>9, <1>10, <1>11, <1>12, <1>13, <2>1
       DEF Life!Arrive, Life!Known, WorkingMap, EndedMap
<1> QED
  BY <1>6, <1>8, <1>14 DEF Life!LifeNext

(* A snapshot works an order: it trades, it ends, or a client sees nothing. *)
LEMMA WorkedIsLife ==
  ASSUME QueueInv, NEW id, NEW result, WorkedStep(id, result), Len(orders) <= MaxOrders
  PROVE  Life!LifeNext \/ (WorkingMap' = WorkingMap /\ EndedMap' = EndedMap)
<1>1. /\ id \in PendingIds /\ id \in DOMAIN orders /\ DOMAIN orders' = DOMAIN orders
      /\ \A i \in DOMAIN orders \ {id} : orders'[i] = orders[i]
      /\ PendingIds' = IF IsTerminal(orders'[id]) THEN PendingIds \ {id} ELSE PendingIds
      /\ PendingIds \subseteq DOMAIN orders
  BY DEF WorkedStep, QueueInv
<1>2. /\ orders[id].filled \in Nat /\ orders[id].qty \in Nat /\ orders[id].filled < orders[id].qty
      /\ orders'[id].qty = orders[id].qty
      /\ result.fill.qty \in Nat
      /\ orders'[id].filled = orders[id].filled + result.fill.qty
      /\ orders'[id].filled <= orders[id].qty
      /\ orders'[id].status = "filled" <=> orders'[id].filled = orders[id].qty
      /\ orders'[id].status \in {"cancelled", "rejected"} => result.fill.qty = 0
      /\ orders'[id].status = "rejected" => orders[id].filled = 0
      /\ IsTerminal(orders'[id]) <=> orders'[id].status \in {"filled", "cancelled", "rejected"}
  BY OrderFields DEF WorkedStep, Worked, Working, SameTerms
<1>3. /\ WorkingMap[id] = [traded |-> orders[id].filled, left |-> orders[id].qty - orders[id].filled]
      /\ DOMAIN WorkingMap = PendingIds /\ DOMAIN EndedMap = DOMAIN orders \ PendingIds
  BY <1>1 DEF WorkingMap, EndedMap, Remaining
<1>4. CASE IsTerminal(orders'[id])
  <2>1. PICK how \in {"filled", "cancelled", "rejected"} :
          how = orders'[id].status /\ PendingIds' = PendingIds \ {id}
    BY <1>1, <1>2, <1>4
  <2>2. WorkingMap' = [j \in DOMAIN WorkingMap \ {id} |-> WorkingMap[j]]
    BY <1>1, <1>3, <2>1 DEF WorkingMap
  <2>3. Life!Fate(how, WorkingMap[id].traded + IF how = "filled" THEN WorkingMap[id].left ELSE 0)
          = [how |-> orders'[id].status, traded |-> orders'[id].filled]
    BY <1>2, <1>3, <2>1 DEF Life!Fate
  <2>4. EndedMap' = [j \in DOMAIN EndedMap \union {id} |->
                       IF j = id
                       THEN [how |-> orders'[id].status, traded |-> orders'[id].filled]
                       ELSE EndedMap[j]]
    <3>1. DOMAIN orders' \ PendingIds' = (DOMAIN orders \ PendingIds) \union {id}
      BY <1>1, <2>1
    <3> QED
      BY <1>1, <1>3, <3>1 DEF EndedMap
  <2>5. how = "rejected" => WorkingMap[id].traded = 0
    BY <1>2, <1>3, <2>1
  <2>6. Life!End(id, how)
    BY <2>2, <2>3, <2>4, <2>5 DEF Life!End, WorkingMap, EndedMap
  <2>7. \E fate \in {"filled", "cancelled", "rejected"} : Life!End(id, fate)
    BY <2>1, <2>6
  <2>8. id \in DOMAIN WorkingMap
    BY <1>1, <1>3
  <2> QED
    BY <2>7, <2>8 DEF Life!LifeNext, WorkingMap
<1>5. CASE ~IsTerminal(orders'[id])
  <2>1. PendingIds' = PendingIds /\ orders'[id].status # "filled"
    BY <1>1, <1>2, <1>5
  <2>2. EndedMap' = EndedMap
    BY <1>1, <2>1 DEF EndedMap
  <2>3. CASE result.fill.qty = 0
    <3>1. \A i \in PendingIds : /\ orders'[i].filled = orders[i].filled
                                /\ Remaining(orders'[i]) = Remaining(orders[i])
      BY <1>1, <1>2, <2>3 DEF Remaining
    <3> QED
      BY <2>1, <2>2, <3>1 DEF WorkingMap
  <2>4. CASE result.fill.qty # 0
    <3> DEFINE qty == result.fill.qty
    <3>1. qty \in 1 .. WorkingMap[id].left - 1
      <4>1. WorkingMap[id].left = orders[id].qty - orders[id].filled
        BY <1>3
      <4>2. qty \in Nat /\ orders[id].filled + qty < orders[id].qty
        BY <1>2, <2>1
      <4> HIDE DEF qty
      <4>3. qty # 0
        BY <2>4 DEF qty
      <4> QED
        BY <1>2, <4>1, <4>2, <4>3
    <3>2. WorkingMap' = [WorkingMap EXCEPT ![id] = [traded |-> @.traded + qty, left |-> @.left - qty]]
      <4>1. Remaining(orders'[id]) = (orders[id].qty - orders[id].filled) - qty
        BY <1>2 DEF Remaining
      <4> HIDE DEF qty
      <4>2. orders'[id].filled = orders[id].filled + qty
        BY <1>2 DEF qty
      <4> QED
        BY <1>1, <1>3, <2>1, <4>1, <4>2 DEF WorkingMap
    <3>3. Life!Trade(id, qty)
      BY <2>2, <3>2 DEF Life!Trade, WorkingMap, EndedMap
    <3> QED
      BY <1>1, <1>3, <3>1, <3>3 DEF Life!LifeNext, WorkingMap
  <2> QED
    BY <2>3, <2>4
<1> QED
  BY <1>4, <1>5

(* Every step is a step in the life of its orders, or none. *)
LEMMA EffectIsLife ==
  ASSUME EngineInv, EngineEffect, EngineInv'
  PROVE  [Life!LifeNext]_(Life!lifeVars)
<1>1. /\ CoreInv /\ TickInv /\ QueueInv /\ Len(orders) <= MaxOrders
      /\ Len(orders') <= MaxOrders
  BY DEF EngineInv, CoreInv
<1>2. ASSUME NEW batch, NEW gone, Arrival(batch, gone) PROVE Life!LifeNext
  BY <1>1, <1>2, ArrivalIsArrive
<1>3. CASE WorkOrder
  BY <1>1, <1>3, WorkOrderShape, WorkedIsLife DEF Life!lifeVars, WorkingMap, EndedMap,
     CoreInv, QueueInv
<1>4. ASSUME UNCHANGED <<orders, PendingIds>> PROVE UNCHANGED Life!lifeVars
  BY <1>4 DEF Life!lifeVars
<1>5. EndTick => UNCHANGED <<orders, PendingIds>>
  BY DEF EndTick, PendingIds
<1> QED
  BY <1>2, <1>3, <1>4, <1>5 DEF EngineEffect

(* The fresh engine knows no order. *)
LEMMA LifeInitial == EngineInit => Life!LifeInit
<1> SUFFICES ASSUME EngineInit PROVE Life!LifeInit
  OBVIOUS
<1>1. PendingIds = {} /\ DOMAIN orders \ PendingIds = {}
  BY DEF EngineInit, PendingIds
<1>2. WorkingMap = << >> /\ EndedMap = << >>
  BY <1>1 DEF WorkingMap, EndedMap
<1> QED
  BY <1>2 DEF Life!LifeInit, WorkingMap, EndedMap

(* The refinement: an order arrives once, trades while it works, never more   *)
(* than it has left, and ends once, for every number of orders and any market.*)
THEOREM EngineRefinesOrderLife == EngineSpec => EngineImplementsOrderLife
<1>1. EngineInv /\ [EngineNext]_engineVars /\ EngineInv' => [Life!LifeNext]_(Life!lifeVars)
  BY EngineStepEffect, EffectIsLife
<1> QED
  BY EngineInvariant, LifeInitial, <1>1, PTL
     DEF EngineSpec, EngineImplementsOrderLife, Life!LifeSpec

-----------------------------------------------------------------------------
(* What a fill costs.                                                        *)

(* The price of a fill is no better than the touch, and a limit is honoured. *)
Priced(order, result, book) ==
  result.fill.qty > 0 =>
    LET touch == Touch(order.side, book)
        price == result.fill.price
        limited == order.type \in {"limit", "stop_limit"}
    IN /\ \E role \in {"taker", "maker"} : result.fill = MakeFill(result.fill.qty, price, role)
       /\ price \in Int
       /\ order.side = "buy" => price >= touch /\ (limited => price <= order.price)
       /\ order.side = "sell" => price <= touch /\ (limited => order.price <= price)

(* The terms decide the price, not what has been noted on the order. *)
LEMMA PricedFromNoted ==
  ASSUME NEW order, NEW noted, SameTerms(noted, order), NEW result, NEW book,
         Priced(noted, result, book)
  PROVE  Priced(order, result, book)
  BY DEF Priced, SameTerms, Touch

\* A result without a fill has nothing to price.
LEMMA NoTradePriced ==
  ASSUME NEW order, NEW noted, NEW status, NEW book
  PROVE  Priced(order, Result(noted, NoFill, status), book)
  BY DEF Priced, Result, NoFill

(* A market order pays the touch and the slippage. *)
LEMMA FillMarketPriced ==
  ASSUME NEW order \in Orders, order.filled < order.qty, NEW book \in BookTops,
         order.type \notin {"limit", "stop_limit"}
  PROVE  Priced(order, FillMarket(order, book), book)
<1> DEFINE touch == Touch(order.side, book)
           rest == Remaining(order)
           displayed == Displayed(order.side, book)
           price == SlippedPrice(touch, order.side, rest, displayed)
           fill == MakeFill(rest, price, "taker")
<1>1. order.qty \in Nat /\ order.filled \in Nat /\ order.side \in Sides
  BY OrderFields
<1>2. rest \in Nat
  BY <1>1 DEF Remaining
<1>3. touch \in Nat /\ displayed \in Nat
  BY <1>1, BookFields
<1>4. /\ price \in Int
      /\ order.side = "buy" => price >= touch
      /\ order.side = "sell" => price <= touch
  <2>1. Adjustment(touch, rest, displayed) \in Nat
    BY <1>2, <1>3, AdjustmentIsNatural
  <2> HIDE DEF touch, rest, displayed
  <2> QED
    BY <1>3, <2>1 DEF SlippedPrice
<1>5. fill.qty = rest /\ fill.price = price
  BY <1>2, <1>4, MadeFill
<1>6. FillMarket(order, book).fill = fill
  BY DEF FillMarket, Result
<1> HIDE DEF rest, displayed, price, fill
<1>7. fill = MakeFill(fill.qty, fill.price, "taker")
  BY <1>5 DEF fill
<1> QED
  BY <1>4, <1>5, <1>6, <1>7 DEF Priced

(* A limit pays the touch it has crossed; a resting post-only, its own price. *)
LEMMA FillLimitPriced ==
  ASSUME NEW order \in Orders, order.filled < order.qty, NEW book \in BookTops
  PROVE  Priced(order, FillLimit(order, book), book)
<1> DEFINE qty == LimitQty(order, book)
           touch == Touch(order.side, book)
           result == FillLimit(order, book)
<1>1. /\ order.qty \in Nat /\ order.filled \in Nat /\ order.price \in Nat
      /\ order.side \in Sides
  BY OrderFields
<1>2. touch \in Nat /\ qty \in Nat /\ Remaining(order) \in Nat
  BY <1>1, BookFields, LimitQtyBounds DEF Remaining
<1>3. CASE Marketable(order, book)
  <2>1. /\ order.side = "buy" => touch <= order.price
        /\ order.side = "sell" => touch >= order.price
    BY <1>3 DEF Marketable, Touch
  <2>2. CASE order.tif = "post_only" /\ order.rested
    <3> DEFINE fill == MakeFill(Remaining(order), order.price, "maker")
    <3>1. result.fill = fill
      BY <1>3, <2>2 DEF FillLimit, Result
    <3>2. fill.qty = Remaining(order) /\ fill.price = order.price
      BY <1>1, <1>2, MadeFill
    <3> HIDE DEF fill
    <3>3. fill = MakeFill(fill.qty, fill.price, "maker")
      BY <3>2 DEF fill
    <3> HIDE DEF result
    <3>4. Priced(order, result, book)
      BY <1>1, <1>2, <2>1, <3>1, <3>2, <3>3 DEF Priced
    <3> QED
      BY <3>4 DEF result
  <2>3. CASE order.tif = "post_only" /\ ~order.rested
    BY <1>3, <2>3, NoTradePriced DEF FillLimit
  <2>4. CASE order.tif # "post_only"
    <3> DEFINE fill == MakeFill(qty, touch, "taker")
    <3>1. result.fill = fill
      BY <1>3, <2>4 DEF FillLimit, Result
    <3>2. fill.qty = qty /\ fill.price = touch
      BY <1>1, <1>2, MadeFill
    <3> HIDE DEF fill
    <3>3. fill = MakeFill(fill.qty, fill.price, "taker")
      BY <3>2 DEF fill
    <3> HIDE DEF result
    <3>4. Priced(order, result, book)
      BY <1>1, <1>2, <2>1, <3>1, <3>2, <3>3 DEF Priced
    <3> QED
      BY <3>4 DEF result
  <2> QED
    BY <2>2, <2>3, <2>4, OrderFields
<1>4. CASE ~Marketable(order, book)
  BY <1>4, NoTradePriced DEF FillLimit
<1> QED
  BY <1>3, <1>4

(* Whatever its type, an order pays at least the touch of the book. *)
LEMMA TryFillPriced ==
  ASSUME NEW order \in Orders, Working(order), NEW book \in BookTops
  PROVE  Priced(order, TryFill(order, book), book)
<1>1. order.type \in OrderTypes /\ order.filled < order.qty
  BY OrderFields DEF Working
<1> DEFINE noted == [order EXCEPT !.status = "triggered"]
           trailed == [order EXCEPT !.extreme = Extreme(order, book)]
<1>2. noted \in Orders /\ SameTerms(noted, order) /\ noted.filled = order.filled
  BY OrderUpdates DEF OrderStatuses
<1>3. trailed \in Orders /\ SameTerms(trailed, order) /\ trailed.filled = order.filled
  <2>1. Extreme(order, book) \in Nat
    <3>1. order.extreme \in Nat /\ order.side \in Sides /\ Mid2(book) \in Nat
      BY OrderFields, BookFields
    <3> QED
      BY <3>1 DEF Extreme
  <2> QED
    BY <2>1, OrderUpdates
<1> HIDE DEF noted, trailed
<1>4. /\ noted.filled < noted.qty /\ noted.type = order.type
      /\ trailed.filled < trailed.qty /\ trailed.type = order.type
  BY <1>1, <1>2, <1>3 DEF SameTerms
<1>5. Priced(order, FillLimit(noted, book), book)
  BY <1>2, <1>4, FillLimitPriced, PricedFromNoted
<1>6. CASE order.type = "market"
  BY <1>1, <1>6, FillMarketPriced DEF TryFill
<1>7. CASE order.type = "limit"
  BY <1>1, <1>7, FillLimitPriced DEF TryFill
<1>8. CASE order.type \in {"stop_market", "take_profit"}
  <2>1. TryFill(order, book) = MaybeTriggerThenMarket(order, book)
    BY <1>8 DEF TryFill
  <2>2. Priced(order, FillMarket(noted, book), book)
    BY <1>2, <1>4, <1>8, FillMarketPriced, PricedFromNoted
  <2> QED
    BY <2>1, <2>2, NoTradePriced DEF MaybeTriggerThenMarket, noted
<1>9. CASE order.type = "stop_limit"
  <2>1. TryFill(order, book) = MaybeTriggerStopLimit(order, book)
    BY <1>9 DEF TryFill
  <2> QED
    BY <2>1, <1>5, NoTradePriced DEF MaybeTriggerStopLimit, noted
<1>10. CASE order.type = "trailing_stop"
  <2>1. TryFill(order, book) = UpdateTrailing(order, book)
    BY <1>10 DEF TryFill
  <2>2. Priced(order, FillMarket(trailed, book), book)
    BY <1>3, <1>4, <1>10, FillMarketPriced, PricedFromNoted
  <2> QED
    BY <2>1, <2>2, NoTradePriced DEF UpdateTrailing, trailed
<1> QED
  BY <1>1, <1>6, <1>7, <1>8, <1>9, <1>10 DEF OrderTypes

\* Rounding down keeps the order of numerators.
LEMMA QuotientGrows ==
  ASSUME NEW x \in Int, NEW y \in Int, x <= y
  PROVE  x \div Bps <= y \div Bps
  BY DEF Bps

\* Multiplying by a natural number keeps the order of factors.
LEMMA ProductGrows ==
  ASSUME NEW a \in Int, NEW b \in Int, NEW c \in Nat, a <= b
  PROVE  a * c <= b * c
<1>1. (b - a) * c >= 0
  <2>1. b - a \in Nat
    OBVIOUS
  <2> QED
    BY <2>1
<1>2. (b - a) * c = b * c - a * c
  OBVIOUS
<1> QED
  BY <1>1, <1>2

(* The fees that the engine is configured with: a maker pays no more than a   *)
(* taker, who pays no more than the trade is worth (2 and 5.5 bps).           *)
SensibleFees == MakerFeeBps <= TakerFeeBps /\ TakerFeeBps <= Bps
FeeOf(qty, price, role) == MakeFill(qty, price, role).fee

(* A fee is not negative, grows with the price, and is no more than the trade.*)
LEMMA FeeBounds ==
  ASSUME SensibleFees, NEW qty \in Nat, NEW price \in Int, NEW role \in {"taker", "maker"}
  PROVE  /\ FeeOf(qty, price, role) \in Int
         /\ price >= 0 => FeeOf(qty, price, role) >= 0
         /\ price < 0 => FeeOf(qty, price, role) >= qty * price
         /\ \A dearer \in Int : 0 <= price /\ price <= dearer =>
              FeeOf(qty, price, role) <= FeeOf(qty, dearer, "taker")
<1> DEFINE bps == IF role = "taker" THEN TakerFeeBps ELSE MakerFeeBps
           value == qty * price
<1>1. /\ bps \in Nat /\ TakerFeeBps \in Nat /\ bps <= TakerFeeBps /\ bps <= Bps
      /\ Bps \in Nat \ {0} /\ value \in Int
  BY FillConfigAssumption DEF SensibleFees, Bps
<1>2. FeeOf(qty, price, role) = (value * bps) \div Bps
  BY DEF FeeOf, MakeFill
<1> HIDE DEF bps
<1>3. value * bps \in Int /\ FeeOf(qty, price, role) \in Int
  <2> HIDE DEF value
  <2>1. value * bps \in Int
    BY <1>1
  <2> QED
    BY <1>1, <1>2, <2>1, QuotientIsInteger
<1>4. ASSUME price >= 0 PROVE FeeOf(qty, price, role) >= 0 /\ value \in Nat
  <2>1. value \in Nat
    BY <1>4
  <2> HIDE DEF value
  <2>2. value * bps >= 0
    BY <1>1, <2>1
  <2>3. 0 \div Bps <= (value * bps) \div Bps
    BY <1>3, <2>2, QuotientGrows
  <2> QED
    BY <1>2, <2>1, <2>3 DEF Bps
<1>5. ASSUME price < 0 PROVE FeeOf(qty, price, role) >= qty * price
  <2>1. value <= 0
    <3>1. 0 - price \in Nat /\ qty * (0 - price) \in Nat
      BY <1>5
    <3>2. qty * (0 - price) = 0 - value
      OBVIOUS
    <3> QED
      BY <1>1, <3>1, <3>2
  <2> HIDE DEF value
  <2>2. value * Bps <= value * bps
    <3>1. 0 - value \in Nat
      BY <1>1, <2>1
    <3>2. bps * (0 - value) <= Bps * (0 - value)
      BY <1>1, <3>1, ProductGrows
    <3>3. bps * (0 - value) = 0 - value * bps /\ Bps * (0 - value) = 0 - value * Bps
      BY <1>1
    <3> QED
      BY <1>1, <1>3, <3>2, <3>3 DEF Bps
  <2>3. value * Bps \in Int /\ (value * Bps) \div Bps = value
    BY <1>1 DEF Bps
  <2>4. (value * Bps) \div Bps <= (value * bps) \div Bps
    BY <1>3, <2>2, <2>3, QuotientGrows
  <2> QED
    BY <1>2, <2>3, <2>4 DEF value
<1>6. ASSUME NEW dearer \in Int, 0 <= price, price <= dearer
      PROVE  FeeOf(qty, price, role) <= FeeOf(qty, dearer, "taker")
  <2> DEFINE worth == qty * dearer
  <2>1. worth \in Int /\ value <= worth /\ 0 <= value
    <3>1. price * qty <= dearer * qty
      BY <1>6, ProductGrows
    <3> QED
      BY <1>4, <1>6, <3>1
  <2>2. FeeOf(qty, dearer, "taker") = (worth * TakerFeeBps) \div Bps
    BY DEF FeeOf, MakeFill
  <2> HIDE DEF worth, value
  <2>3. value * bps <= worth * bps
    BY <1>1, <2>1, ProductGrows
  <2>4. worth * bps <= worth * TakerFeeBps
    <3>1. worth \in Nat
      BY <1>1, <2>1
    <3>2. bps * worth <= TakerFeeBps * worth
      BY <1>1, <3>1, ProductGrows
    <3>3. bps * worth = worth * bps /\ TakerFeeBps * worth = worth * TakerFeeBps
      BY <1>1, <2>1
    <3> QED
      BY <3>2, <3>3
  <2>5. worth * TakerFeeBps \in Int /\ worth * bps \in Int
    BY <1>1, <2>1
  <2>6. value * bps <= worth * TakerFeeBps
    BY <1>3, <2>3, <2>4, <2>5
  <2> QED
    BY <1>2, <1>3, <2>2, <2>5, <2>6, QuotientGrows
<1> QED
  BY <1>3, <1>4, <1>5, <1>6

\* The fee of a taker is an integer.
LEMMA TakerFeeIsInteger ==
  ASSUME NEW qty \in Nat, NEW price \in Int
  PROVE  FeeOf(qty, price, "taker") \in Int
  BY MadeFill DEF FeeOf

(* The cash that a well-priced fill moves, for each side.                     *)
LEMMA CashOfPricedFill ==
  ASSUME SensibleFees, NEW order \in Orders, NEW result, NEW book \in BookTops,
         NEW qty \in Nat, qty = result.fill.qty, qty > 0, Priced(order, result, book)
  PROVE  LET paid == Sign(order.side) * qty * result.fill.price + result.fill.fee
             touch == Touch(order.side, book)
             limited == order.type \in {"limit", "stop_limit"}
         IN /\ paid \in Int
            /\ order.side = "buy" =>
                 /\ paid >= touch * qty
                 /\ limited => paid <= order.price * qty + FeeOf(qty, order.price, "taker")
            /\ order.side = "sell" =>
                 /\ -paid <= touch * qty
                 /\ limited => -paid >= order.price * qty - FeeOf(qty, touch, "taker")
<1> DEFINE paid == Sign(order.side) * qty * result.fill.price + result.fill.fee
           touch == Touch(order.side, book)
           limited == order.type \in {"limit", "stop_limit"}
           price == result.fill.price
<1>1. /\ order.price \in Nat /\ order.side \in Sides /\ touch \in Nat
  BY OrderFields, BookFields
<1>2. PICK role \in {"taker", "maker"} : result.fill = MakeFill(qty, price, role)
  BY DEF Priced
<1>3. /\ price \in Int
      /\ order.side = "buy" => price >= touch /\ (limited => price <= order.price)
      /\ order.side = "sell" => price <= touch /\ (limited => order.price <= price)
  BY DEF Priced
<1>4. result.fill.fee = FeeOf(qty, price, role)
  BY <1>2 DEF FeeOf
<1> HIDE DEF touch, limited, price
<1> DEFINE fee == FeeOf(qty, price, role)
<1>5. /\ fee \in Int
      /\ price >= 0 => fee >= 0
      /\ price < 0 => fee >= qty * price
      /\ \A dearer \in Int : 0 <= price /\ price <= dearer =>
           fee <= FeeOf(qty, dearer, "taker")
  BY <1>3, FeeBounds
<1> HIDE DEF fee
<1>6. CASE order.side = "buy"
  <2>1. paid = price * qty + fee
    <3>1. paid = 1 * qty * price + fee
      BY <1>4, <1>6 DEF Sign, price, fee
    <3> QED
      BY <1>3, <1>5, <3>1
  <2>2. price >= 0 /\ touch * qty <= price * qty /\ price * qty \in Int /\ touch * qty \in Int
    BY <1>1, <1>3, <1>6, ProductGrows
  <2> HIDE DEF paid
  <2>3. paid >= touch * qty /\ paid \in Int
    BY <1>5, <2>1, <2>2
  <2>4. ASSUME limited PROVE paid <= order.price * qty + FeeOf(qty, order.price, "taker")
    <3>1. price <= order.price /\ price * qty <= order.price * qty /\ order.price * qty \in Int
      BY <1>1, <1>3, <1>6, <2>4, ProductGrows
    <3>2. fee <= FeeOf(qty, order.price, "taker")
      BY <1>1, <1>5, <2>2, <3>1
    <3>3. FeeOf(qty, order.price, "taker") \in Int
      BY <1>1, TakerFeeIsInteger
    <3> QED
      BY <1>5, <2>1, <2>2, <3>1, <3>2, <3>3
  <2> QED
    BY <1>6, <2>3, <2>4 DEF paid, touch, limited
<1>7. CASE order.side = "sell"
  <2>1. paid = fee - price * qty /\ price * qty \in Int /\ touch * qty \in Int
    <3>1. paid = (-1) * qty * price + fee
      BY <1>4, <1>7 DEF Sign, price, fee
    <3>2. (-1) * qty * price = 0 - price * qty /\ price * qty \in Int /\ touch * qty \in Int
      BY <1>1, <1>3
    <3> HIDE DEF paid
    <3> QED
      BY <1>5, <3>1, <3>2
  <2> HIDE DEF paid
  <2>2. price <= touch /\ price * qty <= touch * qty
    BY <1>1, <1>3, <1>7, ProductGrows
  <2>3. -paid <= touch * qty /\ paid \in Int
    <3>1. CASE price >= 0
      BY <1>5, <2>1, <2>2, <3>1
    <3>2. CASE price < 0
      <4>1. fee >= price * qty /\ touch * qty >= 0
        BY <1>1, <1>3, <1>5, <3>2
      <4> QED
        BY <1>5, <2>1, <4>1
    <3> QED
      BY <1>3, <3>1, <3>2
  <2>4. ASSUME limited PROVE -paid >= order.price * qty - FeeOf(qty, touch, "taker")
    <3>1. order.price <= price /\ 0 <= price
          /\ order.price * qty <= price * qty /\ order.price * qty \in Int
      BY <1>1, <1>3, <1>7, <2>4, ProductGrows
    <3>2. fee <= FeeOf(qty, touch, "taker")
      BY <1>1, <1>5, <2>2, <3>1
    <3>3. FeeOf(qty, touch, "taker") \in Int
      BY <1>1, TakerFeeIsInteger
    <3> QED
      BY <1>5, <2>1, <3>1, <3>2, <3>3
  <2> QED
    BY <1>7, <2>3, <2>4 DEF paid, touch, limited
<1> QED
  BY <1>1, <1>6, <1>7 DEF Sides

(* The orders that arrive or leave trade nothing. *)
LEMMA OnlyWorkTrades ==
  ASSUME EngineInv, EngineEffect, NEW i \in DOMAIN orders,
         orders'[i].filled # orders[i].filled
  PROVE  WorkOrder
<1>1. QueueInv
  BY DEF EngineInv, CoreInv
<1>2. ASSUME NEW batch, NEW gone, Arrival(batch, gone)
      PROVE  orders'[i].filled = orders[i].filled
  BY <1>1, <1>2, ArrivalShape DEF QueueInv
<1> QED
  BY <1>2 DEF EngineEffect, EndTick

(* The fill of an order, read off the cash that it moved. *)
FillHonours(i) ==
  LET order == orders[i]
      qty == orders'[i].filled - order.filled
      s == order.symbol
      gross == cash[s] - cash'[s]
      touch == Touch(order.side, tick.book)
  IN qty > 0 =>
       IF order.side = "buy"
       THEN /\ gross >= touch * qty
            /\ order.type \in {"limit", "stop_limit"} =>
                 gross <= order.price * qty + MakeFill(qty, order.price, "taker").fee
       ELSE /\ -gross <= touch * qty
            /\ order.type \in {"limit", "stop_limit"} =>
                 -gross >= order.price * qty - MakeFill(qty, touch, "taker").fee

\* Whatever step fills an order, its cash honours the book and the limit.
LEMMA EffectIsPriced ==
  ASSUME SensibleFees, EngineInv, EngineEffect, NEW i \in DOMAIN orders
  PROVE  FillHonours(i)
<1> DEFINE order == orders[i]
           s == order.symbol
<1>1. SUFFICES ASSUME orders'[i].filled - orders[i].filled > 0 PROVE FillHonours(i)
  BY DEF FillHonours
<1>2. order \in Orders /\ order.filled \in Nat /\ s \in Symbols /\ order.side \in Sides
  <2>1. order \in Orders
    BY <1>1, ElementOfSeq, LenProperties DEF EngineInv, CoreInv, QueueInv
  <2> QED
    BY <2>1, OrderFields
<1>3. WorkOrder /\ CoreInv /\ TickInv
  <2>1. orders'[i].filled # orders[i].filled
    BY <1>1, <1>2
  <2> QED
    BY <1>1, <2>1, OnlyWorkTrades DEF EngineInv
<1>4. PICK id, result : WorkedStep(id, result)
  BY <1>3, WorkOrderShape DEF CoreInv, QueueInv
<1>5. id = i /\ Working(order) /\ result = TryFill(order, tick.book) /\ Worked(order, result)
  BY <1>1, <1>2, <1>4 DEF WorkedStep
<1> DEFINE qty == result.fill.qty
           paid == Sign(order.side) * qty * result.fill.price + result.fill.fee
<1>6. /\ qty \in Nat /\ orders'[i].filled - order.filled = qty /\ qty > 0
      /\ BookFill(order, result.fill)
  <2>1. qty \in Nat /\ orders'[i].filled = order.filled + qty
    BY <1>4, <1>5 DEF WorkedStep, Worked
  <2> HIDE DEF qty
  <2>2. orders'[i].filled - order.filled = qty /\ qty > 0
    BY <1>1, <1>2, <2>1
  <2>3. HasFill(result)
    BY <2>2 DEF HasFill, qty
  <2> QED
    BY <1>4, <1>5, <2>1, <2>2, <2>3 DEF WorkedStep
<1>7. tick.book \in BookTops /\ Priced(order, result, tick.book)
  <2>1. tick.book \in BookTops
    BY <1>3 DEF WorkOrder, TickInv
  <2> QED
    BY <1>2, <1>5, <2>1, TryFillPriced
<1>8. cash[s] - cash'[s] = paid
  <2>1. cash' = [cash EXCEPT ![s] =
                   cash[s] - Sign(order.side) * qty * result.fill.price - result.fill.fee]
    BY <1>6 DEF BookFill, ApplyFill
  <2>2. cash \in [Symbols -> Int] /\ cash[s] \in Int
    BY <1>2, <1>3 DEF CoreInv, AccountInv, AccountTypeOK
  <2>3. /\ Sign(order.side) * qty * result.fill.price \in Int /\ result.fill.fee \in Int
    BY <1>5, <1>6 DEF Worked, Sign
  <2> HIDE DEF s, order, qty
  <2> QED
    BY <1>2, <2>1, <2>2, <2>3
<1>9. LET touch == Touch(order.side, tick.book)
          limited == order.type \in {"limit", "stop_limit"}
      IN /\ order.side = "buy" =>
              /\ paid >= touch * qty
              /\ limited => paid <= order.price * qty + FeeOf(qty, order.price, "taker")
         /\ order.side = "sell" =>
              /\ -paid <= touch * qty
              /\ limited => -paid >= order.price * qty - FeeOf(qty, touch, "taker")
  BY <1>2, <1>6, <1>7, CashOfPricedFill
<1> HIDE DEF order, s, qty, paid
<1>10. FillHonours(i)
  BY <1>2, <1>6, <1>8, <1>9 DEF FillHonours, FeeOf, order, s, Sides
<1> QED
  BY <1>10

(* Every fill pays at least the touch of its snapshot and honours the limit   *)
(* of its order, fees apart.                                                  *)
THEOREM FillsArePriced ==
  ASSUME SensibleFees
  PROVE  EngineSpec => FillsHonourBookAndLimit
<1>1. EngineInv /\ [EngineNext]_engineVars
        => [\A i \in DOMAIN orders : FillHonours(i)]_engineVars
  BY EngineStepEffect, EffectIsPriced
<1> QED
  BY EngineInvariant, <1>1, PTL DEF EngineSpec, FillsHonourBookAndLimit, FillHonours

-----------------------------------------------------------------------------
(* What the orders have filled is what the account has booked.               *)

(* The orders of a symbol, and the signed quantity each of them has filled.  *)
OrdersOf(s) == {i \in DOMAIN orders : orders[i].symbol = s}
SignedFills(s) == [i \in OrdersOf(s) |-> Sign(orders[i].side) * orders[i].filled]

(* The library's sum of the fills of a symbol is the sum of that function.   *)
LEMMA FilledAdds ==
  \A s : IsFiniteSet(OrdersOf(s)) => FilledOf(s) = SumOver(SignedFills(s), OrdersOf(s))
<1> SUFFICES ASSUME NEW s, IsFiniteSet(OrdersOf(s))
             PROVE  FilledOf(s) = SumOver(SignedFills(s), OrdersOf(s))
  OBVIOUS
<1> DEFINE S == OrdersOf(s)
           f == SignedFills(s)
           F(g) == g = [t \in SUBSET S |->
                          IF t = {} THEN 0
                          ELSE Sign(orders[Pick(t)].side) * orders[Pick(t)].filled
                               + g[t \ {Pick(t)}]]
           h == CHOOSE g : F(g)
<1>1. FilledOf(s) = h[S]
  BY DEF FilledOf, OrdersOf, MapThenSumSet, MapThenFoldSet, Pick
<1>2. \A g : FoldOf(g, f, S) <=> F(g)
  <2> SUFFICES ASSUME NEW g PROVE FoldOf(g, f, S) <=> F(g)
    OBVIOUS
  <2> DEFINE A(t) == IF t = {} THEN 0 ELSE f[Pick(t)] + g[t \ {Pick(t)}]
             B(t) == IF t = {} THEN 0
                     ELSE Sign(orders[Pick(t)].side) * orders[Pick(t)].filled
                          + g[t \ {Pick(t)}]
  <2>1. ASSUME NEW t \in SUBSET S PROVE A(t) = B(t)
    <3>1. CASE t = {}
      BY <3>1
    <3>2. CASE t # {}
      <4>1. Pick(t) \in S
        BY <3>2, PickIsMember
      <4>2. f[Pick(t)] = Sign(orders[Pick(t)].side) * orders[Pick(t)].filled
        <5> HIDE DEF S
        <5> QED
          BY <4>1 DEF SignedFills, S
      <4> QED
        BY <3>2, <4>2
    <3> QED
      BY <3>1, <3>2
  <2> HIDE DEF A, B, S
  <2>2. [t \in SUBSET S |-> A(t)] = [t \in SUBSET S |-> B(t)]
    BY <2>1
  <2> QED
    BY <2>2 DEF A, B, FoldOf
<1> HIDE DEF S, f
<1>3. \E g : F(g)
  <2>1. IsFiniteSet(S)
    BY DEF S
  <2> HIDE DEF F
  <2> QED
    BY <1>2, <2>1, FoldExists
<1>4. F(h)
  <2> HIDE DEF F
  <2> QED
    BY <1>3
<1> HIDE DEF F, h
<1>5. FoldOf(h, f, S)
  BY <1>2, <1>4
<1>6. h[S] = SumOver(f, S)
  <2>1. S \subseteq S /\ IsFiniteSet(S)
    BY DEF S
  <2> QED
    BY <1>5, <2>1, FoldIsSum
<1> QED
  BY <1>1, <1>6 DEF f, S

(* The same of the next state. *)
LEMMA NextFilledAdds ==
  \A s : IsFiniteSet(OrdersOf(s)') => FilledOf(s)' = SumOver(SignedFills(s)', OrdersOf(s)')
<1>1. (\A s : IsFiniteSet(OrdersOf(s)) => FilledOf(s) = SumOver(SignedFills(s), OrdersOf(s)))'
  BY FilledAdds, PTL
<1> QED
  BY <1>1

(* There are finitely many of them, and what each has filled is a number. *)
LEMMA FillsAreNumbers ==
  ASSUME orders \in Seq(Orders)
  PROVE  \A s : /\ IsFiniteSet(OrdersOf(s)) /\ OrdersOf(s) \subseteq DOMAIN orders
                /\ \A i \in OrdersOf(s) :
                     /\ SignedFills(s)[i] \in Int
                     /\ SignedFills(s)[i] = Sign(orders[i].side) * orders[i].filled
<1> SUFFICES ASSUME NEW s
             PROVE  /\ IsFiniteSet(OrdersOf(s)) /\ OrdersOf(s) \subseteq DOMAIN orders
                    /\ \A i \in OrdersOf(s) :
                         /\ SignedFills(s)[i] \in Int
                         /\ SignedFills(s)[i] = Sign(orders[i].side) * orders[i].filled
  OBVIOUS
<1>1. Len(orders) \in Nat /\ DOMAIN orders = 1 .. Len(orders)
  BY LenProperties
<1>2. IsFiniteSet(OrdersOf(s)) /\ OrdersOf(s) \subseteq DOMAIN orders
  <2>1. OrdersOf(s) \subseteq DOMAIN orders
    BY DEF OrdersOf
  <2>2. IsFiniteSet(1 .. Len(orders))
    BY <1>1, FS_Interval
  <2> QED
    BY <1>1, <2>1, <2>2, FS_Subset
<1>3. ASSUME NEW i \in OrdersOf(s)
      PROVE  /\ SignedFills(s)[i] \in Int
             /\ SignedFills(s)[i] = Sign(orders[i].side) * orders[i].filled
  <2>1. orders[i] \in Orders
    BY <1>1, <1>2, ElementOfSeq
  <2>2. orders[i].filled \in Nat
    BY <2>1, OrderFields
  <2> QED
    BY <2>2 DEF SignedFills, Sign
<1> QED
  BY <1>2, <1>3

(* The same of the next state. *)
LEMMA NextFillsAreNumbers ==
  ASSUME orders' \in Seq(Orders)
  PROVE  \A s : /\ IsFiniteSet(OrdersOf(s)') /\ OrdersOf(s)' \subseteq DOMAIN orders'
                /\ \A i \in OrdersOf(s)' :
                     /\ SignedFills(s)'[i] \in Int
                     /\ SignedFills(s)'[i] = Sign(orders'[i].side) * orders'[i].filled
<1>1. (orders \in Seq(Orders) =>
         \A s : /\ IsFiniteSet(OrdersOf(s)) /\ OrdersOf(s) \subseteq DOMAIN orders
                /\ \A i \in OrdersOf(s) :
                     /\ SignedFills(s)[i] \in Int
                     /\ SignedFills(s)[i] = Sign(orders[i].side) * orders[i].filled)'
  BY FillsAreNumbers, PTL
<1> QED
  BY <1>1

(* The sum of a symbol's fills, and the sum after a step. *)
LEMMA FilledIsSum ==
  ASSUME orders \in Seq(Orders), orders' \in Seq(Orders), NEW s
  PROVE  /\ FilledOf(s) = SumOver(SignedFills(s), OrdersOf(s))
         /\ FilledOf(s)' = SumOver(SignedFills(s)', OrdersOf(s)')
         /\ FilledOf(s) \in Int
<1>1. IsFiniteSet(OrdersOf(s)) /\ \A i \in OrdersOf(s) : SignedFills(s)[i] \in Int
  BY FillsAreNumbers
<1>2. IsFiniteSet(OrdersOf(s)')
  BY NextFillsAreNumbers
<1>3. \A f, S : IsFiniteSet(S) /\ (\A x \in S : f[x] \in Int) => SumOver(f, S) \in Int
  BY SumIsInteger
<1> QED
  BY <1>1, <1>2, <1>3, FilledAdds, NextFilledAdds

(* Orders that arrive have filled nothing, and those that go have filled what *)
(* they had.                                                                   *)
LEMMA ArrivalAccounted ==
  ASSUME QueueInv, FillsAreAccounted, NEW batch, NEW gone, Arrival(batch, gone),
         UNCHANGED <<net, exits>>
  PROVE  FillsAreAccounted'
<1> DEFINE n == Len(orders)
           m == Len(batch)
<1>1. /\ n \in Nat /\ m \in Nat /\ DOMAIN orders = 1 .. n
      /\ orders' \in Seq(Orders) /\ DOMAIN orders' = 1 .. n + m
      /\ \A i \in 1 .. n :
           SameTerms(orders'[i], orders[i]) /\ orders'[i].filled = orders[i].filled
      /\ \A i \in n + 1 .. n + m : orders'[i].filled = 0
      /\ orders \in Seq(Orders)
  BY ArrivalShape DEF QueueInv
<1> HIDE DEF n, m
<1>2. ASSUME NEW s \in Symbols PROVE FilledOf(s)' = FilledOf(s)
  <2> DEFINE S == OrdersOf(s)
             T == OrdersOf(s)'
             f == SignedFills(s)
             e == SignedFills(s)'
  <2>1. /\ IsFiniteSet(T) /\ S \subseteq 1 .. n /\ T \subseteq 1 .. n + m
        /\ \A i \in S : f[i] \in Int /\ f[i] = Sign(orders[i].side) * orders[i].filled
        /\ \A i \in T : e[i] = Sign(orders'[i].side) * orders'[i].filled
    BY <1>1, FillsAreNumbers, NextFillsAreNumbers
  <2>2. S \subseteq T /\ \A i \in T \ S : i \in n + 1 .. n + m
    <3>1. T = {i \in 1 .. n + m : orders'[i].symbol = s}
      BY <1>1 DEF OrdersOf
    <3>2. S = {i \in 1 .. n : orders[i].symbol = s}
      BY <1>1 DEF OrdersOf
    <3>3. \A i \in 1 .. n : i \in 1 .. n + m /\ orders'[i].symbol = orders[i].symbol
      BY <1>1 DEF SameTerms
    <3>4. \A i \in 1 .. n + m : i \in 1 .. n \/ i \in n + 1 .. n + m
      BY <1>1
    <3> HIDE DEF S, T
    <3> QED
      BY <3>1, <3>2, <3>3, <3>4
  <2> HIDE DEF S, T, f, e
  <2>3. \A i \in S : f[i] \in Int /\ e[i] = f[i]
    BY <1>1, <2>1, <2>2 DEF SameTerms
  <2>4. \A i \in T \ S : e[i] = 0
    <3>1. \A i \in T \ S : orders'[i].filled = 0 /\ e[i] = Sign(orders'[i].side) * orders'[i].filled
      BY <1>1, <2>1, <2>2
    <3> QED
      BY <3>1 DEF Sign
  <2>5. SumOver(e, T) = SumOver(f, S)
    BY <2>1, <2>2, <2>3, <2>4, SumExtends
  <2> QED
    BY <1>1, <2>5, FilledIsSum DEF S, T, f, e
<1> QED
  BY <1>2 DEF FillsAreAccounted

(* _settle books the fill of one symbol. *)
LEMMA NetAfterFill ==
  ASSUME AccountInv, NEW order \in Orders, NEW fill, fill.qty \in Nat, BookFill(order, fill)
  PROVE  /\ net'[order.symbol] = net[order.symbol] + Sign(order.side) * fill.qty
         /\ \A t \in Symbols \ {order.symbol} : net'[t] = net[t]
<1>1. net' = [net EXCEPT ![order.symbol] = net[order.symbol] + Sign(order.side) * fill.qty]
  BY DEF BookFill, ApplyFill
<1>2. order.symbol \in Symbols
  BY OrderFields
<1> QED
  BY <1>1, <1>2 DEF AccountInv, AccountTypeOK

(* A snapshot that works an order fills it by what the account books. *)
LEMMA WorkAccounted ==
  ASSUME CoreInv, TickInv, FillsAreAccounted, WorkOrder
  PROVE  FillsAreAccounted'
<1>1. PICK id, result : WorkedStep(id, result)
  BY WorkOrderShape DEF CoreInv, QueueInv
<1> DEFINE order == orders[id]
           d == Sign(order.side) * result.fill.qty
<1>2. /\ id \in DOMAIN orders /\ order \in Orders /\ DOMAIN orders' = DOMAIN orders
      /\ orders \in Seq(Orders) /\ orders' \in Seq(Orders)
      /\ \A i \in DOMAIN orders \ {id} : orders'[i] = orders[i]
      /\ SameTerms(orders'[id], order)
      /\ result.fill.qty \in Nat /\ orders'[id].filled = order.filled + result.fill.qty
      /\ exits' = exits
  BY <1>1 DEF WorkedStep, Worked, Working, CoreInv, QueueInv
<1>3. order.filled \in Nat /\ order.symbol \in Symbols
  BY <1>2, OrderFields
<1>4. /\ d \in Int /\ net \in [Symbols -> Int] /\ exits \in [Symbols -> Int]
  BY <1>2 DEF Sign, CoreInv, AccountInv, AccountTypeOK, GuardsOK
<1>5. /\ net'[order.symbol] = net[order.symbol] + d
      /\ \A t \in Symbols \ {order.symbol} : net'[t] = net[t]
  <2>1. CASE HasFill(result)
    <3>1. BookFill(order, result.fill)
      BY <1>1, <2>1 DEF WorkedStep
    <3> HIDE DEF order
    <3> QED
      BY <1>2, <3>1, NetAfterFill DEF CoreInv
  <2>2. CASE ~HasFill(result)
    <3>1. net' = net /\ result.fill.qty = 0
      BY <1>1, <1>2, <2>2 DEF WorkedStep, accountVars, HasFill
    <3>2. d = 0
      BY <3>1 DEF Sign
    <3> HIDE DEF d, order
    <3> QED
      BY <1>3, <1>4, <3>1, <3>2
  <2> QED
    BY <2>1, <2>2
<1>6. Sign(order.side) * (order.filled + result.fill.qty) = Sign(order.side) * order.filled + d
  BY <1>2, <1>3 DEF Sign
<1> HIDE DEF order, d
<1>7. ASSUME NEW s \in Symbols PROVE FilledOf(s)' + exits'[s] = net'[s]
  <2> DEFINE S == OrdersOf(s)
             f == SignedFills(s)
             e == SignedFills(s)'
  <2>1. OrdersOf(s)' = S
    BY <1>2 DEF OrdersOf, SameTerms, order
  <2>2. /\ IsFiniteSet(S) /\ S \subseteq DOMAIN orders
        /\ \A i \in S : f[i] \in Int /\ f[i] = Sign(orders[i].side) * orders[i].filled
    BY <1>2, FillsAreNumbers
  <2>3. \A i \in S : e[i] = Sign(orders'[i].side) * orders'[i].filled
    BY <1>2, <2>1, NextFillsAreNumbers
  <2>4. /\ FilledOf(s) = SumOver(f, S) /\ FilledOf(s)' = SumOver(e, S) /\ FilledOf(s) \in Int
    BY <1>2, <2>1, FilledIsSum
  <2>5. id \in S <=> order.symbol = s
    BY <1>2 DEF OrdersOf, order
  <2> HIDE DEF S, f, e
  <2>6. FilledOf(s) + exits[s] = net[s]
    BY DEF FillsAreAccounted
  <2>7. CASE order.symbol = s
    <3>1. e[id] = f[id] + d
      <4>1. /\ e[id] = Sign(orders'[id].side) * orders'[id].filled
            /\ f[id] = Sign(order.side) * order.filled
        BY <2>2, <2>3, <2>5, <2>7 DEF order
      <4> QED
        BY <1>2, <1>6, <4>1 DEF SameTerms
    <3>2. \A i \in S \ {id} : e[i] = f[i]
      BY <1>2, <2>2, <2>3
    <3>3. id \in S /\ \A i \in S : f[i] \in Int
      BY <2>2, <2>5, <2>7
    <3>4. SumOver(e, S) = SumOver(f, S) + d
      BY <1>4, <2>2, <3>1, <3>2, <3>3, SumOfUpdate
    <3>5. net'[s] = net[s] + d
      BY <1>5, <2>7
    <3>6. exits[s] \in Int /\ net[s] \in Int /\ exits' = exits
      BY <1>2, <1>4
    <3> QED
      BY <1>4, <2>4, <2>6, <3>4, <3>5, <3>6
  <2>8. CASE order.symbol # s
    <3>1. AgreeOn(e, f, S)
      BY <1>2, <2>2, <2>3, <2>5, <2>8 DEF AgreeOn
    <3>2. SumOver(e, S) = SumOver(f, S)
      BY <2>2, <3>1, SumCongruence DEF AgreeOn
    <3> QED
      BY <1>2, <1>5, <2>4, <2>6, <2>8, <3>2
  <2> QED
    BY <2>7, <2>8
<1> QED
  BY <1>7 DEF FillsAreAccounted

(* A step that leaves orders, exits and account alone leaves the sums alone. *)
LEMMA FilledStutters ==
  ASSUME orders \in Seq(Orders), orders' = orders
  PROVE  \A s : FilledOf(s)' = FilledOf(s)
<1> SUFFICES ASSUME NEW s PROVE FilledOf(s)' = FilledOf(s)
  OBVIOUS
<1>1. OrdersOf(s)' = OrdersOf(s) /\ SignedFills(s)' = SignedFills(s)
  BY DEF OrdersOf, SignedFills
<1> QED
  BY <1>1, FilledIsSum

(* The exit of a protection is in exits, as the account books it. *)
LEMMA EndTickAccounted ==
  ASSUME CoreInv, TickInv, FillsAreAccounted, EndTick
  PROVE  FillsAreAccounted'
<1> DEFINE s == tick.book.symbol
           order == ExitOf(s)
           fill == TryFill(order, tick.book).fill
           d == Sign(order.side) * fill.qty
<1>1. tick.book \in BookTops /\ s \in Symbols /\ orders' = orders
  <2>1. tick.running /\ UNCHANGED <<orders, pending>>
    BY DEF EndTick
  <2> QED
    BY <2>1 DEF TickInv, BookTops
<1>2. \A t \in Symbols : FilledOf(t)' = FilledOf(t) /\ FilledOf(t) \in Int
  BY <1>1, FilledStutters, FilledIsSum DEF CoreInv, QueueInv
<1>3. /\ net \in [Symbols -> Int] /\ exits \in [Symbols -> Int]
      /\ \A t \in Symbols : FilledOf(t) + exits[t] = net[t]
  BY DEF CoreInv, AccountInv, AccountTypeOK, GuardsOK, FillsAreAccounted
<1>4. CASE Breached(positions[s], protect[s], tick.book)
  <2>1. IsOpen(positions[s])
    BY <1>4 DEF Breached
  <2>2. BookFill(order, fill) /\ exits' = [exits EXCEPT ![s] = exits[s] + d]
    BY <1>4, EndTickShape
  <2>3. order \in Orders /\ order.symbol = s /\ fill.qty \in Nat
    BY <1>1, <2>1, ExitFillIsWhole DEF CoreInv, AccountInv
  <2>4. d \in Int
    BY <2>3 DEF Sign
  <2> HIDE DEF order, fill, s
  <2>5. net'[s] = net[s] + d /\ \A t \in Symbols \ {s} : net'[t] = net[t]
    BY <2>2, <2>3, NetAfterFill DEF CoreInv
  <2> HIDE DEF d
  <2>6. exits'[s] = exits[s] + d /\ \A t \in Symbols \ {s} : exits'[t] = exits[t]
    BY <1>1, <1>3, <2>2
  <2>7. ASSUME NEW t \in Symbols PROVE FilledOf(t)' + exits'[t] = net'[t]
    <3>1. CASE t = s
      <4>1. FilledOf(t) + exits[t] = net[t] /\ FilledOf(t)' = FilledOf(t) /\ FilledOf(t) \in Int
        BY <1>2, <1>3, <2>7
      <4>2. exits[t] \in Int /\ net[t] \in Int
        BY <1>3, <2>7
      <4>3. net'[t] = net[t] + d /\ exits'[t] = exits[t] + d
        BY <2>5, <2>6, <3>1
      <4> QED
        BY <2>4, <4>1, <4>2, <4>3
    <3>2. CASE t # s
      BY <1>2, <1>3, <2>5, <2>6, <2>7, <3>2
    <3> QED
      BY <3>1, <3>2
  <2> QED
    BY <2>7 DEF FillsAreAccounted
<1>5. CASE ~Breached(positions[s], protect[s], tick.book)
  <2>1. net' = net /\ exits' = exits
    BY <1>5, EndTickShape DEF accountVars
  <2> QED
    BY <1>2, <1>3, <2>1 DEF FillsAreAccounted
<1> QED
  BY <1>4, <1>5

(* Every step keeps the account of the fills. *)
LEMMA EffectAccounted ==
  ASSUME EngineInv, FillsAreAccounted, EngineEffect
  PROVE  FillsAreAccounted'
<1>1. CoreInv /\ TickInv /\ QueueInv /\ orders \in Seq(Orders)
  BY DEF EngineInv, CoreInv, QueueInv
<1>2. ASSUME NEW batch, NEW gone, Arrival(batch, gone), UNCHANGED <<accountVars, exits>>
      PROVE  FillsAreAccounted'
  BY <1>1, <1>2, ArrivalAccounted DEF accountVars
<1>3. ASSUME UNCHANGED <<accountVars, exits, orders>> PROVE FillsAreAccounted'
  BY <1>1, <1>3, FilledStutters DEF FillsAreAccounted, accountVars
<1>4. CASE WorkOrder
  BY <1>1, <1>4, WorkAccounted
<1>5. CASE EndTick
  BY <1>1, <1>5, EndTickAccounted
<1> QED
  BY <1>2, <1>3, <1>4, <1>5 DEF EngineEffect

(* The fresh engine has filled nothing and booked nothing. *)
LEMMA NothingFilled == EngineInit => FillsAreAccounted
<1> SUFFICES ASSUME EngineInit PROVE FillsAreAccounted
  OBVIOUS
<1>1. /\ orders = << >> /\ orders \in Seq(Orders)
      /\ \A s \in Symbols : exits[s] = 0 /\ net[s] = 0
  BY DEF EngineInit, AccountInit
<1>2. ASSUME NEW s \in Symbols PROVE FilledOf(s) = 0
  <2>1. OrdersOf(s) = {}
    BY <1>1 DEF OrdersOf
  <2> QED
    BY <2>1, FilledAdds, SumOfNone, FS_EmptySet
<1> QED
  BY <1>1, <1>2 DEF FillsAreAccounted

(* What the orders of a symbol have filled, and what its protections have     *)
(* exited, is what the account has booked: no fill is lost, doubled or booked *)
(* for another symbol, however many orders a symbol has had.                  *)
THEOREM FillsAreBooked == EngineSpec => []FillsAreAccounted
<1>1. EngineInv /\ FillsAreAccounted /\ [EngineNext]_engineVars => FillsAreAccounted'
  BY EngineStepEffect, EffectAccounted
<1> QED
  BY EngineInvariant, NothingFilled, <1>1, PTL DEF EngineSpec

-----------------------------------------------------------------------------
(* The sizes of automatic entries, which live trading and backtests submit.   *)

(* A quantity rounded to whole lots is a number of lots. *)
LEMMA RoundedIsInteger ==
  ASSUME NEW n \in Int, NEW d \in Nat \ {0}
  PROVE  Rounded(n, d) \in Int
<1>1. n \div d \in Int
  BY QuotientIsInteger
<1> DEFINE q == n \div d
<1>2. Rounded(n, d) \in {q, q + 1}
  BY DEF Rounded
<1> HIDE DEF q
<1> QED
  BY <1>1, <1>2 DEF q

(* The size that the planner gives an entry is a number of lots. *)
LEMMA CappedSizeIsInteger ==
  ASSUME NEW equity2 \in Int, NEW entry2 \in Nat \ {0}, NEW stop2 \in Nat,
         NEW riskBps \in Nat
  PROVE  CappedSize(equity2, entry2, stop2, riskBps) \in Int
<1> DEFINE a == RiskSize(equity2, entry2, stop2, riskBps)
           b == ExposureCap(equity2, entry2)
<1>1. a \in Int
  <2>1. CASE entry2 = stop2
    BY <2>1 DEF RiskSize
  <2>2. CASE entry2 # stop2
    <3>1. Distance(entry2, stop2) \in Nat \ {0}
      BY <2>2 DEF Distance
    <3>2. 10000 * Distance(entry2, stop2) \in Nat \ {0} /\ equity2 * riskBps \in Int
      BY <3>1
    <3> QED
      BY <2>2, <3>2, RoundedIsInteger DEF RiskSize
  <2> QED
    BY <2>1, <2>2
<1>2. b \in Int
  <2>1. Limits.symbolExposure \in Nat
    BY LimitsAssumption DEF LimitNames
  <2>2. equity2 * Limits.symbolExposure * Headroom \in Int /\ 10000 * entry2 \in Nat \ {0}
    BY <2>1 DEF Headroom
  <2> QED
    BY <2>2, RoundedIsInteger DEF ExposureCap
<1> HIDE DEF a, b
<1>3. Min({a, b}) \in {a, b}
  <2>1. \E x \in {a, b} : \A y \in {a, b} : x <= y
    <3>1. a <= b \/ b <= a
      BY <1>1, <1>2
    <3> QED
      BY <1>1, <1>2, <3>1
  <2> QED
    BY <2>1 DEF Min
<1> QED
  BY <1>1, <1>2, <1>3 DEF CappedSize, a, b
=============================================================================
