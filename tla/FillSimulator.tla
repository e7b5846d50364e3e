--------------------------- MODULE FillSimulator ---------------------------
(***************************************************************************)
(* The fill simulator: what one top-of-book snapshot does to one order.    *)
(* Source: backend/app/services/paper_engine/fills.py and the Order,       *)
(* BookTop and FillConfig types of models.py.                              *)
(*                                                                         *)
(* Prices are positive integer ticks, so 0 stands for the code's None in   *)
(* every optional price, as it does in `order._trail_extreme or mark`.     *)
(* The middle of the book may be half a tick: mids, and the extreme of a   *)
(* trailing stop, are kept in half ticks.                                  *)
(***************************************************************************)
EXTENDS Integers

CONSTANTS SlippageModel,      \* FillConfig.slippage_model
          SlippageBps,        \* FillConfig.slippage_bps
          ImpactBpsPerLevel,  \* FillConfig.impact_bps_per_level
          TakerFeeBps, MakerFeeBps,
          AllowPartial        \* FillConfig.allow_partial_limit_fills

ASSUME FillConfigAssumption ==
  /\ SlippageModel \in {"touch", "spread_plus_bps", "impact"}
  /\ SlippageBps \in Nat /\ ImpactBpsPerLevel \in Nat
  /\ TakerFeeBps \in Nat /\ MakerFeeBps \in Nat
  /\ AllowPartial \in BOOLEAN

Bps == 10000
NoPrice == 0

OrderTypes == {"market", "limit", "stop_market", "stop_limit",
               "take_profit", "trailing_stop"}
OrderStatuses == {"new", "accepted", "partially_filled", "filled",
                  "cancelled", "rejected", "triggered"}
TimesInForce == {"gtc", "ioc", "post_only"}

IsTerminal(order) == order.status \in {"filled", "cancelled", "rejected"}
Remaining(order) == order.qty - order.filled

\* Twice the middle of the book.
Mid2(book) == book.bid + book.ask

Touch(side, book) == IF side = "buy" THEN book.ask ELSE book.bid
Displayed(side, book) == IF side = "buy" THEN book.askQty ELSE book.bidQty

-----------------------------------------------------------------------------
\* Pricing

\* _apply_slippage: the adverse move away from the touch, never towards it.
Adjustment(touch, qty, displayed) ==
  CASE SlippageModel = "touch" -> 0
    [] SlippageModel = "spread_plus_bps" -> (touch * SlippageBps) \div Bps
    [] SlippageModel = "impact" ->
         IF displayed > 0
         THEN (touch * (SlippageBps * displayed + ImpactBpsPerLevel * qty))
                \div (displayed * Bps)
         ELSE (touch * (SlippageBps + ImpactBpsPerLevel)) \div Bps

\* Bug: the adjustment improves the price.
ImprovedPrice(touch, side, qty, displayed) ==
  IF side = "buy" THEN touch - Adjustment(touch, qty, displayed)
                  ELSE touch + Adjustment(touch, qty, displayed)

SlippedPrice(touch, side, qty, displayed) ==
  IF side = "buy" THEN touch + Adjustment(touch, qty, displayed)
                  ELSE touch - Adjustment(touch, qty, displayed)

NoFill == [qty |-> 0, price |-> 0, fee |-> 0, role |-> "none"]

MakeFill(qty, price, role) ==
  [qty |-> qty, price |-> price, role |-> role,
   fee |-> (qty * price * (IF role = "taker" THEN TakerFeeBps ELSE MakerFeeBps))
             \div Bps]

\* What try_fill hands back: the order it has worked on, a fill or none, and
\* the status that the engine will store in the order.
Result(order, fill, status) == [order |-> order, fill |-> fill, status |-> status]
HasFill(result) == result.fill.qty > 0

-----------------------------------------------------------------------------
\* One operator per order type

\* Bug: the order does not remember that it was filled.
FillMarketUnrecorded(order, book) ==
  Result(order, MakeFill(Remaining(order), Touch(order.side, book), "taker"), "filled")

FillMarket(order, book) ==
  LET price == SlippedPrice(Touch(order.side, book), order.side,
                            Remaining(order), Displayed(order.side, book))
  IN Result([order EXCEPT !.filled = order.qty],
            MakeFill(Remaining(order), price, "taker"), "filled")

Marketable(order, book) ==
  IF order.side = "buy" THEN book.ask <= order.price ELSE book.bid >= order.price

\* The quantity a marketable limit takes: what the book displays, if it
\* displays anything.
\* Bug: it takes all that is displayed, wanted or not.
AllDisplayed(order, book) ==
  LET displayed == Displayed(order.side, book)
  IN IF AllowPartial /\ displayed > 0 THEN displayed ELSE Remaining(order)

LimitQty(order, book) ==
  LET displayed == Displayed(order.side, book)
  IN IF AllowPartial /\ displayed > 0 /\ displayed < Remaining(order)
     THEN displayed ELSE Remaining(order)

FillLimit(order, book) ==
  LET qty == LimitQty(order, book)
      done == order.filled + qty
  IN CASE Marketable(order, book) /\ order.tif = "post_only" /\ ~order.rested ->
            Result(order, NoFill, "rejected")
       [] Marketable(order, book) /\ order.tif = "post_only" /\ order.rested ->
            Result([order EXCEPT !.filled = order.qty],
                   MakeFill(Remaining(order), order.price, "maker"), "filled")
       [] Marketable(order, book) /\ order.tif # "post_only" ->
            Result([order EXCEPT !.filled = done],
                   MakeFill(qty, Touch(order.side, book), "taker"),
                   IF done = order.qty THEN "filled" ELSE "partially_filled")
       [] OTHER ->
            Result([order EXCEPT !.rested = TRUE], NoFill,
                   IF order.tif = "ioc" THEN "cancelled" ELSE "accepted")

\* A take-profit waits for a favourable price, a stop for an adverse one.
Triggered(order, book) ==
  IF (order.type = "take_profit") = (order.side = "sell")
  THEN Mid2(book) >= 2 * order.trigger
  ELSE Mid2(book) <= 2 * order.trigger

MaybeTriggerThenMarket(order, book) ==
  IF Triggered(order, book)
  THEN FillMarket([order EXCEPT !.status = "triggered"], book)
  ELSE Result(order, NoFill, "accepted")

MaybeTriggerStopLimit(order, book) ==
  IF order.status = "triggered" \/ Triggered(order, book)
  THEN FillLimit([order EXCEPT !.status = "triggered"], book)
  ELSE Result(order, NoFill, "accepted")

\* The best mid since activation: the highest for a sell, the lowest for a buy.
Extreme(order, book) ==
  CASE order.extreme = NoPrice -> Mid2(book)
    [] order.side = "sell" /\ Mid2(book) > order.extreme -> Mid2(book)
    [] order.side = "buy" /\ Mid2(book) < order.extreme -> Mid2(book)
    [] OTHER -> order.extreme

Retraced(order, book) ==
  IF order.side = "sell"
  THEN Mid2(book) <= order.extreme - 2 * order.trail
  ELSE Mid2(book) >= order.extreme + 2 * order.trail

UpdateTrailing(order, book) ==
  LET trailed == [order EXCEPT !.extreme = Extreme(order, book)]
  IN IF Retraced(trailed, book) THEN FillMarket(trailed, book)
                                ELSE Result(trailed, NoFill, "accepted")

TryFill(order, book) ==
  CASE order.type = "market" -> FillMarket(order, book)
    [] order.type = "limit" -> FillLimit(order, book)
    [] order.type \in {"stop_market", "take_profit"} ->
         MaybeTriggerThenMarket(order, book)
    [] order.type = "stop_limit" -> MaybeTriggerStopLimit(order, book)
    [] order.type = "trailing_stop" -> UpdateTrailing(order, book)
=============================================================================
