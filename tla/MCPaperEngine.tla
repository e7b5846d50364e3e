--------------------------- MODULE MCPaperEngine ---------------------------
(* Small instances of the paper engine.                                     *)
EXTENDS PaperEngine
CONSTANTS BTC

Shown(bid, ask, size, lag) ==
  [symbol |-> BTC, bid |-> bid, ask |-> ask, bidQty |-> size, askQty |-> size,
   lag |-> lag]

\* A market that stands, falls through the stops and rises through the targets.
MCBooks == {Shown(10, 11, 1, 0), Shown(10, 11, 2, 1), Shown(7, 8, 1, 0), Shown(13, 14, 3, 0)}

Market(side, qty) == BlankOrder(BTC, side, "market", qty)
Limit(side, qty, price) == [BlankOrder(BTC, side, "limit", qty) EXCEPT !.price = price]

\* Entries with protections, entries by limit, and reduce-only exits.
ExitRequests ==
  {[Market("buy", 2) EXCEPT !.stopLoss = 8, !.takeProfit = 13],
   [Market("sell", 2) EXCEPT !.reduceOnly = TRUE],
   [Market("sell", 1) EXCEPT !.reduceOnly = TRUE],
   Limit("buy", 2, 9)}

\* One order of every type.
TypeRequests ==
  {[Market("buy", 2) EXCEPT !.stopLoss = 8],
   Limit("sell", 2, 12),
   [Limit("buy", 2, 11) EXCEPT !.tif = "post_only"],
   [Limit("buy", 2, 9) EXCEPT !.tif = "ioc"],
   [Limit("sell", 1, 8) EXCEPT !.type = "stop_limit", !.trigger = 9],
   [Market("sell", 1) EXCEPT !.type = "stop_market", !.trigger = 9],
   [Market("sell", 2) EXCEPT !.type = "take_profit", !.trigger = 13, !.reduceOnly = TRUE],
   [Market("sell", 2) EXCEPT !.type = "trailing_stop", !.trail = 2]}

AllRequests == ExitRequests \union TypeRequests
=============================================================================
