------------------------ MODULE MCPersistentEngine ------------------------
(* Small instances of the engine with its persistence.                      *)
EXTENDS PersistentEngine
CONSTANTS BTC

Shown(bid, ask, size) ==
  [symbol |-> BTC, bid |-> bid, ask |-> ask, bidQty |-> size, askQty |-> size, lag |-> 0]

\* A market that stands and one that falls through the stop.
MCBooks == {Shown(10, 11, 1), Shown(7, 8, 1)}

StandingBook == {Shown(10, 11, 1)}

Market(side, qty) == BlankOrder(BTC, side, "market", qty)
Limit(side, qty, price) == [BlankOrder(BTC, side, "limit", qty) EXCEPT !.price = price]

\* An entry that fills in parts, one with a stop and an exit that flips.
MCRequests == {Limit("buy", 2, 11), [Market("buy", 1) EXCEPT !.stopLoss = 8], Market("sell", 2)}
\* A stop that follows the price: no restart brings it back.
Trailing == [BlankOrder(BTC, "sell", "trailing_stop", 1) EXCEPT !.trail = 3]
\* An entry that fills in parts, an exit that may flip what it finds, and a stop
\* that waits.
PartsFlipAndTrail == {Limit("buy", 2, 11), Market("sell", 2), Trailing}
\* An entry and its exit.
EntryAndExit == {Market("buy", 1), Market("sell", 1)}
=============================================================================
