---------------------------- MODULE PaperAccount ----------------------------
(***************************************************************************)
(* The paper account: every fill opens, adds to, reduces, closes or flips  *)
(* the position of its symbol, and moves the balance with it.              *)
(* Source: backend/app/services/paper_engine/account.py and the Position   *)
(* and Fill types of models.py.                                            *)
(*                                                                         *)
(* Money is integer ticks.  The only inexact operation of the account is   *)
(* the division of the average entry price: the model rounds it down (the  *)
(* code rounds to Decimal's 28 digits) and the ghost variable dust records *)
(* what the rounding lost, so that no property depends on its direction.   *)
(***************************************************************************)
EXTENDS Integers, FiniteSets, FiniteSetsExt

CONSTANTS Symbols,          \* the traded symbols
          StartingBalance,  \* PaperAccount.starting_balance
          FillQtys, FillPrices, FillFees,  \* the fills a venue may report
          FundingPayments,  \* notional * rate of a funding event (signed)
          MaxEvents         \* bound: fills and fundings of one behaviour

ASSUME SymbolAssumption == IsFiniteSet(Symbols)
ASSUME StartingBalanceAssumption == StartingBalance \in Int
ASSUME FillAssumption == /\ FillQtys \subseteq Nat \ {0}
                         /\ FillPrices \subseteq Nat
                         /\ FillFees \subseteq Nat
                         /\ FundingPayments \subseteq Int
                         /\ MaxEvents \in Nat

Sides == {"buy", "sell"}
Sign(side) == IF side = "buy" THEN 1 ELSE -1
Opposite(side) == IF side = "buy" THEN "sell" ELSE "buy"

Fills == [symbol : Symbols, side : Sides, qty : FillQtys,
          price : FillPrices, fee : FillFees]

\* An absent position is a flat one: quantity 0 and nothing booked.
Positions == [side : Sides, qty : Nat, initial : Nat, avg : Int,
              realized : Int, fees : Int, funding : Int]
Flat == [side |-> "buy", qty |-> 0, initial |-> 0, avg |-> 0,
         realized |-> 0, fees |-> 0, funding |-> 0]

VARIABLES balance,    \* PaperAccount.balance
          positions,  \* PaperAccount.positions, Flat where there is no key
          closed,     \* net pnl of the symbol's closed trades, summed
          events,     \* fills and fundings so far
          cash,       \* ghost: cash paid and received for the symbol
          net,        \* ghost: signed sum of the symbol's fills
          dust        \* ghost: value lost to rounding average entries

accountVars == <<balance, positions, closed, events, cash, net, dust>>

-----------------------------------------------------------------------------
\* Position arithmetic

IsOpen(pos) == pos.qty > 0
Booked(pos) == pos.realized - pos.fees - pos.funding
\* Bug: the direction of a short is forgotten.
RealizedAsLong(pos, qty, price) == (price - pos.avg) * qty
Realized(pos, qty, price) == (price - pos.avg) * qty * Sign(pos.side)

Opened(fill, qty, fee) ==
  [side |-> fill.side, qty |-> qty, initial |-> qty, avg |-> fill.price,
   realized |-> 0, fees |-> fee, funding |-> 0]

CostAfterAdd(pos, fill) == pos.avg * pos.qty + fill.price * fill.qty
AverageAfterAdd(pos, fill) == CostAfterAdd(pos, fill) \div (pos.qty + fill.qty)

AddedTo(pos, fill) ==
  [pos EXCEPT !.qty = @ + fill.qty,
              !.initial = @ + fill.qty,
              !.avg = AverageAfterAdd(pos, fill),
              !.fees = @ + fill.fee]

ReducedBy(pos, fill) ==
  [pos EXCEPT !.qty = @ - fill.qty,
              !.realized = @ + Realized(pos, fill.qty, fill.price),
              !.fees = @ + fill.fee]

\* A fill of the opposite side below the position's quantity reduces it.
\* Bug: one that empties it leaves it behind.
ReducesOrEmpties(pos, fill) == fill.qty <= pos.qty
Reduces(pos, fill) == fill.qty < pos.qty

\* What is left of a closing fill opens the opposite side.
\* Bug: all of it does.
LeftoverOfFlip(pos, fill) == IF fill.qty > pos.qty THEN fill.qty ELSE 0
Leftover(pos, fill) == fill.qty - pos.qty

\* The pnl of the trade that the closing fill books, its own fee included.
\* Bug: without it.
NetBeforeFee(pos, fill) == Booked(pos) + Realized(pos, pos.qty, fill.price)
NetOfTrade(pos, fill) ==
  Booked(pos) + Realized(pos, pos.qty, fill.price) - fill.fee

-----------------------------------------------------------------------------
\* apply_fill, one operator for each path through it

OpenPosition(fill) ==
  /\ ~IsOpen(positions[fill.symbol])
  /\ positions' = [positions EXCEPT ![fill.symbol] = Opened(fill, fill.qty, fill.fee)]
  /\ balance' = balance - fill.fee
  /\ UNCHANGED <<closed, dust>>

AddToPosition(fill) ==
  LET pos == positions[fill.symbol]
      lost == CostAfterAdd(pos, fill)
              - AverageAfterAdd(pos, fill) * (pos.qty + fill.qty)
  IN /\ IsOpen(pos) /\ pos.side = fill.side
     /\ positions' = [positions EXCEPT ![fill.symbol] = AddedTo(pos, fill)]
     /\ balance' = balance - fill.fee
     /\ dust' = [dust EXCEPT ![fill.symbol] = @ + Sign(fill.side) * lost]
     /\ UNCHANGED closed

ReducePosition(fill) ==
  LET pos == positions[fill.symbol]
  IN /\ IsOpen(pos) /\ pos.side # fill.side /\ Reduces(pos, fill)
     /\ positions' = [positions EXCEPT ![fill.symbol] = ReducedBy(pos, fill)]
     /\ balance' = balance - fill.fee + Realized(pos, fill.qty, fill.price)
     /\ UNCHANGED <<closed, dust>>

\* A fill as large as the position closes it; a larger one flips it: the
\* remainder opens the opposite side, and the whole fee stays with the trade
\* that was closed.
ClosePosition(fill) ==
  LET pos == positions[fill.symbol]
      leftover == Leftover(pos, fill)
  IN /\ IsOpen(pos) /\ pos.side # fill.side /\ ~Reduces(pos, fill)
     /\ positions' = [positions EXCEPT ![fill.symbol] =
                        IF leftover > 0 THEN Opened(fill, leftover, 0) ELSE Flat]
     /\ closed' = [closed EXCEPT ![fill.symbol] = @ + NetOfTrade(pos, fill)]
     /\ balance' = balance - fill.fee + Realized(pos, pos.qty, fill.price)
     /\ UNCHANGED dust

ApplyFill(fill) ==
  /\ \/ OpenPosition(fill)
     \/ AddToPosition(fill)
     \/ ReducePosition(fill)
     \/ ClosePosition(fill)
  /\ cash' = [cash EXCEPT ![fill.symbol] =
                @ - Sign(fill.side) * fill.qty * fill.price - fill.fee]
  /\ net' = [net EXCEPT ![fill.symbol] = @ + Sign(fill.side) * fill.qty]
  /\ events' = events + 1

\* A flow into the balance lowers the funding the position has paid.
\* Bug: raises it.
FundingOfReceiver(pos, flow) == pos.funding + flow
FundingAfter(pos, flow) == pos.funding - flow

\* apply_funding: longs pay a positive payment, shorts receive it.
ApplyFunding(symbol, payment) ==
  LET pos == positions[symbol]
      flow == -Sign(pos.side) * payment
  IN /\ IsOpen(pos)
     /\ balance' = balance + flow
     /\ positions' = [positions EXCEPT ![symbol].funding = FundingAfter(pos, flow)]
     /\ cash' = [cash EXCEPT ![symbol] = @ + flow]
     /\ events' = events + 1
     /\ UNCHANGED <<closed, net, dust>>

AccountInit ==
  /\ balance = StartingBalance
  /\ positions = [s \in Symbols |-> Flat]
  /\ closed = [s \in Symbols |-> 0]
  /\ events = 0
  /\ cash = [s \in Symbols |-> 0]
  /\ net = [s \in Symbols |-> 0]
  /\ dust = [s \in Symbols |-> 0]

AccountNext ==
  /\ events < MaxEvents
  /\ \/ \E fill \in Fills : ApplyFill(fill)
     \/ \E s \in Symbols, payment \in FundingPayments : ApplyFunding(s, payment)

AccountSpec == AccountInit /\ [][AccountNext]_accountVars

-----------------------------------------------------------------------------
\* What the account promises

\* Every variable has its type; a position of quantity 0 is exactly Flat, so
\* that "no key in positions" and "quantity 0" are the same thing.
AccountTypeOK ==
  /\ balance \in Int
  /\ positions \in [Symbols -> Positions]
  /\ closed \in [Symbols -> Int]
  /\ events \in Nat
  /\ cash \in [Symbols -> Int]
  /\ net \in [Symbols -> Int]
  /\ dust \in [Symbols -> Int]
  /\ \A s \in Symbols : ~IsOpen(positions[s]) => positions[s] = Flat

\* The position is the signed sum of the symbol's fills: opening, adding,
\* reducing, closing and flipping lose and invent no quantity.
PositionIsNetOfFills ==
  \A s \in Symbols : Sign(positions[s].side) * positions[s].qty = net[s]

\* The stake kept for reporting never understates the position that is open:
\* reductions leave it alone, and a flip starts it anew.
StakeCoversPosition ==
  \A s \in Symbols : positions[s].initial >= positions[s].qty

\* What the account has booked for a symbol, closed trades and open position
\* together, is the cash the fills and fundings really moved plus the cost of
\* the position still held: average-cost accounting, partial exits, flips and
\* fees neither create nor destroy money beyond the rounding of the average.
BookedPnl(s) == closed[s] + Booked(positions[s])
CostOf(pos) == Sign(pos.side) * pos.avg * pos.qty
BookedIsCashPlusCost ==
  \A s \in Symbols : BookedPnl(s) = cash[s] + CostOf(positions[s]) + dust[s]

\* The balance is the starting balance plus everything booked.
BalanceIsBookedPnl ==
  balance = StartingBalance + MapThenSumSet(BookedPnl, Symbols)

\* Each event moves the balance by what it books for one symbol, and books
\* nothing for any other.
BalanceMovesWithBooks ==
  [][\E s \in Symbols :
       /\ balance' - balance = BookedPnl(s)' - BookedPnl(s)
       /\ \A t \in Symbols \ {s} : BookedPnl(t)' = BookedPnl(t)]_accountVars
=============================================================================
