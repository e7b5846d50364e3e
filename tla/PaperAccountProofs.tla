------------------------- MODULE PaperAccountProofs -------------------------
(***************************************************************************)
(* Theorems about PaperAccount: type correctness, the quantity identity,   *)
(* the stake bound, the cash identity and the conservation step, for every *)
(* set of symbols, every set of fills and every number of events.          *)
(***************************************************************************)
EXTENDS PaperAccount, CollectionProofs

(* Rounding down leaves a quotient that is an integer. *)
LEMMA QuotientIsInteger ==
  ASSUME NEW x \in Int, NEW d \in Nat \ {0}
  PROVE  x \div d \in Int
  OBVIOUS

(* What apply_fill may be given, whichever venue or simulator computed it. *)
AnyFill == [symbol : Symbols, side : Sides, qty : Nat \ {0}, price : Int, fee : Int]

(* The fields of a fill have their types. *)
LEMMA FillFields ==
  ASSUME NEW f \in AnyFill
  PROVE  /\ f.symbol \in Symbols
         /\ f.side \in Sides
         /\ f.qty \in Nat \ {0}
         /\ f.price \in Int
         /\ f.fee \in Int
  BY DEF AnyFill

-----------------------------------------------------------------------------
(* The invariant: everything the identities need about a single state.      *)
AccountInv == /\ AccountTypeOK
              /\ PositionIsNetOfFills
              /\ StakeCoversPosition
              /\ BookedIsCashPlusCost

(* A fresh account is flat, owes nothing and has booked nothing. *)
LEMMA AccountInitial == AccountInit => AccountInv
  <1> SUFFICES ASSUME AccountInit PROVE AccountInv
    OBVIOUS
  <1> USE DEF AccountInit, Flat
  <1>1. AccountTypeOK
    BY StartingBalanceAssumption DEF AccountTypeOK, Positions, Sides, IsOpen
  <1>2. PositionIsNetOfFills
    BY DEF PositionIsNetOfFills, Sign
  <1>3. StakeCoversPosition
    BY DEF StakeCoversPosition
  <1>4. BookedIsCashPlusCost
    BY DEF BookedIsCashPlusCost, BookedPnl, Booked, CostOf, Sign
  <1> QED BY <1>1, <1>2, <1>3, <1>4 DEF AccountInv

-----------------------------------------------------------------------------
(* The relation between the balance and the books of one symbol that every  *)
(* step keeps.                                                               *)
BooksOf(s) == /\ balance' - balance = BookedPnl(s)' - BookedPnl(s)
              /\ \A t \in Symbols \ {s} : BookedPnl(t)' = BookedPnl(t)

(* A step that changes one symbol only keeps the types, if what it leaves    *)
(* there has them.                                                           *)
LEMMA TypesOfOneSymbol ==
  ASSUME AccountTypeOK,
         NEW s \in Symbols, NEW p \in Positions,
         NEW c \in Int, NEW k \in Int, NEW n \in Int, NEW d \in Int,
         positions' = [positions EXCEPT ![s] = p],
         closed' = [closed EXCEPT ![s] = c],
         cash' = [cash EXCEPT ![s] = k],
         net' = [net EXCEPT ![s] = n],
         dust' = [dust EXCEPT ![s] = d],
         events' = events + 1,
         balance' \in Int,
         ~IsOpen(p) => p = Flat
  PROVE  AccountTypeOK'
  <1> USE DEF AccountTypeOK
  <1>1. /\ positions' \in [Symbols -> Positions] /\ closed' \in [Symbols -> Int]
        /\ cash' \in [Symbols -> Int] /\ net' \in [Symbols -> Int]
        /\ dust' \in [Symbols -> Int] /\ events' \in Nat
    OBVIOUS
  <1>2. \A t \in Symbols : ~IsOpen(positions'[t]) => positions'[t] = Flat
    OBVIOUS
  <1> QED BY <1>1, <1>2

(* A step that changes one symbol only, and leaves it with a position, sums  *)
(* and ghosts that satisfy the identities, preserves the invariant.  Each   *)
(* path through apply_fill and apply_funding is an instance.                 *)
LEMMA UpdateOfOneSymbol ==
  ASSUME AccountInv,
         NEW s \in Symbols, NEW p \in Positions,
         NEW c \in Int, NEW k \in Int, NEW n \in Int, NEW d \in Int,
         positions' = [positions EXCEPT ![s] = p],
         closed' = [closed EXCEPT ![s] = c],
         cash' = [cash EXCEPT ![s] = k],
         net' = [net EXCEPT ![s] = n],
         dust' = [dust EXCEPT ![s] = d],
         events' = events + 1,
         balance' \in Int,
         ~IsOpen(p) => p = Flat,
         Sign(p.side) * p.qty = n,
         p.initial >= p.qty,
         c + Booked(p) = k + CostOf(p) + d,
         balance' - balance = (c + Booked(p)) - BookedPnl(s)
  PROVE  AccountInv' /\ BooksOf(s)
  <1> USE DEF AccountInv, AccountTypeOK
  <1>1. /\ positions'[s] = p /\ closed'[s] = c /\ cash'[s] = k
        /\ net'[s] = n /\ dust'[s] = d
    OBVIOUS
  <1>2. \A t \in Symbols \ {s} :
          /\ positions'[t] = positions[t] /\ closed'[t] = closed[t]
          /\ cash'[t] = cash[t] /\ net'[t] = net[t] /\ dust'[t] = dust[t]
    OBVIOUS
  <1>3. AccountTypeOK'
    BY TypesOfOneSymbol
  <1>4. PositionIsNetOfFills'
    BY <1>1, <1>2 DEF PositionIsNetOfFills
  <1>5. StakeCoversPosition'
    BY <1>1, <1>2 DEF StakeCoversPosition
  <1>6. BookedIsCashPlusCost'
    BY <1>1, <1>2 DEF BookedIsCashPlusCost, BookedPnl
  <1>7. BooksOf(s)
    BY <1>1, <1>2 DEF BooksOf, BookedPnl, Booked
  <1> QED BY <1>3, <1>4, <1>5, <1>6, <1>7

(* What a step of the account must establish. *)
AccountStepOK == AccountInv' /\ \E s \in Symbols : BooksOf(s)

(* The ghosts of apply_fill stay integers. *)
LEMMA GhostsOfFill ==
  ASSUME AccountInv, NEW f \in AnyFill
  PROVE  /\ cash[f.symbol] - Sign(f.side) * f.qty * f.price - f.fee \in Int
         /\ net[f.symbol] + Sign(f.side) * f.qty \in Int
  BY FillFields DEF AccountInv, AccountTypeOK, Sign

-----------------------------------------------------------------------------
(* Opening: the books of a flat symbol held no open position before. *)
LEMMA OpenPreserves ==
  ASSUME AccountInv, NEW f \in AnyFill, ApplyFill(f), OpenPosition(f)
  PROVE  AccountStepOK
  <1> DEFINE s == f.symbol
             p == Opened(f, f.qty, f.fee)
             k == cash[s] - Sign(f.side) * f.qty * f.price - f.fee
             n == net[s] + Sign(f.side) * f.qty
  <1>1. /\ s \in Symbols /\ f.side \in Sides /\ f.qty \in Nat \ {0}
        /\ f.price \in Int /\ f.fee \in Int
    BY FillFields
  <1>2. /\ p \in Positions /\ p.side = f.side /\ p.qty = f.qty
        /\ p.initial = f.qty /\ p.avg = f.price /\ Booked(p) = 0 - f.fee
        /\ IsOpen(p)
    BY <1>1 DEF Opened, Positions, Booked, IsOpen
  <1>3. /\ positions[s] = Flat /\ net[s] = 0 /\ closed[s] \in Int
        /\ cash[s] \in Int /\ dust[s] \in Int /\ balance \in Int
        /\ closed[s] = cash[s] + dust[s] /\ BookedPnl(s) = closed[s]
    <2>1. positions[s] = Flat
      BY <1>1 DEF AccountInv, AccountTypeOK, OpenPosition
    <2> QED BY <1>1, <2>1 DEF AccountInv, AccountTypeOK, PositionIsNetOfFills,
                   BookedIsCashPlusCost, BookedPnl, Booked, CostOf, Flat, Sign
  <1>4. k \in Int /\ n \in Int
    BY GhostsOfFill
  <1>5. /\ positions' = [positions EXCEPT ![s] = p]
        /\ closed' = [closed EXCEPT ![s] = closed[s]]
        /\ cash' = [cash EXCEPT ![s] = k] /\ net' = [net EXCEPT ![s] = n]
        /\ dust' = [dust EXCEPT ![s] = dust[s]]
        /\ events' = events + 1 /\ balance' = balance - f.fee
    BY <1>1 DEF ApplyFill, OpenPosition, AccountInv, AccountTypeOK
  <1>6. Sign(p.side) * p.qty = n
    BY <1>1, <1>2, <1>3 DEF Sign
  <1>7. closed[s] + Booked(p) = k + CostOf(p) + dust[s]
    BY <1>1, <1>2, <1>3 DEF CostOf, Sign
  <1>8. balance' - balance = (closed[s] + Booked(p)) - BookedPnl(s)
    BY <1>1, <1>2, <1>3, <1>5
  <1>9. balance' \in Int /\ p.initial >= p.qty
    BY <1>1, <1>2, <1>3, <1>5
  <1> HIDE DEF s, p, k, n
  <1> QED BY <1>1, <1>2, <1>3, <1>4, <1>5, <1>6, <1>7, <1>8, <1>9,
             UpdateOfOneSymbol DEF AccountStepOK

(* An open position of the symbol of a fill: its types and its identities. *)
LEMMA BeforeFill ==
  ASSUME AccountInv, NEW s \in Symbols
  PROVE  LET q == positions[s]
         IN /\ q \in Positions /\ q.side \in Sides
            /\ q.qty \in Nat /\ q.initial \in Nat /\ q.avg \in Int
            /\ q.realized \in Int /\ q.fees \in Int /\ q.funding \in Int
            /\ closed[s] \in Int /\ cash[s] \in Int /\ net[s] \in Int
            /\ dust[s] \in Int /\ balance \in Int
            /\ Sign(q.side) * q.qty = net[s]
            /\ q.initial >= q.qty
            /\ closed[s] + Booked(q) = cash[s] + CostOf(q) + dust[s]
            /\ BookedPnl(s) = closed[s] + Booked(q)
  BY DEF AccountInv, AccountTypeOK, PositionIsNetOfFills, StakeCoversPosition,
         BookedIsCashPlusCost, BookedPnl, Positions

-----------------------------------------------------------------------------
(* Adding: the new average, times the new quantity, plus what its rounding  *)
(* lost, is the old cost plus the cost of the fill.                          *)
LEMMA AddPreserves ==
  ASSUME AccountInv, NEW f \in AnyFill, ApplyFill(f), AddToPosition(f)
  PROVE  AccountStepOK
  <1> DEFINE s == f.symbol
             q == positions[s]
             a == AverageAfterAdd(q, f)
             p == [q EXCEPT !.qty = @ + f.qty, !.initial = @ + f.qty,
                            !.avg = a, !.fees = @ + f.fee]
             lost == CostAfterAdd(q, f) - a * (q.qty + f.qty)
             d == dust[s] + Sign(f.side) * lost
             k == cash[s] - Sign(f.side) * f.qty * f.price - f.fee
             n == net[s] + Sign(f.side) * f.qty
  <1>1. /\ s \in Symbols /\ f.side \in Sides /\ f.qty \in Nat \ {0}
        /\ f.price \in Int /\ f.fee \in Int
    BY FillFields
  <1>2. /\ q \in Positions /\ q.side \in Sides /\ q.qty \in Nat
        /\ q.initial \in Nat /\ q.avg \in Int /\ q.realized \in Int
        /\ q.fees \in Int /\ q.funding \in Int
        /\ closed[s] \in Int /\ cash[s] \in Int /\ net[s] \in Int
        /\ dust[s] \in Int /\ balance \in Int
        /\ Sign(q.side) * q.qty = net[s] /\ q.initial >= q.qty
        /\ closed[s] + Booked(q) = cash[s] + CostOf(q) + dust[s]
        /\ BookedPnl(s) = closed[s] + Booked(q)
    BY <1>1, BeforeFill
  <1>3. q.side = f.side
    BY DEF AddToPosition
  <1>4. a \in Int /\ CostAfterAdd(q, f) \in Int
        /\ CostAfterAdd(q, f) = q.avg * q.qty + f.price * f.qty
    <2>1. CostAfterAdd(q, f) \in Int /\ q.qty + f.qty \in Nat \ {0}
      BY <1>1, <1>2 DEF CostAfterAdd
    <2> QED BY <2>1, QuotientIsInteger DEF AverageAfterAdd, CostAfterAdd
  <1>5. /\ p \in Positions /\ p.side = f.side /\ p.qty = q.qty + f.qty
        /\ p.initial = q.initial + f.qty /\ p.avg = a
        /\ p.realized = q.realized /\ p.fees = q.fees + f.fee
        /\ p.funding = q.funding
    <2>1. /\ q.qty + f.qty \in Nat /\ q.initial + f.qty \in Nat
          /\ q.fees + f.fee \in Int
      BY <1>1, <1>2
    <2> HIDE DEF q, a, s
    <2>2. /\ p.side = q.side /\ p.qty = q.qty + f.qty
          /\ p.initial = q.initial + f.qty /\ p.avg = a
          /\ p.realized = q.realized /\ p.fees = q.fees + f.fee
          /\ p.funding = q.funding
      BY <1>2 DEF Positions
    <2>3. p \in Positions
      BY <2>1, <1>2, <1>4 DEF Positions
    <2> QED BY <1>3, <2>2, <2>3
  <1>6. Booked(p) = Booked(q) - f.fee /\ IsOpen(p)
    <2> HIDE DEF p, q, a, s
    <2> QED BY <1>1, <1>2, <1>5 DEF Booked, IsOpen, Positions
  <1>7. k \in Int /\ n \in Int
    BY GhostsOfFill
  <1>8. d \in Int /\ lost \in Int
    BY <1>1, <1>2, <1>4 DEF Sign
  <1>9. /\ positions' = [positions EXCEPT ![s] = p]
        /\ closed' = [closed EXCEPT ![s] = closed[s]]
        /\ cash' = [cash EXCEPT ![s] = k] /\ net' = [net EXCEPT ![s] = n]
        /\ dust' = [dust EXCEPT ![s] = d]
        /\ events' = events + 1 /\ balance' = balance - f.fee
    BY <1>1 DEF ApplyFill, AddToPosition, AddedTo, AccountInv, AccountTypeOK
  <1>10. Sign(p.side) * p.qty = n
    BY <1>1, <1>2, <1>3, <1>5 DEF Sign
  <1>11. CostOf(p) + Sign(f.side) * lost
           = CostOf(q) + Sign(f.side) * f.qty * f.price
    BY <1>1, <1>2, <1>3, <1>4, <1>5 DEF CostOf, Sign
  <1>12. closed[s] + Booked(p) = k + CostOf(p) + d
    <2>1. CostOf(p) \in Int /\ CostOf(q) \in Int /\ Booked(q) \in Int
      BY <1>1, <1>2, <1>3, <1>4, <1>5 DEF CostOf, Sign, Booked
    <2>2. Sign(f.side) * lost \in Int /\ Sign(f.side) * f.qty * f.price \in Int
      BY <1>1, <1>8 DEF Sign
    <2> HIDE DEF lost, p, q, s, a
    <2> QED BY <2>1, <2>2, <1>1, <1>2, <1>6, <1>11
  <1>13. /\ balance' - balance = (closed[s] + Booked(p)) - BookedPnl(s)
         /\ balance' \in Int /\ p.initial >= p.qty
    BY <1>1, <1>2, <1>5, <1>6, <1>9 DEF Booked
  <1> HIDE DEF s, q, p, a, lost, d, k, n
  <1> QED BY <1>1, <1>2, <1>5, <1>6, <1>7, <1>8, <1>9, <1>10, <1>12, <1>13,
             UpdateOfOneSymbol DEF AccountStepOK

-----------------------------------------------------------------------------
(* Reducing: the realized profit is the cash of the fill less the cost of   *)
(* the quantity it takes off the position.                                   *)
LEMMA ReducePreserves ==
  ASSUME AccountInv, NEW f \in AnyFill, ApplyFill(f), ReducePosition(f)
  PROVE  AccountStepOK
  <1> DEFINE s == f.symbol
             q == positions[s]
             r == Realized(q, f.qty, f.price)
             p == [q EXCEPT !.qty = @ - f.qty, !.realized = @ + r,
                            !.fees = @ + f.fee]
             k == cash[s] - Sign(f.side) * f.qty * f.price - f.fee
             n == net[s] + Sign(f.side) * f.qty
  <1>1. /\ s \in Symbols /\ f.side \in Sides /\ f.qty \in Nat \ {0}
        /\ f.price \in Int /\ f.fee \in Int
    BY FillFields
  <1>2. /\ q \in Positions /\ q.side \in Sides /\ q.qty \in Nat
        /\ q.initial \in Nat /\ q.avg \in Int /\ q.realized \in Int
        /\ q.fees \in Int /\ q.funding \in Int
        /\ closed[s] \in Int /\ cash[s] \in Int /\ net[s] \in Int
        /\ dust[s] \in Int /\ balance \in Int
        /\ Sign(q.side) * q.qty = net[s] /\ q.initial >= q.qty
        /\ closed[s] + Booked(q) = cash[s] + CostOf(q) + dust[s]
        /\ BookedPnl(s) = closed[s] + Booked(q)
    BY <1>1, BeforeFill
  <1>3. q.side # f.side /\ f.qty < q.qty
    BY DEF ReducePosition, Reduces
  <1>4. r \in Int
    BY <1>1, <1>2 DEF Realized, Sign
  <1>5. /\ p \in Positions /\ p.side = q.side /\ p.qty = q.qty - f.qty
        /\ p.initial = q.initial /\ p.avg = q.avg
        /\ p.realized = q.realized + r /\ p.fees = q.fees + f.fee
        /\ p.funding = q.funding
    <2>1. /\ q.qty - f.qty \in Nat /\ q.realized + r \in Int
          /\ q.fees + f.fee \in Int
      BY <1>1, <1>2, <1>3, <1>4
    <2> HIDE DEF q, r, s
    <2>2. /\ p.side = q.side /\ p.qty = q.qty - f.qty
          /\ p.initial = q.initial /\ p.avg = q.avg
          /\ p.realized = q.realized + r /\ p.fees = q.fees + f.fee
          /\ p.funding = q.funding
      BY <1>2 DEF Positions
    <2>3. p \in Positions
      BY <2>1, <1>2 DEF Positions
    <2> QED BY <2>2, <2>3
  <1>6. Booked(p) = (Booked(q) + r) - f.fee /\ IsOpen(p)
    <2> HIDE DEF p, q, r, s
    <2> QED BY <1>1, <1>2, <1>3, <1>4, <1>5 DEF Booked, IsOpen
  <1>7. k \in Int /\ n \in Int
    BY GhostsOfFill
  <1>8. /\ positions' = [positions EXCEPT ![s] = p]
        /\ closed' = [closed EXCEPT ![s] = closed[s]]
        /\ cash' = [cash EXCEPT ![s] = k] /\ net' = [net EXCEPT ![s] = n]
        /\ dust' = [dust EXCEPT ![s] = dust[s]]
        /\ events' = events + 1 /\ balance' = (balance - f.fee) + r
    BY <1>1 DEF ApplyFill, ReducePosition, ReducedBy, AccountInv, AccountTypeOK
  <1>9. Sign(p.side) * p.qty = n
    BY <1>1, <1>2, <1>3, <1>5 DEF Sign, Sides
  <1>10. CostOf(p) = (CostOf(q) + r) + Sign(f.side) * f.qty * f.price
    BY <1>1, <1>2, <1>3, <1>5 DEF CostOf, Sign, Sides, Realized
  <1>11. closed[s] + Booked(p) = k + CostOf(p) + dust[s]
    <2>1. /\ CostOf(q) \in Int /\ Booked(q) \in Int
          /\ Sign(f.side) * f.qty * f.price \in Int
      BY <1>1, <1>2 DEF CostOf, Sign, Booked
    <2> HIDE DEF p, q, r, s
    <2> QED BY <2>1, <1>1, <1>2, <1>4, <1>6, <1>10
  <1>12. /\ balance' - balance = (closed[s] + Booked(p)) - BookedPnl(s)
         /\ balance' \in Int /\ p.initial >= p.qty
    <2>1. Booked(q) \in Int
      BY <1>2 DEF Booked
    <2> HIDE DEF p, q, r, s
    <2> QED BY <2>1, <1>1, <1>2, <1>3, <1>4, <1>5, <1>6, <1>8
  <1> HIDE DEF s, q, r, p, k, n
  <1> QED BY <1>1, <1>2, <1>5, <1>6, <1>7, <1>8, <1>9, <1>11, <1>12,
             UpdateOfOneSymbol DEF AccountStepOK

-----------------------------------------------------------------------------
(* Closing and flipping: the trade's net leaves the position for the closed *)
(* sum, and what remains of the fill opens at its own price.                 *)
LEMMA ClosePreserves ==
  ASSUME AccountInv, NEW f \in AnyFill, ApplyFill(f), ClosePosition(f)
  PROVE  AccountStepOK
  <1> DEFINE s == f.symbol
             q == positions[s]
             left == Leftover(q, f)
             r == Realized(q, q.qty, f.price)
             p == IF left > 0 THEN Opened(f, left, 0) ELSE Flat
             c == closed[s] + NetOfTrade(q, f)
             k == cash[s] - Sign(f.side) * f.qty * f.price - f.fee
             n == net[s] + Sign(f.side) * f.qty
  <1>1. /\ s \in Symbols /\ f.side \in Sides /\ f.qty \in Nat \ {0}
        /\ f.price \in Int /\ f.fee \in Int
    BY FillFields
  <1>2. /\ q \in Positions /\ q.side \in Sides /\ q.qty \in Nat
        /\ q.avg \in Int /\ q.realized \in Int
        /\ q.fees \in Int /\ q.funding \in Int
        /\ closed[s] \in Int /\ cash[s] \in Int /\ net[s] \in Int
        /\ dust[s] \in Int /\ balance \in Int
        /\ Sign(q.side) * q.qty = net[s]
        /\ closed[s] + Booked(q) = cash[s] + CostOf(q) + dust[s]
        /\ BookedPnl(s) = closed[s] + Booked(q)
    BY <1>1, BeforeFill
  <1>3. q.side # f.side /\ left \in Nat /\ left = f.qty - q.qty
    BY <1>1, <1>2 DEF ClosePosition, Reduces, Leftover
  <1>4. /\ p \in Positions /\ p.qty = left /\ p.initial = left
        /\ Booked(p) = 0 /\ (~IsOpen(p) => p = Flat)
        /\ left > 0 => p.side = f.side /\ p.avg = f.price
    <2>1. CASE left > 0
      <3> HIDE DEF left
      <3> QED BY <2>1, <1>1, <1>3 DEF Opened, Positions, Booked, IsOpen
    <2>2. CASE ~(left > 0)
      <3> HIDE DEF left
      <3> QED BY <2>2, <1>3 DEF Flat, Positions, Booked, Sides
    <2> QED BY <2>1, <2>2
  <1>5. r \in Int /\ Booked(q) \in Int
    BY <1>1, <1>2 DEF Realized, Sign, Booked
  <1>6. c = (closed[s] + Booked(q) + r) - f.fee /\ c \in Int
    <2> HIDE DEF q, s
    <2> QED BY <1>1, <1>2, <1>5 DEF NetOfTrade
  <1>7. k \in Int /\ n \in Int
    BY GhostsOfFill
  <1>8. /\ positions' = [positions EXCEPT ![s] = p]
        /\ closed' = [closed EXCEPT ![s] = c]
        /\ cash' = [cash EXCEPT ![s] = k] /\ net' = [net EXCEPT ![s] = n]
        /\ dust' = [dust EXCEPT ![s] = dust[s]]
        /\ events' = events + 1 /\ balance' = (balance - f.fee) + r
    BY <1>1 DEF ApplyFill, ClosePosition, AccountInv, AccountTypeOK
  <1>9. Sign(p.side) * p.qty = n
    <2>1. CASE left > 0
      <3>1. p.side = f.side /\ p.qty = f.qty - q.qty
        BY <2>1, <1>3, <1>4
      <3> HIDE DEF p
      <3> QED BY <3>1, <1>1, <1>2, <1>3 DEF Sign, Sides
    <2>2. CASE ~(left > 0)
      <3>1. p.qty = 0 /\ f.qty = q.qty /\ Sign(p.side) \in Int
        BY <2>2, <1>1, <1>2, <1>3, <1>4 DEF Sign
      <3> HIDE DEF p
      <3> QED BY <3>1, <1>1, <1>2, <1>3 DEF Sign, Sides
    <2> QED BY <2>1, <2>2
  <1>10. CostOf(p) = (CostOf(q) + r) + Sign(f.side) * f.qty * f.price
    <2>1. CASE left > 0
      <3>1. p.side = f.side /\ p.qty = f.qty - q.qty /\ p.avg = f.price
        BY <2>1, <1>3, <1>4
      <3> HIDE DEF p
      <3> QED BY <3>1, <1>1, <1>2, <1>3 DEF CostOf, Sign, Sides, Realized
    <2>2. CASE ~(left > 0)
      <3>1. p.qty = 0 /\ p.avg \in Int /\ f.qty = q.qty /\ Sign(p.side) \in Int
        BY <2>2, <1>1, <1>2, <1>3, <1>4 DEF Sign, Positions
      <3>2. CostOf(p) = 0
        <4> HIDE DEF p
        <4> QED BY <3>1 DEF CostOf
      <3> HIDE DEF p
      <3> QED BY <3>1, <3>2, <1>1, <1>2, <1>3 DEF CostOf, Sign, Sides, Realized
    <2> QED BY <2>1, <2>2
  <1>11. c + Booked(p) = k + CostOf(p) + dust[s]
    <2>1. /\ CostOf(q) \in Int /\ Sign(f.side) * f.qty * f.price \in Int
      BY <1>1, <1>2 DEF CostOf, Sign
    <2> HIDE DEF p, q, r, s, c
    <2> QED BY <2>1, <1>1, <1>2, <1>4, <1>5, <1>6, <1>10
  <1>12. /\ balance' - balance = (c + Booked(p)) - BookedPnl(s)
         /\ balance' \in Int /\ p.initial >= p.qty
    <2> HIDE DEF p, q, r, s, c, left
    <2> QED BY <1>1, <1>2, <1>3, <1>4, <1>5, <1>6, <1>8
  <1> HIDE DEF s, q, left, r, p, c, k, n
  <1> QED BY <1>1, <1>2, <1>4, <1>6, <1>7, <1>8, <1>9, <1>11, <1>12,
             UpdateOfOneSymbol DEF AccountStepOK

-----------------------------------------------------------------------------
(* Funding: the flow reaches the balance, the books and the cash alike. *)
LEMMA FundingPreserves ==
  ASSUME AccountInv, NEW s \in Symbols, NEW x \in FundingPayments,
         ApplyFunding(s, x)
  PROVE  AccountStepOK
  <1> DEFINE q == positions[s]
             flow == -Sign(q.side) * x
             p == [q EXCEPT !.funding = q.funding - flow]
             k == cash[s] + flow
  <1>1. x \in Int
    BY FillAssumption
  <1>2. /\ q \in Positions /\ q.side \in Sides /\ q.qty \in Nat
        /\ q.initial \in Nat /\ q.avg \in Int /\ q.realized \in Int
        /\ q.fees \in Int /\ q.funding \in Int
        /\ closed[s] \in Int /\ cash[s] \in Int /\ net[s] \in Int
        /\ dust[s] \in Int /\ balance \in Int
        /\ Sign(q.side) * q.qty = net[s] /\ q.initial >= q.qty
        /\ closed[s] + Booked(q) = cash[s] + CostOf(q) + dust[s]
        /\ BookedPnl(s) = closed[s] + Booked(q)
    BY BeforeFill
  <1>3. flow \in Int /\ k \in Int /\ IsOpen(q)
    BY <1>1, <1>2 DEF Sign, ApplyFunding
  <1>4. /\ p \in Positions /\ p.side = q.side /\ p.qty = q.qty
        /\ p.initial = q.initial /\ p.avg = q.avg /\ p.realized = q.realized
        /\ p.fees = q.fees /\ p.funding = q.funding - flow
    <2>1. q.funding - flow \in Int
      BY <1>2, <1>3
    <2> HIDE DEF q, flow
    <2> QED BY <2>1, <1>2 DEF Positions
  <1>5. /\ Booked(p) = Booked(q) + flow /\ CostOf(p) = CostOf(q) /\ IsOpen(p)
    <2> HIDE DEF p, q, flow
    <2> QED BY <1>2, <1>3, <1>4 DEF Booked, CostOf, IsOpen
  <1>6. /\ positions' = [positions EXCEPT ![s] = p]
        /\ closed' = [closed EXCEPT ![s] = closed[s]]
        /\ cash' = [cash EXCEPT ![s] = k]
        /\ net' = [net EXCEPT ![s] = net[s]]
        /\ dust' = [dust EXCEPT ![s] = dust[s]]
        /\ events' = events + 1 /\ balance' = balance + flow
    BY DEF ApplyFunding, FundingAfter, AccountInv, AccountTypeOK
  <1>7. /\ Sign(p.side) * p.qty = net[s] /\ p.initial >= p.qty
    BY <1>2, <1>4
  <1>8. /\ closed[s] + Booked(p) = k + CostOf(p) + dust[s]
        /\ balance' - balance = (closed[s] + Booked(p)) - BookedPnl(s)
        /\ balance' \in Int
    <2>1. Booked(q) \in Int /\ CostOf(q) \in Int
      BY <1>2 DEF Booked, CostOf, Sign
    <2> HIDE DEF p, q, flow
    <2>2. closed[s] + Booked(p) = k + CostOf(p) + dust[s]
      <3>1. /\ closed[s] \in Int /\ cash[s] \in Int /\ dust[s] \in Int
            /\ closed[s] + Booked(q) = cash[s] + CostOf(q) + dust[s]
        BY <1>2
      <3>2. /\ Booked(p) = Booked(q) + flow /\ CostOf(p) = CostOf(q)
            /\ k = cash[s] + flow /\ flow \in Int
        BY <1>3, <1>5
      <3> HIDE DEF k
      <3> QED BY <2>1, <3>1, <3>2
    <2>3. balance' = balance + flow
      BY <1>6
    <2> QED BY <2>1, <2>2, <2>3, <1>2, <1>3, <1>5
  <1> HIDE DEF q, flow, p, k
  <1> QED BY <1>2, <1>3, <1>4, <1>5, <1>6, <1>7, <1>8,
             UpdateOfOneSymbol DEF AccountStepOK

(* Whatever fill it is given, apply_fill preserves the invariant and moves  *)
(* the balance with the books.                                               *)
LEMMA FillPreserves ==
  ASSUME AccountInv, NEW f \in AnyFill, ApplyFill(f)
  PROVE  AccountStepOK
  BY OpenPreserves, AddPreserves, ReducePreserves, ClosePreserves DEF ApplyFill

(* What the types alone say of a position, and of the sums of its symbol.    *)
LEMMA PositionTypes ==
  ASSUME AccountTypeOK, NEW s \in Symbols
  PROVE  LET q == positions[s]
         IN /\ q \in Positions /\ q.side \in Sides
            /\ q.qty \in Nat /\ q.initial \in Nat /\ q.avg \in Int
            /\ q.realized \in Int /\ q.fees \in Int /\ q.funding \in Int
            /\ closed[s] \in Int /\ cash[s] \in Int /\ net[s] \in Int
            /\ dust[s] \in Int /\ balance \in Int /\ Booked(q) \in Int
  BY DEF AccountTypeOK, Positions, Booked

(* The types need no identity: a restart, which forgets the stake and the    *)
(* ghosts of a position, leaves apply_fill as well typed as before.          *)
LEMMA FillKeepsTypes ==
  ASSUME AccountTypeOK, NEW f \in AnyFill, ApplyFill(f)
  PROVE  /\ AccountTypeOK' /\ events' # events
         /\ \A t \in Symbols \ {f.symbol} : positions'[t] = positions[t]
<1> DEFINE s == f.symbol
           q == positions[s]
           k == cash[s] - Sign(f.side) * f.qty * f.price - f.fee
           n == net[s] + Sign(f.side) * f.qty
           Stepped(p, c, d) ==
             /\ p \in Positions /\ c \in Int /\ d \in Int /\ (~IsOpen(p) => p = Flat)
             /\ positions' = [positions EXCEPT ![s] = p]
             /\ closed' = [closed EXCEPT ![s] = c] /\ dust' = [dust EXCEPT ![s] = d]
             /\ balance' \in Int
<1>1. /\ s \in Symbols /\ f.side \in Sides /\ f.qty \in Nat \ {0}
      /\ f.price \in Int /\ f.fee \in Int
  BY FillFields
<1>2. /\ q \in Positions /\ q.side \in Sides /\ q.qty \in Nat
      /\ q.initial \in Nat /\ q.avg \in Int /\ q.realized \in Int
      /\ q.fees \in Int /\ q.funding \in Int
      /\ closed[s] \in Int /\ cash[s] \in Int /\ net[s] \in Int
      /\ dust[s] \in Int /\ balance \in Int /\ Booked(q) \in Int
  BY <1>1, PositionTypes
<1>3. k \in Int /\ n \in Int /\ Sign(f.side) \in Int /\ Sign(q.side) \in Int
  BY <1>1, <1>2 DEF Sign
<1>4. /\ cash' = [cash EXCEPT ![s] = k] /\ net' = [net EXCEPT ![s] = n]
      /\ events' = events + 1
  BY <1>1 DEF ApplyFill, AccountTypeOK
<1>5. /\ closed = [closed EXCEPT ![s] = closed[s]] /\ dust = [dust EXCEPT ![s] = dust[s]]
  BY <1>1 DEF AccountTypeOK
<1>6. ASSUME OpenPosition(f) PROVE \E p, c, d : Stepped(p, c, d)
  <2> DEFINE p == Opened(f, f.qty, f.fee)
  <2>1. p \in Positions /\ IsOpen(p)
    BY <1>1 DEF Opened, Positions, IsOpen
  <2>2. positions' = [positions EXCEPT ![s] = p] /\ UNCHANGED <<closed, dust>> /\ balance' \in Int
    BY <1>1, <1>2, <1>6 DEF OpenPosition
  <2> HIDE DEF p, q, s
  <2> QED
    BY <1>2, <1>5, <2>1, <2>2 DEF q, s
<1>7. ASSUME AddToPosition(f) PROVE \E p, c, d : Stepped(p, c, d)
  <2> DEFINE a == AverageAfterAdd(q, f)
             p == [q EXCEPT !.qty = @ + f.qty, !.initial = @ + f.qty, !.avg = a, !.fees = @ + f.fee]
             lost == CostAfterAdd(q, f) - a * (q.qty + f.qty)
             d == dust[s] + Sign(f.side) * lost
  <2>1. a \in Int /\ CostAfterAdd(q, f) \in Int
    <3>1. CostAfterAdd(q, f) \in Int /\ q.qty + f.qty \in Nat \ {0}
      BY <1>1, <1>2 DEF CostAfterAdd
    <3> QED
      BY <3>1, QuotientIsInteger DEF AverageAfterAdd
  <2>2. lost \in Int /\ d \in Int
    <3> HIDE DEF a
    <3>1. lost \in Int
      BY <1>1, <1>2, <2>1
    <3> HIDE DEF lost
    <3> QED
      BY <1>2, <1>3, <3>1
  <2>3. p \in Positions /\ IsOpen(p)
    <3>1. /\ q.qty + f.qty \in Nat /\ q.initial + f.qty \in Nat /\ q.fees + f.fee \in Int
          /\ q.qty + f.qty > 0
      BY <1>1, <1>2
    <3> HIDE DEF q, a, s
    <3> QED
      BY <1>2, <2>1, <3>1 DEF Positions, IsOpen
  <2>4. /\ positions' = [positions EXCEPT ![s] = p] /\ dust' = [dust EXCEPT ![s] = d]
        /\ UNCHANGED closed /\ balance' = balance - f.fee
    BY <1>1, <1>7 DEF AddToPosition, AddedTo, AccountTypeOK
  <2>5. balance' \in Int
    BY <1>1, <1>2, <2>4
  <2> HIDE DEF p, q, s, d
  <2> QED
    BY <1>2, <1>5, <2>2, <2>3, <2>4, <2>5 DEF q, s
<1>8. ASSUME ReducePosition(f) PROVE \E p, c, d : Stepped(p, c, d)
  <2> DEFINE r == Realized(q, f.qty, f.price)
             p == [q EXCEPT !.qty = @ - f.qty, !.realized = @ + r, !.fees = @ + f.fee]
  <2>1. r \in Int
    BY <1>1, <1>2, <1>3 DEF Realized
  <2>2. f.qty < q.qty
    BY <1>8 DEF ReducePosition, Reduces
  <2>3. p \in Positions /\ IsOpen(p)
    <3>1. /\ q.qty - f.qty \in Nat /\ q.qty - f.qty > 0 /\ q.realized + r \in Int
          /\ q.fees + f.fee \in Int
      BY <1>1, <1>2, <2>1, <2>2
    <3> HIDE DEF q, r, s
    <3> QED
      BY <1>2, <3>1 DEF Positions, IsOpen
  <2>4. /\ positions' = [positions EXCEPT ![s] = p] /\ UNCHANGED <<closed, dust>>
        /\ balance' = (balance - f.fee) + r
    BY <1>1, <1>8 DEF ReducePosition, ReducedBy, AccountTypeOK
  <2> HIDE DEF r
  <2>5. balance' \in Int
    BY <1>1, <1>2, <2>1, <2>4
  <2> HIDE DEF p, q, s
  <2> QED
    BY <1>2, <1>5, <2>3, <2>4, <2>5 DEF q, s
<1>9. ASSUME ClosePosition(f) PROVE \E p, c, d : Stepped(p, c, d)
  <2> DEFINE left == Leftover(q, f)
             r == Realized(q, q.qty, f.price)
             p == IF left > 0 THEN Opened(f, left, 0) ELSE Flat
             c == closed[s] + NetOfTrade(q, f)
  <2>1. left \in Nat
    BY <1>1, <1>2, <1>9 DEF ClosePosition, Reduces, Leftover
  <2>2. r \in Int
    BY <1>1, <1>2, <1>3 DEF Realized
  <2>3. p \in Positions /\ (~IsOpen(p) => p = Flat)
    <3> HIDE DEF left
    <3> QED
      BY <1>1, <2>1 DEF Opened, Flat, Positions, IsOpen, Sides
  <2>4. c \in Int
    <3> HIDE DEF q, s
    <3>1. NetOfTrade(q, f) = (Booked(q) + r) - f.fee
      BY <1>1, <1>2, <2>2 DEF NetOfTrade
    <3> HIDE DEF r
    <3> QED
      BY <1>1, <1>2, <2>2, <3>1
  <2>5. /\ positions' = [positions EXCEPT ![s] = p] /\ closed' = [closed EXCEPT ![s] = c]
        /\ UNCHANGED dust /\ balance' = (balance - f.fee) + r
    BY <1>1, <1>9 DEF ClosePosition, AccountTypeOK
  <2> HIDE DEF r
  <2>6. balance' \in Int
    BY <1>1, <1>2, <2>2, <2>5
  <2> HIDE DEF p, c, q, s
  <2> QED
    BY <1>2, <1>5, <2>3, <2>4, <2>5, <2>6 DEF q, s
<1>10. PICK p, c, d : Stepped(p, c, d)
  BY <1>6, <1>7, <1>8, <1>9 DEF ApplyFill
<1> HIDE DEF k, n, q
<1>11. AccountTypeOK'
  BY <1>1, <1>3, <1>4, <1>10, TypesOfOneSymbol
<1>12. events \in Nat /\ \A t \in Symbols \ {s} : positions'[t] = positions[t]
  BY <1>10 DEF AccountTypeOK
<1> QED
  BY <1>4, <1>11, <1>12

(* The trade of a symbol is closed when its position ends or turns over. *)
EndsTrade(s) == IsOpen(positions[s]) /\ ~(IsOpen(positions'[s]) /\ positions'[s].side = positions[s].side)

(* A fill books a trade only when it closes one, and touches no symbol but   *)
(* its own.                                                                  *)
LEMMA OnlyClosingBooks ==
  ASSUME AccountInv, NEW f \in AnyFill, ApplyFill(f)
  PROVE  /\ \A t \in Symbols \ {f.symbol} : positions'[t] = positions[t] /\ closed'[t] = closed[t]
         /\ ~EndsTrade(f.symbol) => closed' = closed
<1> DEFINE s == f.symbol
           q == positions[s]
<1>1. /\ s \in Symbols /\ f.side \in Sides /\ f.qty \in Nat \ {0} /\ f.price \in Int /\ f.fee \in Int
      /\ q \in Positions /\ q.side \in Sides /\ q.qty \in Nat
  BY FillFields, BeforeFill
<1>2. positions \in [Symbols -> Positions] /\ closed \in [Symbols -> Int]
  BY DEF AccountInv, AccountTypeOK
<1>3. CASE OpenPosition(f) \/ AddToPosition(f) \/ ReducePosition(f)
  BY <1>1, <1>2, <1>3 DEF OpenPosition, AddToPosition, ReducePosition
<1>4. CASE ClosePosition(f)
  <2> DEFINE left == Leftover(q, f)
             p == IF left > 0 THEN Opened(f, left, 0) ELSE Flat
  <2>1. /\ IsOpen(q) /\ q.side # f.side
        /\ positions' = [positions EXCEPT ![s] = p]
        /\ closed' = [closed EXCEPT ![s] = @ + NetOfTrade(q, f)]
    BY <1>4 DEF ClosePosition
  <2>2. ~(IsOpen(p) /\ p.side = q.side)
    <3>1. CASE left > 0
      BY <2>1, <3>1 DEF Opened
    <3>2. CASE ~(left > 0)
      BY <3>2 DEF Flat, IsOpen
    <3> QED
      BY <3>1, <3>2
  <2> HIDE DEF p, left
  <2>3. positions'[s] = p
    BY <1>1, <1>2, <2>1
  <2>4. EndsTrade(s)
    BY <2>1, <2>2, <2>3 DEF EndsTrade
  <2> HIDE DEF q, s
  <2>5. \A t \in Symbols \ {s} : positions'[t] = positions[t] /\ closed'[t] = closed[t]
    BY <1>2, <2>1
  <2> QED
    BY <2>4, <2>5 DEF s
<1> QED
  BY <1>3, <1>4 DEF ApplyFill

(* Every step of the account preserves the invariant and moves the balance  *)
(* with the books.                                                           *)
LEMMA AccountStep == AccountInv /\ AccountNext => AccountStepOK
  <1> SUFFICES ASSUME AccountInv, AccountNext PROVE AccountStepOK
    OBVIOUS
  <1>1. ASSUME NEW f \in Fills, ApplyFill(f) PROVE AccountStepOK
    <2>1. /\ f.symbol \in Symbols /\ f.side \in Sides /\ f.qty \in FillQtys
          /\ f.price \in FillPrices /\ f.fee \in FillFees
          /\ f = [symbol |-> f.symbol, side |-> f.side, qty |-> f.qty,
                  price |-> f.price, fee |-> f.fee]
      BY DEF Fills
    <2>2. f.qty \in Nat \ {0} /\ f.price \in Int /\ f.fee \in Int
      BY <2>1, FillAssumption
    <2>3. f \in AnyFill
      BY <2>1, <2>2 DEF AnyFill
    <2> QED BY <1>1, <2>3, FillPreserves
  <1>2. ASSUME NEW s \in Symbols, NEW x \in FundingPayments, ApplyFunding(s, x)
        PROVE AccountStepOK
    BY <1>2, FundingPreserves
  <1> QED BY <1>1, <1>2 DEF AccountNext

(* A stuttering step changes nothing the invariant reads. *)
LEMMA AccountStutter == AccountInv /\ UNCHANGED accountVars => AccountInv'
  BY DEF AccountInv, AccountTypeOK, PositionIsNetOfFills, StakeCoversPosition,
         BookedIsCashPlusCost, BookedPnl, accountVars

(* The conjunction is inductive. *)
THEOREM AccountInvariant == AccountSpec => []AccountInv
  <1>1. AccountInv /\ [AccountNext]_accountVars => AccountInv'
    BY AccountStep, AccountStutter DEF AccountStepOK
  <1> QED BY AccountInitial, <1>1, PTL DEF AccountSpec

(* Type correctness: whatever fills arrive, the state keeps its types and a *)
(* position of quantity 0 is an absent one.                                  *)
THEOREM AccountTypeCorrect == AccountSpec => []AccountTypeOK
  BY AccountInvariant, PTL DEF AccountInv

(* apply_fill neither loses nor invents quantity. *)
THEOREM QuantityIdentity == AccountSpec => []PositionIsNetOfFills
  BY AccountInvariant, PTL DEF AccountInv

(* initial_qty never understates the open position. *)
THEOREM StakeBound == AccountSpec => []StakeCoversPosition
  BY AccountInvariant, PTL DEF AccountInv

(* Average-cost accounting books exactly the cash that moved, the cost of   *)
(* what is held and the rounding of the average.                             *)
THEOREM CashIdentity == AccountSpec => []BookedIsCashPlusCost
  BY AccountInvariant, PTL DEF AccountInv

(* Conservation: the balance moves only with what the books of one symbol   *)
(* record.                                                                   *)
THEOREM Conservation == AccountSpec => BalanceMovesWithBooks
  <1>1. AccountInv /\ [AccountNext]_accountVars
          => [\E s \in Symbols :
                /\ balance' - balance = BookedPnl(s)' - BookedPnl(s)
                /\ \A t \in Symbols \ {s} : BookedPnl(t)' = BookedPnl(t)]_accountVars
    BY AccountStep DEF AccountStepOK, BooksOf
  <1> QED BY AccountInvariant, <1>1, PTL DEF AccountSpec, BalanceMovesWithBooks

-----------------------------------------------------------------------------
(* What every symbol has booked, as a function. *)
BookedBySymbol == [s \in Symbols |-> BookedPnl(s)]

(* The library's sum of the books is the sum of that function. *)
LEMMA BooksAdd ==
  MapThenSumSet(BookedPnl, Symbols) = SumOver(BookedBySymbol, Symbols)
<1> DEFINE F(g) == g = [s \in SUBSET Symbols |->
                          IF s = {} THEN 0
                          ELSE BookedPnl(Pick(s)) + g[s \ {Pick(s)}]]
           h == CHOOSE g : F(g)
<1>1. MapThenSumSet(BookedPnl, Symbols) = h[Symbols]
  BY DEF MapThenSumSet, MapThenFoldSet, Pick
<1>2. \A g : FoldOf(g, BookedBySymbol, Symbols) <=> F(g)
  <2> SUFFICES ASSUME NEW g PROVE FoldOf(g, BookedBySymbol, Symbols) <=> F(g)
    OBVIOUS
  <2> DEFINE A(s) == IF s = {} THEN 0 ELSE BookedBySymbol[Pick(s)] + g[s \ {Pick(s)}]
             B(s) == IF s = {} THEN 0 ELSE BookedPnl(Pick(s)) + g[s \ {Pick(s)}]
  <2>1. ASSUME NEW s \in SUBSET Symbols PROVE A(s) = B(s)
    <3>1. CASE s = {}
      BY <3>1
    <3>2. CASE s # {}
      <4>1. Pick(s) \in Symbols
        BY <3>2, PickIsMember
      <4> QED
        BY <4>1 DEF BookedBySymbol
    <3> QED
      BY <3>1, <3>2
  <2> HIDE DEF A, B
  <2>2. [s \in SUBSET Symbols |-> A(s)] = [s \in SUBSET Symbols |-> B(s)]
    BY <2>1
  <2> QED
    BY <2>2 DEF A, B, FoldOf
<1>3. \E g : F(g)
  <2> HIDE DEF F
  <2> QED
    BY <1>2, FoldExists, SymbolAssumption
<1>4. F(h)
  <2> HIDE DEF F
  <2> QED
    BY <1>3
<1> HIDE DEF F, h
<1>5. FoldOf(h, BookedBySymbol, Symbols)
  BY <1>2, <1>4
<1>6. h[Symbols] = SumOver(BookedBySymbol, Symbols)
  <2>1. Symbols \subseteq Symbols
    OBVIOUS
  <2> QED
    BY <1>5, <2>1, SymbolAssumption, FoldIsSum
<1> QED
  BY <1>1, <1>6

(* The balance identity, with that sum. *)
LEMMA BalanceAsSum ==
  BalanceIsBookedPnl <=> balance = StartingBalance + SumOver(BookedBySymbol, Symbols)
  BY BooksAdd DEF BalanceIsBookedPnl

(* The same of the next state. *)
LEMMA NextBalanceAsSum ==
  BalanceIsBookedPnl' <=> balance' = StartingBalance + SumOver(BookedBySymbol', Symbols)
<1>1. (BalanceIsBookedPnl <=> balance = StartingBalance + SumOver(BookedBySymbol, Symbols))'
  BY BalanceAsSum, PTL
<1> QED
  BY <1>1

(* What a symbol has booked is an integer. *)
LEMMA BookedIsInteger ==
  ASSUME AccountTypeOK, NEW s \in Symbols
  PROVE  BookedBySymbol[s] \in Int /\ BookedBySymbol[s] = BookedPnl(s)
  BY DEF AccountTypeOK, BookedBySymbol, BookedPnl, Booked, Positions

(* A step that moves the balance with the books of one symbol keeps the     *)
(* balance the sum of the books.                                             *)
LEMMA BooksKeepBalance ==
  ASSUME AccountInv, AccountStepOK, BalanceIsBookedPnl
  PROVE  BalanceIsBookedPnl'
<1>1. PICK s \in Symbols : BooksOf(s)
  BY DEF AccountStepOK
<1>2. /\ AccountTypeOK /\ AccountTypeOK'
      /\ balance \in Int /\ balance' \in Int
  BY DEF AccountStepOK, AccountInv, AccountTypeOK
<1>3. \A t \in Symbols : BookedBySymbol[t] \in Int /\ BookedBySymbol[t] = BookedPnl(t)
  BY <1>2, BookedIsInteger
<1>4. \A t \in Symbols : BookedBySymbol'[t] \in Int /\ BookedBySymbol'[t] = BookedPnl(t)'
  BY <1>2 DEF AccountTypeOK, BookedBySymbol, BookedPnl, Booked, Positions
<1> DEFINE d == BookedBySymbol'[s] - BookedBySymbol[s]
<1>5. d \in Int /\ balance' - balance = d
  BY <1>1, <1>3, <1>4 DEF BooksOf
<1>6. BookedBySymbol'[s] = BookedBySymbol[s] + d
  BY <1>3, <1>4
<1>7. \A t \in Symbols \ {s} : BookedBySymbol'[t] = BookedBySymbol[t]
  BY <1>1, <1>3, <1>4 DEF BooksOf
<1> HIDE DEF d
<1>8. \A f, e : (/\ \A t \in Symbols : f[t] \in Int
                 /\ e[s] = f[s] + d
                 /\ \A t \in Symbols \ {s} : e[t] = f[t])
                => SumOver(e, Symbols) = SumOver(f, Symbols) + d
  BY <1>5, SymbolAssumption, SumOfUpdate
<1>9. SumOver(BookedBySymbol', Symbols) = SumOver(BookedBySymbol, Symbols) + d
  BY <1>3, <1>6, <1>7, <1>8
<1>10. SumOver(BookedBySymbol, Symbols) \in Int
  <2>1. \A f : (\A t \in Symbols : f[t] \in Int) => SumOver(f, Symbols) \in Int
    BY SymbolAssumption, SumIsInteger
  <2> QED
    BY <1>3, <2>1
<1>11. balance = StartingBalance + SumOver(BookedBySymbol, Symbols)
  BY BalanceAsSum
<1>12. balance' = StartingBalance + SumOver(BookedBySymbol', Symbols)
  BY <1>2, <1>5, <1>9, <1>10, <1>11, StartingBalanceAssumption
<1> QED
  BY <1>12, NextBalanceAsSum

(* A step that leaves the account alone leaves both sides alone. *)
LEMMA BalanceStutters ==
  BalanceIsBookedPnl /\ UNCHANGED accountVars => BalanceIsBookedPnl'
  BY BalanceAsSum, NextBalanceAsSum DEF accountVars, BookedBySymbol, BookedPnl

(* A fresh account has booked nothing. *)
LEMMA BalanceInitial == AccountInit => BalanceIsBookedPnl
<1> SUFFICES ASSUME AccountInit PROVE BalanceIsBookedPnl
  OBVIOUS
<1>1. \A t \in Symbols : BookedBySymbol[t] = 0
  BY DEF AccountInit, BookedBySymbol, BookedPnl, Booked, Flat
<1>2. SumOver(BookedBySymbol, Symbols) = 0
  <2>1. \A f : (\A t \in Symbols : f[t] = 0) => SumOver(f, Symbols) = 0
    BY SymbolAssumption, SumOfZeros
  <2> QED
    BY <1>1, <2>1
<1> QED
  BY <1>2, BalanceAsSum, StartingBalanceAssumption DEF AccountInit

(* The balance is the starting balance plus the booked pnl of every symbol, *)
(* however many symbols trade.                                               *)
THEOREM BalanceIdentity == AccountSpec => []BalanceIsBookedPnl
<1>1. AccountInv /\ BalanceIsBookedPnl /\ [AccountNext]_accountVars => BalanceIsBookedPnl'
  <2>1. AccountInv /\ BalanceIsBookedPnl /\ AccountNext => BalanceIsBookedPnl'
    BY AccountStep, BooksKeepBalance
  <2> QED
    BY <2>1, BalanceStutters
<1> QED
  BY AccountInvariant, BalanceInitial, <1>1, PTL DEF AccountSpec
=============================================================================
