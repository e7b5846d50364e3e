---------------------------- MODULE ReportsProofs ----------------------------
(***************************************************************************)
(* Theorems about AccountReports, for every set of symbols, every fill,    *)
(* every funding and every number of bins: the calendars and the groups    *)
(* are about every closed trade once, a histogram counts each value in the *)
(* bin whose edges hold it, and nobody is called ready who has lost money. *)
(***************************************************************************)
EXTENDS AccountReports, PaperAccountProofs

\* A closed trade: it has the hour at which it was closed.
ClosedTrades == [symbol : Symbols, pnl : Int, openedAt : Nat, closedAt : Nat \ {0}]

\* The indices of the trades of a symbol.
TradesOf(s) == {i \in DOMAIN trades : trades[i].symbol = s}

\* What the list of trades knows is what the account has booked, symbol by symbol.
ListInv ==
  /\ now \in Nat /\ openedAt \in [Symbols -> Nat]
  /\ trades \in Seq(ClosedTrades)
  /\ \A s \in Symbols : SumOver(Pnls(trades), TradesOf(s)) = closed[s]
ReportInv == AccountInv /\ ListInv

\* Before the first fill there is nothing to report.
LEMMA ReportsInitial == ReportsInit => ReportInv /\ BalanceIsBookedPnl
<1> SUFFICES ASSUME ReportsInit PROVE ReportInv /\ BalanceIsBookedPnl
  OBVIOUS
<1>1. AccountInit /\ trades = << >> /\ now = 0 /\ openedAt = [s \in Symbols |-> 0]
  BY DEF ReportsInit
<1>2. AccountInv /\ BalanceIsBookedPnl
  BY <1>1, AccountInitial, BalanceInitial
<1>3. \A s \in Symbols : TradesOf(s) = {} /\ closed[s] = 0
  BY <1>1 DEF TradesOf, AccountInit
<1>4. \A s \in Symbols : SumOver(Pnls(trades), TradesOf(s)) = closed[s]
  BY <1>3, SumOfNone
<1> QED
  BY <1>1, <1>2, <1>4 DEF ReportInv, ListInv

\* The sum of the pnl of some trades, when another one is appended.
LEMMA SumAfterAppend ==
  ASSUME NEW list \in Seq(ClosedTrades), NEW t \in ClosedTrades, NEW s
  PROVE  SumOver(Pnls(Append(list, t)), {i \in DOMAIN Append(list, t) : Append(list, t)[i].symbol = s})
           = SumOver(Pnls(list), {i \in DOMAIN list : list[i].symbol = s})
               + (IF t.symbol = s THEN t.pnl ELSE 0)
<1> DEFINE longer == Append(list, t)
           n == Len(list)
           old == {i \in DOMAIN list : list[i].symbol = s}
           new == {i \in DOMAIN longer : longer[i].symbol = s}
           f == Pnls(longer)
           g == Pnls(list)
<1>1. /\ n \in Nat /\ DOMAIN list = 1 .. n /\ longer \in Seq(ClosedTrades)
      /\ DOMAIN longer = 1 .. n + 1 /\ longer[n + 1] = t
      /\ \A i \in 1 .. n : longer[i] = list[i] /\ list[i] \in ClosedTrades
  BY ElementOfSeq
<1> HIDE DEF longer, n
<1>2. /\ \A i \in 1 .. n : f[i] = g[i] /\ g[i] \in Int
      /\ f[n + 1] = t.pnl /\ t.pnl \in Int
  BY <1>1 DEF Pnls, ClosedTrades
<1> HIDE DEF f, g
<1>3. old \subseteq 1 .. n /\ IsFiniteSet(old) /\ n + 1 \notin old
  <2>1. old \subseteq 1 .. n
    BY <1>1
  <2>2. IsFiniteSet(1 .. n)
    BY <1>1, FS_Interval
  <2>3. n + 1 \notin 1 .. n
    BY <1>1
  <2> HIDE DEF old
  <2> QED
    BY <2>1, <2>2, <2>3, FS_Subset
<1>4. new = IF t.symbol = s THEN old \cup {n + 1} ELSE old
  <2>1. \A i : i \in DOMAIN longer <=> i \in DOMAIN list \/ i = n + 1
    BY <1>1
  <2> QED
    BY <1>1, <2>1
<1> HIDE DEF old, new
<1>5. SumOver(f, old) = SumOver(g, old) /\ SumOver(g, old) \in Int
  <2>1. \A i \in old : f[i] = g[i] /\ g[i] \in Int
    BY <1>2, <1>3
  <2> QED
    BY <1>3, <2>1, SumCongruence, SumIsInteger
<1>6. SumOver(f, old \cup {n + 1}) = SumOver(f, old) + f[n + 1]
  <2>1. \A i \in old \cup {n + 1} : f[i] \in Int
    BY <1>2, <1>3
  <2> QED
    BY <1>3, <2>1, SumJoins
<1>7. SumOver(f, new) = SumOver(g, old) + (IF t.symbol = s THEN t.pnl ELSE 0)
  <2>1. CASE t.symbol = s
    BY <1>2, <1>4, <1>5, <1>6, <2>1
  <2>2. CASE t.symbol # s
    BY <1>4, <1>5, <2>2
  <2> QED
    BY <2>1, <2>2
<1> QED
  BY <1>7 DEF f, g, old, new, longer

\* A fill books the trade that it appends, or none.
LEMMA FillKeepsList ==
  ASSUME ReportInv, BalanceIsBookedPnl, NEW f \in Fills, NEW hour \in Hours, FillAt(f, hour)
  PROVE  ReportInv' /\ BalanceIsBookedPnl'
<1> DEFINE s == f.symbol
<1>1. f \in AnyFill /\ ApplyFill(f) /\ hour \in Nat \ {0}
  <2>1. /\ f.symbol \in Symbols /\ f.side \in Sides /\ f.qty \in FillQtys
        /\ f.price \in FillPrices /\ f.fee \in FillFees
        /\ f = [symbol |-> f.symbol, side |-> f.side, qty |-> f.qty,
                price |-> f.price, fee |-> f.fee]
    BY DEF Fills
  <2>3. f.qty \in Nat \ {0} /\ f.price \in Int /\ f.fee \in Int
    BY <2>1, FillAssumption
  <2>2. hour \in Nat \ {0}
    BY ReportsAssumption
  <2> QED
    BY <2>1, <2>2, <2>3 DEF AnyFill, FillAt
<1>2. AccountStepOK /\ AccountInv /\ s \in Symbols
  BY <1>1, FillPreserves, FillFields DEF ReportInv
<1>3. AccountInv' /\ BalanceIsBookedPnl'
  BY <1>2, BooksKeepBalance DEF AccountStepOK
<1>4. /\ closed \in [Symbols -> Int] /\ closed' \in [Symbols -> Int]
  BY <1>2, <1>3 DEF AccountInv, AccountTypeOK
<1>5. now' \in Nat /\ openedAt' \in [Symbols -> Nat]
  <2>1. /\ now' = hour
        /\ openedAt' = [openedAt EXCEPT ![s] = IF Begins(s) THEN hour ELSE @]
    BY DEF FillAt
  <2> QED
    BY <1>1, <1>2, <2>1 DEF ReportInv, ListInv
<1>6. /\ \A t \in Symbols \ {s} : closed'[t] = closed[t]
      /\ ~Closes(s) => closed' = closed
  <2>1. Closes(s) <=> EndsTrade(s)
    BY DEF Closes, EndsTrade
  <2> QED
    BY <1>1, <1>2, <2>1, OnlyClosingBooks
<1> DEFINE t == [symbol |-> s, pnl |-> closed'[s] - closed[s],
                 openedAt |-> openedAt[s], closedAt |-> hour]
<1>7. trades' = IF Closes(s) THEN Append(trades, t) ELSE trades
  BY DEF FillAt
<1>8. ListInv'
  <2>1. CASE Closes(s)
    <3>1. t \in ClosedTrades /\ t.symbol = s /\ t.pnl = closed'[s] - closed[s]
      BY <1>1, <1>2, <1>4 DEF ClosedTrades, ReportInv, ListInv
    <3> HIDE DEF t
    <3>2. trades' = Append(trades, t) /\ trades \in Seq(ClosedTrades)
      BY <1>7, <2>1 DEF ReportInv, ListInv
    <3>3. ASSUME NEW x \in Symbols
          PROVE  SumOver(Pnls(trades'), TradesOf(x)') = closed'[x]
      <4>1. SumOver(Pnls(trades'), TradesOf(x)')
              = SumOver(Pnls(trades), TradesOf(x)) + (IF s = x THEN closed'[s] - closed[s] ELSE 0)
        <5>1. SumOver(Pnls(Append(trades, t)),
                      {i \in DOMAIN Append(trades, t) : Append(trades, t)[i].symbol = x})
                = SumOver(Pnls(trades), {i \in DOMAIN trades : trades[i].symbol = x})
                    + (IF t.symbol = x THEN t.pnl ELSE 0)
          BY <3>1, <3>2, SumAfterAppend
        <5>2. TradesOf(x)' = {i \in DOMAIN Append(trades, t) : Append(trades, t)[i].symbol = x}
          BY <3>2, Zenon DEF TradesOf
        <5>3. (IF t.symbol = x THEN t.pnl ELSE 0) = IF s = x THEN closed'[s] - closed[s] ELSE 0
          BY <3>1, Zenon
        <5> QED
          BY <3>2, <5>1, <5>2, <5>3, Zenon DEF TradesOf
      <4>2. SumOver(Pnls(trades), TradesOf(x)) = closed[x]
        BY DEF ReportInv, ListInv
      <4> HIDE DEF s
      <4>3. SumOver(Pnls(trades'), TradesOf(x)')
              = closed[x] + (IF s = x THEN closed'[s] - closed[s] ELSE 0)
        BY <4>1, <4>2
      <4> QED
        BY <1>2, <1>4, <1>6, <4>3
    <3> QED
      BY <1>5, <3>1, <3>2, <3>3 DEF ListInv
  <2>2. CASE ~Closes(s)
    <3>1. trades' = trades /\ closed' = closed
      BY <1>6, <1>7, <2>2
    <3>2. \A x \in Symbols : TradesOf(x)' = TradesOf(x)
      BY <3>1 DEF TradesOf
    <3> QED
      BY <1>5, <3>1, <3>2 DEF ReportInv, ListInv
  <2> QED
    BY <2>1, <2>2
<1> QED
  BY <1>3, <1>8 DEF ReportInv

\* Every step keeps the list of trades what the account has booked.
LEMMA ReportsStep ==
  ReportInv /\ BalanceIsBookedPnl /\ [ReportsNext]_reportVars => ReportInv' /\ BalanceIsBookedPnl'
<1> SUFFICES ASSUME ReportInv, BalanceIsBookedPnl, [ReportsNext]_reportVars
             PROVE  ReportInv' /\ BalanceIsBookedPnl'
  OBVIOUS
<1>1. CASE \E f \in Fills, hour \in Hours : FillAt(f, hour)
  BY <1>1, FillKeepsList
<1>2. CASE /\ \E s \in Symbols, payment \in FundingPayments : ApplyFunding(s, payment)
           /\ UNCHANGED <<now, openedAt, trades>>
  <2>1. AccountStepOK /\ AccountInv /\ closed' = closed
    BY <1>2, FundingPreserves DEF ReportInv, ApplyFunding
  <2>2. AccountInv' /\ BalanceIsBookedPnl'
    BY <2>1, BooksKeepBalance DEF AccountStepOK
  <2> QED
    BY <1>2, <2>1, <2>2 DEF ReportInv, ListInv, TradesOf
<1>3. CASE UNCHANGED reportVars
  <2>1. UNCHANGED accountVars /\ UNCHANGED <<now, openedAt, trades>> /\ closed' = closed
    BY <1>3 DEF reportVars, accountVars
  <2> QED
    BY <2>1, AccountStutter, BalanceStutters DEF ReportInv, ListInv, TradesOf
<1> QED
  BY <1>1, <1>2, <1>3 DEF ReportsNext

\* The account keeps its promises while its trades are reported, and the list
\* of trades is what it has booked, symbol by symbol.
THEOREM ReportsInvariant == ReportsSpec => [](ReportInv /\ BalanceIsBookedPnl)
<1> QED
  BY ReportsInitial, ReportsStep, PTL DEF ReportsSpec
-----------------------------------------------------------------------------
(***************************************************************************)
(* Calendars and groups.                                                   *)
(***************************************************************************)
\* What a list of trades is made of.
LEMMA ListIs ==
  ASSUME NEW list \in Seq(ClosedTrades)
  PROVE  /\ Len(list) \in Nat /\ DOMAIN list = 1 .. Len(list)
         /\ IsFiniteSet(DOMAIN list) /\ Cardinality(DOMAIN list) = Len(list)
         /\ DOMAIN Pnls(list) = DOMAIN list
         /\ \A i \in DOMAIN list : /\ list[i] \in ClosedTrades
                                   /\ Pnls(list)[i] = list[i].pnl /\ Pnls(list)[i] \in Int
<1>1. Len(list) \in Nat /\ DOMAIN list = 1 .. Len(list) /\ \A i \in DOMAIN list : list[i] \in ClosedTrades
  BY ElementOfSeq
<1>2. IsFiniteSet(1 .. Len(list)) /\ Cardinality(1 .. Len(list)) = Len(list)
  BY <1>1, FS_Interval
<1>3. \A i \in DOMAIN list : Pnls(list)[i] = list[i].pnl /\ Pnls(list)[i] \in Int
  BY <1>1 DEF Pnls, ClosedTrades
<1> QED
  BY <1>1, <1>2, <1>3 DEF Pnls

\* The rows of a report, in which every trade has a key, hold every trade and
\* every pnl once; an empty row holds nothing.
LEMMA BucketsHoldAll ==
  ASSUME NEW list \in Seq(ClosedTrades), NEW keys, IsFiniteSet(keys),
         NEW key, DOMAIN key = DOMAIN list, \A i \in DOMAIN list : key[i] \in keys
  PROVE  LET rows == Buckets(keys, key, list)
         IN /\ DOMAIN rows = keys
            /\ \A k \in keys : /\ rows[k].trades \in Nat /\ rows[k].pnl \in Int
                               /\ rows[k].trades = 0 => rows[k].pnl = 0
                               /\ rows[k].pnl = SumOver(Pnls(list), OfKey(DOMAIN list, key, k))
            /\ \A i \in DOMAIN list : rows[key[i]].trades > 0
            /\ SumOver(CountOf(rows), keys) = Len(list)
            /\ SumOver(PnlOf(rows), keys) = SumOver(Pnls(list), DOMAIN list)
<1> DEFINE rows == Buckets(keys, key, list)
           mine(k) == {i \in DOMAIN list : key[i] = k}
           one == [i \in DOMAIN list |-> 1]
           size == [k \in keys |-> Cardinality(mine(k))]
<1>1. /\ IsFiniteSet(DOMAIN list) /\ Cardinality(DOMAIN list) = Len(list)
      /\ \A i \in DOMAIN list : Pnls(list)[i] \in Int
  BY ListIs
<1>2. \A k : IsFiniteSet(mine(k)) /\ mine(k) \subseteq DOMAIN list
  BY <1>1, FS_Subset
<1>3. \A k \in keys : /\ rows[k].trades = Cardinality(mine(k))
                      /\ rows[k].pnl = Total(Pnls(list), mine(k))
  BY DEF Buckets, RowOf
<1>4. DOMAIN rows = keys
  BY DEF Buckets
<1>5. \A k : Total(Pnls(list), mine(k)) = SumOver(Pnls(list), mine(k))
  BY <1>2, TotalIs
<1> HIDE DEF rows, one
<1>6. ASSUME NEW k \in keys
      PROVE  /\ Cardinality(mine(k)) \in Nat /\ SumOver(Pnls(list), mine(k)) \in Int
             /\ Cardinality(mine(k)) = 0 => SumOver(Pnls(list), mine(k)) = 0
             /\ mine(k) # {} => Cardinality(mine(k)) > 0
             /\ SumOver(one, mine(k)) = Cardinality(mine(k))
  <2> DEFINE m == mine(k)
  <2>1. IsFiniteSet(m) /\ m \subseteq DOMAIN list
    BY <1>2
  <2>2. \A i \in m : one[i] = 1
    BY <2>1 DEF one
  <2>3. \A i \in m : Pnls(list)[i] \in Int
    BY <1>1, <2>1
  <2> HIDE DEF m
  <2>4. Cardinality(m) \in Nat /\ (Cardinality(m) = 0 <=> m = {})
    BY <2>1, FS_CardinalityType, FS_EmptySet
  <2>5. SumOver(Pnls(list), m) \in Int /\ SumOver(Pnls(list), {}) = 0
    BY <2>1, <2>3, SumIsInteger, SumOfNone
  <2>6. SumOver(one, m) = Cardinality(m)
    BY <2>1, <2>2, SumOfOnes
  <2>7. /\ Cardinality(m) \in Nat /\ SumOver(Pnls(list), m) \in Int
        /\ Cardinality(m) = 0 => SumOver(Pnls(list), m) = 0
        /\ m # {} => Cardinality(m) > 0
        /\ SumOver(one, m) = Cardinality(m)
    <3>1. m = {} => SumOver(Pnls(list), m) = 0
      BY <2>5, Zenon
    <3>2. m # {} => Cardinality(m) > 0
      BY <2>4
    <3> QED
      BY <2>4, <2>5, <2>6, <3>1, <3>2
  <2> QED
    BY <2>7 DEF m
<1>7. /\ \A k \in keys : /\ rows[k].trades \in Nat /\ rows[k].pnl \in Int
                         /\ rows[k].trades = 0 => rows[k].pnl = 0
                         /\ rows[k].pnl = SumOver(Pnls(list), mine(k))
                         /\ mine(k) # {} => rows[k].trades > 0
  BY <1>3, <1>5, <1>6
<1>8. \A i \in DOMAIN list : mine(key[i]) # {}
  OBVIOUS
<1>9. SumOver(CountOf(rows), keys) = Len(list)
  <2> DEFINE g == CountOf(rows)
  <2>1. \A k \in keys : g[k] = SumOver(one, OfKey(DOMAIN list, key, k))
    BY <1>3, <1>4, <1>6 DEF OfKey, CountOf
  <2>2. \A i \in DOMAIN list : one[i] = 1 /\ one[i] \in Int
    BY DEF one
  <2> HIDE DEF g, mine
  <2>3. SumOver(g, keys) = SumOver(one, DOMAIN list)
    BY <1>1, <2>1, <2>2, SumByKey
  <2>4. SumOver(one, DOMAIN list) = Cardinality(DOMAIN list)
    BY <1>1, <2>2, SumOfOnes
  <2> QED
    BY <1>1, <2>3, <2>4 DEF g
<1>10. SumOver(PnlOf(rows), keys) = SumOver(Pnls(list), DOMAIN list)
  <2>1. \A k \in keys : PnlOf(rows)[k] = SumOver(Pnls(list), OfKey(DOMAIN list, key, k))
    BY <1>4, <1>7 DEF PnlOf, OfKey
  <2> HIDE DEF mine
  <2> QED
    BY <1>1, <2>1, SumByKey
<1> QED
  <2>1. \A k \in keys : rows[k].pnl = SumOver(Pnls(list), OfKey(DOMAIN list, key, k))
    BY <1>7 DEF OfKey
  <2>2. \A i \in DOMAIN list : rows[key[i]].trades > 0
    BY <1>7, <1>8
  <2> QED
    BY <1>4, <1>7, <1>9, <1>10, <2>1, <2>2 DEF rows

\* The callouts of a calendar bound the mean of its rows from above and below.
LEMMA CalloutsBound ==
  ASSUME NEW keys \in SUBSET Int, IsFiniteSet(keys), NEW rows, DOMAIN rows = keys,
         \A k \in keys : /\ rows[k].trades \in Nat /\ rows[k].pnl \in Int
                         /\ rows[k].trades = 0 => rows[k].pnl = 0,
         NEW k0 \in keys, rows[k0].trades > 0
  PROVE  LET active == Cardinality(Active(rows))
         IN /\ active * rows[BestBucket(rows)].pnl >= SumOver(PnlOf(rows), keys)
            /\ active * rows[WorstBucket(rows)].pnl <= SumOver(PnlOf(rows), keys)
<1> DEFINE A == Active(rows)
           f == PnlOf(rows)
           down == [k \in keys |-> 0 - rows[k].pnl]
<1>1. A \in SUBSET Int /\ A # {} /\ A \subseteq keys /\ IsFiniteSet(A)
  <2>1. A \subseteq keys /\ k0 \in A
    BY DEF Active
  <2> QED
    BY <2>1, FS_Subset
<1>2. \A k \in keys : f[k] = rows[k].pnl /\ f[k] \in Int /\ down[k] = 0 - f[k] /\ down[k] \in Int
  BY DEF PnlOf
<1>3. \A k \in keys \ A : f[k] = 0
  BY <1>2 DEF Active
<1> HIDE DEF f, down
<1>4. SumOver(f, keys) = SumOver(f, A)
  <2>1. \A k \in A : f[k] \in Int /\ f[k] = f[k]
    BY <1>1, <1>2
  <2> HIDE DEF A
  <2> QED
    BY <1>1, <1>3, <2>1, SumExtends
<1>5. PICK b \in A : \A j \in A : f[b] > f[j] \/ (f[b] = f[j] /\ b <= j)
  <2>1. \A k \in A : f[k] \in Int
    BY <1>1, <1>2
  <2> HIDE DEF A
  <2> QED
    BY <1>1, <2>1, FirstOfLargest
<1>6. PICK w \in A : \A j \in A : f[w] < f[j] \/ (f[w] = f[j] /\ w <= j)
  <2>1. \A k \in A : down[k] \in Int
    BY <1>1, <1>2
  <2> HIDE DEF A
  <2>2. PICK w \in A : \A j \in A : down[w] > down[j] \/ (down[w] = down[j] /\ w <= j)
    BY <1>1, <2>1, FirstOfLargest
  <2>3. \A j \in A : f[w] < f[j] \/ (f[w] = f[j] /\ w <= j)
    <3>1. ASSUME NEW j \in A PROVE f[w] < f[j] \/ (f[w] = f[j] /\ w <= j)
      <4>1. PICK a \in Int, c \in Int : a = f[w] /\ c = f[j] /\ down[w] = 0 - a /\ down[j] = 0 - c
        BY <1>1, <1>2
      <4>2. down[w] > down[j] \/ (down[w] = down[j] /\ w <= j)
        BY <2>2
      <4> QED
        BY <4>1, <4>2
    <3> QED
      BY <3>1
  <2> QED
    BY <2>3
<1>7. BestBucket(rows) \in A /\ \A j \in A : f[j] <= rows[BestBucket(rows)].pnl
  <2>1. \E k \in Active(rows) : \A j \in Active(rows) :
          rows[k].pnl > rows[j].pnl \/ (rows[k].pnl = rows[j].pnl /\ k <= j)
    BY <1>1, <1>2, <1>5
  <2>2. BestBucket(rows) \in A /\ \A j \in A :
          \/ rows[BestBucket(rows)].pnl > rows[j].pnl
          \/ rows[BestBucket(rows)].pnl = rows[j].pnl /\ BestBucket(rows) <= j
    BY <2>1 DEF BestBucket
  <2>3. \A j \in A : f[j] = rows[j].pnl /\ rows[j].pnl \in Int
    BY <1>1, <1>2
  <2> HIDE DEF A
  <2> QED
    BY <2>2, <2>3
<1>8. WorstBucket(rows) \in A /\ \A j \in A : rows[WorstBucket(rows)].pnl <= f[j]
  <2>1. \E k \in Active(rows) : \A j \in Active(rows) :
          rows[k].pnl < rows[j].pnl \/ (rows[k].pnl = rows[j].pnl /\ k <= j)
    BY <1>1, <1>2, <1>6
  <2>2. WorstBucket(rows) \in A /\ \A j \in A :
          \/ rows[WorstBucket(rows)].pnl < rows[j].pnl
          \/ rows[WorstBucket(rows)].pnl = rows[j].pnl /\ WorstBucket(rows) <= j
    BY <2>1 DEF WorstBucket
  <2>3. \A j \in A : f[j] = rows[j].pnl /\ rows[j].pnl \in Int
    BY <1>1, <1>2
  <2> HIDE DEF A
  <2> QED
    BY <2>2, <2>3
<1>9. rows[BestBucket(rows)].pnl \in Int /\ rows[WorstBucket(rows)].pnl \in Int
  BY <1>1, <1>7, <1>8
<1>10. \A k \in A : f[k] \in Int
  BY <1>1, <1>2
<1> HIDE DEF A
<1>11. /\ SumOver(f, A) <= Cardinality(A) * rows[BestBucket(rows)].pnl
       /\ Cardinality(A) * rows[WorstBucket(rows)].pnl <= SumOver(f, A)
  BY <1>1, <1>7, <1>8, <1>9, <1>10, SumAtMost
<1>12. SumOver(f, A) \in Int /\ Cardinality(A) \in Nat
  BY <1>1, <1>10, SumIsInteger, FS_CardinalityType
<1>13. PICK c \in Nat, x \in Int, y \in Int :
         c = Cardinality(A) /\ x = rows[BestBucket(rows)].pnl /\ y = rows[WorstBucket(rows)].pnl
  BY <1>9, <1>12
<1>14. c * x \in Int /\ c * y \in Int
  BY <1>13
<1>15. c * x >= SumOver(f, keys) /\ c * y <= SumOver(f, keys)
  BY <1>4, <1>11, <1>12, <1>13, <1>14
<1> QED
  BY <1>13, <1>15 DEF A, f

\* What was realized is the sum of the trades, whichever symbol they are of.
LEMMA RealizedIsSum ==
  ASSUME ReportInv
  PROVE  RealizedTotal = SumOver(Pnls(trades), DOMAIN trades)
<1> DEFINE key == [i \in DOMAIN trades |-> trades[i].symbol]
<1>1. trades \in Seq(ClosedTrades)
  BY DEF ReportInv, ListInv
<1>2. /\ IsFiniteSet(DOMAIN trades) /\ \A i \in DOMAIN trades : Pnls(trades)[i] \in Int
      /\ \A i \in DOMAIN trades : key[i] \in Symbols
  BY <1>1, ListIs DEF ClosedTrades
<1>3. \A s \in Symbols : closed[s] = SumOver(Pnls(trades), OfKey(DOMAIN trades, key, s))
  <2>1. \A s \in Symbols : OfKey(DOMAIN trades, key, s) = TradesOf(s)
    BY DEF OfKey, TradesOf
  <2> QED
    BY <2>1 DEF ReportInv, ListInv
<1> HIDE DEF key
<1>4. SumOver(closed, Symbols) = SumOver(Pnls(trades), DOMAIN trades)
  BY <1>2, <1>3, SymbolAssumption, SumByKey
<1> QED
  BY <1>4, SymbolAssumption, TotalIs DEF RealizedTotal

\* A calendar that gives every trade a key adds up.
LEMMA CalendarAddsUp ==
  ASSUME ReportInv, NEW keys \in SUBSET Int, IsFiniteSet(keys),
         NEW key, DOMAIN key = DOMAIN trades, \A i \in DOMAIN trades : key[i] \in keys
  PROVE  AddsUp(Buckets(keys, key, trades))
<1> DEFINE rows == Buckets(keys, key, trades)
<1>1. trades \in Seq(ClosedTrades)
  BY DEF ReportInv, ListInv
<1>2. /\ DOMAIN rows = keys
      /\ \A k \in keys : /\ rows[k].trades \in Nat /\ rows[k].pnl \in Int
                         /\ rows[k].trades = 0 => rows[k].pnl = 0
      /\ \A i \in DOMAIN trades : rows[key[i]].trades > 0
      /\ SumOver(CountOf(rows), keys) = Len(trades)
      /\ SumOver(PnlOf(rows), keys) = RealizedTotal
  <2>1. /\ SumOver(PnlOf(rows), keys) = SumOver(Pnls(trades), DOMAIN trades)
        /\ DOMAIN rows = keys
        /\ \A k \in keys : /\ rows[k].trades \in Nat /\ rows[k].pnl \in Int
                           /\ rows[k].trades = 0 => rows[k].pnl = 0
        /\ \A i \in DOMAIN trades : rows[key[i]].trades > 0
        /\ SumOver(CountOf(rows), keys) = Len(trades)
    BY <1>1, BucketsHoldAll DEF rows
  <2> HIDE DEF rows
  <2> QED
    BY <2>1, RealizedIsSum, Zenon
<1> HIDE DEF rows
<1>3. Total(CountOf(rows), DOMAIN rows) = Len(trades)
  BY <1>2, TotalIs
<1>4. Total(PnlOf(rows), DOMAIN rows) = RealizedTotal
  BY <1>2, TotalIs
<1>5. ASSUME trades # << >>
      PROVE  /\ Cardinality(Active(rows)) * rows[BestBucket(rows)].pnl >= RealizedTotal
             /\ Cardinality(Active(rows)) * rows[WorstBucket(rows)].pnl <= RealizedTotal
  <2>1. 1 \in DOMAIN trades
    BY <1>1, <1>5
  <2>2. key[1] \in keys /\ rows[key[1]].trades > 0
    BY <1>2, <2>1
  <2>3. /\ Cardinality(Active(rows)) * rows[BestBucket(rows)].pnl >= SumOver(PnlOf(rows), keys)
        /\ Cardinality(Active(rows)) * rows[WorstBucket(rows)].pnl <= SumOver(PnlOf(rows), keys)
    BY <1>2, <2>2, CalloutsBound
  <2> QED
    BY <1>2, <2>3
<1> QED
  BY <1>3, <1>4, <1>5 DEF AddsUp, rows

\* A range of natural numbers is a finite set of integers.
LEMMA SmallRange ==
  ASSUME NEW n \in Nat
  PROVE  0 .. n \in SUBSET Int /\ IsFiniteSet(0 .. n)
<1>1. IsFiniteSet(0 .. n)
  BY FS_Interval
<1>2. \A x \in 0 .. n : x \in Int
  OBVIOUS
<1> QED
  BY <1>1, <1>2

\* Where a closed trade falls in the calendars.
LEMMA CalendarKeys ==
  ASSUME NEW t \in ClosedTrades
  PROVE  /\ t.closedAt # 0 /\ HourOf(t) \in 0 .. 23 /\ WeekdayOf(t) \in 0 .. 6 /\ DayOf(t) \in Int
<1>1. t.closedAt \in Nat /\ t.closedAt # 0
  BY DEF ClosedTrades
<1>2. HourOf(t) \in 0 .. 23 /\ DayOf(t) \in Int
  BY <1>1 DEF HourOf, DayOf
<1>3. WeekdayOf(t) \in 0 .. 6
  <2>1. DayOf(t) + 3 \in Int
    BY <1>2
  <2> QED
    BY <2>1 DEF WeekdayOf
<1> QED
  BY <1>1, <1>2, <1>3

\* Whatever the account has traded, the hours, the weekdays and the days hold
\* every closed trade once and add up to what was realized, the running total
\* ends there, no callout is outdone, and the groups are the account's books.
THEOREM ReportsAreWhole == ReportsSpec => []ReportsAddUp
<1>1. ReportInv => ReportsAddUp
  <2> SUFFICES ASSUME ReportInv PROVE ReportsAddUp
    OBVIOUS
  <2>1. trades \in Seq(ClosedTrades) /\ DOMAIN trades = 1 .. Len(trades) /\ IsFiniteSet(DOMAIN trades)
        /\ \A i \in DOMAIN trades : trades[i] \in ClosedTrades
    BY ListIs DEF ReportInv, ListInv
  <2>2. Timed(trades) = DOMAIN trades
    BY <2>1, CalendarKeys DEF Timed
  <2> DEFINE hours == [i \in Timed(trades) |-> HourOf(trades[i])]
             weekdays == [i \in Timed(trades) |-> WeekdayOf(trades[i])]
             days == [i \in Timed(trades) |-> DayOf(trades[i])]
             symbols == [i \in DOMAIN trades |-> trades[i].symbol]
  <2>3. AddsUp(PnlByHour(trades))
    <3>1. DOMAIN hours = DOMAIN trades /\ \A i \in DOMAIN trades : hours[i] \in 0 .. 23
      BY <2>1, <2>2, CalendarKeys
    <3>2. 0 .. 23 \in SUBSET Int /\ IsFiniteSet(0 .. 23)
      BY SmallRange
    <3> HIDE DEF hours
    <3>3. AddsUp(Buckets(0 .. 23, hours, trades))
      BY <3>1, <3>2, CalendarAddsUp
    <3> QED
      BY <3>3 DEF hours, PnlByHour
  <2>4. AddsUp(PnlByWeekday(trades))
    <3>1. DOMAIN weekdays = DOMAIN trades /\ \A i \in DOMAIN trades : weekdays[i] \in 0 .. 6
      BY <2>1, <2>2, CalendarKeys
    <3>2. 0 .. 6 \in SUBSET Int /\ IsFiniteSet(0 .. 6)
      BY SmallRange
    <3> HIDE DEF weekdays
    <3>3. AddsUp(Buckets(0 .. 6, weekdays, trades))
      BY <3>1, <3>2, CalendarAddsUp
    <3> QED
      BY <3>3 DEF weekdays, PnlByWeekday
  <2>5. /\ DOMAIN days = DOMAIN trades /\ \A i \in DOMAIN trades : days[i] \in Range(days)
        /\ Range(days) \in SUBSET Int /\ IsFiniteSet(Range(days))
        /\ trades # << >> => Range(days) # {}
    <3>1. DOMAIN days = DOMAIN trades /\ \A i \in DOMAIN trades : days[i] \in Int
      BY <2>1, <2>2, CalendarKeys
    <3>2. trades # << >> => DOMAIN trades # {}
      <4>1. trades \in Seq(ClosedTrades)
        BY <2>1
      <4>2. trades # << >> => 1 \in DOMAIN trades
        BY <4>1
      <4> QED
        BY <4>2
    <3> HIDE DEF days
    <3>3. IsFiniteSet({days[i] : i \in DOMAIN trades})
      BY <2>1, ImageIsFinite
    <3>4. Range(days) = {days[i] : i \in DOMAIN trades}
      BY <3>1 DEF Range
    <3> QED
      BY <3>1, <3>2, <3>3, <3>4
  <2>6. AddsUp(PnlByDay(trades)) /\ PnlByDay(trades) = Buckets(Range(days), days, trades)
    <3>1. PnlByDay(trades) = Buckets(Range(days), days, trades)
      BY DEF PnlByDay
    <3> HIDE DEF days
    <3>2. AddsUp(Buckets(Range(days), days, trades))
      BY <2>5, CalendarAddsUp
    <3> QED
      BY <3>1, <3>2
  <2> HIDE DEF days
  <2>7. trades # << >> => Cumulative(PnlByDay(trades))[Max(DOMAIN PnlByDay(trades))] = RealizedTotal
    <3> SUFFICES ASSUME trades # << >>
                 PROVE  Cumulative(PnlByDay(trades))[Max(DOMAIN PnlByDay(trades))] = RealizedTotal
      OBVIOUS
    <3> DEFINE rows == PnlByDay(trades)
               keys == Range(days)
               m == Max(keys)
    <3>1. DOMAIN rows = keys
      BY <2>6 DEF Buckets
    <3>2. m \in keys /\ \A d \in keys : d <= m
      BY <2>5, MaxIsMember
    <3> HIDE DEF m, rows, keys
    <3>3. {d \in keys : d <= m} = keys
      BY <3>2
    <3>4. Cumulative(rows)[m] = Total(PnlOf(rows), keys)
      BY <3>1, <3>2, <3>3 DEF Cumulative
    <3>5. Total(PnlOf(rows), DOMAIN rows) = RealizedTotal
      BY <2>6 DEF AddsUp, rows
    <3>6. Max(DOMAIN rows) = m
      BY <3>1 DEF m
    <3> QED
      BY <3>1, <3>4, <3>5, <3>6 DEF rows
  <2>8. \A s \in Symbols : SumOver(Pnls(trades), OfKey(DOMAIN trades, symbols, s)) = closed[s]
    <3>1. \A s \in Symbols : OfKey(DOMAIN trades, symbols, s) = TradesOf(s)
      BY DEF OfKey, TradesOf
    <3> QED
      BY <3>1 DEF ReportInv, ListInv
  <2>9. /\ DOMAIN symbols = DOMAIN trades /\ \A i \in DOMAIN trades : symbols[i] \in Range(symbols)
        /\ Range(symbols) \subseteq Symbols /\ IsFiniteSet(Range(symbols))
        /\ PnlByGroup(trades) = Buckets(Range(symbols), symbols, trades)
    <3>1. DOMAIN symbols = DOMAIN trades /\ \A i \in DOMAIN trades : symbols[i] \in Symbols
      BY <2>1 DEF ClosedTrades
    <3>2. PnlByGroup(trades) = Buckets(Range(symbols), symbols, trades)
      BY DEF PnlByGroup
    <3> HIDE DEF symbols
    <3>3. Range(symbols) \subseteq Symbols /\ \A i \in DOMAIN trades : symbols[i] \in Range(symbols)
      BY <3>1 DEF Range
    <3> QED
      BY <3>1, <3>2, <3>3, SymbolAssumption, FS_Subset
  <2> HIDE DEF symbols
  <2>10. \A s \in DOMAIN PnlByGroup(trades) : PnlByGroup(trades)[s].pnl = closed[s]
    <3> DEFINE rows == Buckets(Range(symbols), symbols, trades)
    <3>1. /\ DOMAIN rows = Range(symbols)
          /\ \A s \in Range(symbols) : rows[s].pnl = SumOver(Pnls(trades), OfKey(DOMAIN trades, symbols, s))
      BY <2>1, <2>9, BucketsHoldAll
    <3> HIDE DEF rows
    <3>2. \A s \in DOMAIN rows : rows[s].pnl = closed[s]
      BY <2>8, <2>9, <3>1
    <3> QED
      BY <2>9, <3>2 DEF rows
  <2>11. \A s \in Symbols \ DOMAIN PnlByGroup(trades) : closed[s] = 0
    <3> TAKE s \in Symbols \ DOMAIN PnlByGroup(trades)
    <3>1. s \notin Range(symbols)
      BY <2>9 DEF Buckets
    <3>2. OfKey(DOMAIN trades, symbols, s) = {}
      BY <2>9, <3>1 DEF OfKey
    <3> QED
      BY <2>8, <3>2, SumOfNone
  <2> QED
    BY <2>3, <2>4, <2>6, <2>7, <2>10, <2>11 DEF ReportsAddUp
<1> QED
  BY ReportsInvariant, <1>1, PTL

-----------------------------------------------------------------------------
(***************************************************************************)
(* The histograms.                                                         *)
(***************************************************************************)
\* The bin of a value, from the distance to the least one, is the bin whose edges
\* hold it.  The distance y, like the edges, is scaled by the number of bins, and
\* it is at most that of the upper edge of the last bin.
LEMMA BinByDistance ==
  ASSUME NEW y \in Nat, NEW width \in Nat \ {0}, NEW bins \in Nat \ {0}, y <= bins * width,
         NEW b \in 1 .. bins
  PROVE  LET bin == 1 + y \div width
         IN (IF bin < bins THEN bin ELSE bins) = b
              <=> /\ (b - 1) * width <= y
                  /\ y < b * width \/ (b = bins /\ y = b * width)
<1>1. PICK q \in Nat : q = y \div width
  OBVIOUS
<1>2. q * width <= y /\ y < q * width + width
  BY <1>1
<1>3. \A c \in Nat : c < b - 1 => c * width + width <= (b - 1) * width
  <2> TAKE c \in Nat
  <2> HAVE c < b - 1
  <2>1. PICK d \in Nat : b - 1 = c + 1 + d
    <3>1. (b - 1) - (c + 1) \in Nat /\ b - 1 = c + 1 + ((b - 1) - (c + 1))
      OBVIOUS
    <3> QED
      BY <3>1
  <2>2. (b - 1) * width = c * width + width + d * width /\ d * width \in Nat
    BY <2>1
  <2> QED
    BY <2>2
<1>4. \A c \in Nat : b <= c => b * width <= c * width
  <2> TAKE c \in Nat
  <2> HAVE b <= c
  <2>1. PICK d \in Nat : c = b + d
    <3>1. c - b \in Nat /\ c = b + (c - b)
      OBVIOUS
    <3> QED
      BY <3>1
  <2>2. c * width = b * width + d * width /\ d * width \in Nat
    BY <2>1
  <2> QED
    BY <2>2
<1>5. b * width = (b - 1) * width + width /\ (b - 1) * width \in Nat /\ q * width \in Nat
  OBVIOUS
<1>6. q < b - 1 => ~((b - 1) * width <= y)
  BY <1>2, <1>3, <1>5
<1>7. q >= b - 1 => (b - 1) * width <= y
  <2>1. CASE q = b - 1
    BY <1>2, <2>1
  <2>2. CASE q >= b
    BY <1>2, <1>4, <1>5, <2>2
  <2> QED
    BY <2>1, <2>2
<1>8. q >= b => b * width <= y
  BY <1>2, <1>4, <1>5
<1>9. q < b => y < b * width
  <2>1. CASE q = b - 1
    BY <1>2, <1>5, <2>1
  <2>2. CASE q < b - 1
    BY <1>2, <1>3, <1>5, <2>2
  <2> QED
    BY <2>1, <2>2
<1>10. CASE b < bins
  <2>1. (IF 1 + q < bins THEN 1 + q ELSE bins) = b <=> q = b - 1
    BY <1>10
  <2>2. q = b - 1 <=> ((b - 1) * width <= y /\ y < b * width)
    BY <1>5, <1>6, <1>7, <1>8, <1>9
  <2> QED
    BY <1>1, <1>10, <2>1, <2>2
<1>11. CASE b = bins
  <2>1. (IF 1 + q < bins THEN 1 + q ELSE bins) = b <=> q >= b - 1
    BY <1>11
  <2>2. q >= b - 1 <=> (b - 1) * width <= y
    BY <1>6, <1>7
  <2>3. y < b * width \/ y = b * width
    BY <1>5, <1>11
  <2> QED
    BY <1>1, <1>11, <2>1, <2>2, <2>3
<1> QED
  BY <1>10, <1>11

\* A histogram of integers counts in each bin what its edges hold.
LEMMA HistogramIsExact ==
  ASSUME NEW values, IsFiniteSet(DOMAIN values), DOMAIN values # {},
         \A i \in DOMAIN values : values[i] \in Int,
         NEW bins \in Nat \ {0}, NEW b \in 1 .. bins, NEW i \in DOMAIN values
  PROVE  LET row == Histogram(values, bins)[b]
         IN Bin(values[i], values, bins) = b
              <=> /\ row.from <= bins * values[i]
                  /\ bins * values[i] < row.to \/ (b = bins /\ bins * values[i] = row.to)
<1> DEFINE V == Range(values)
<1>1. V \in SUBSET Int /\ V # {} /\ IsFiniteSet(V) /\ \A j \in DOMAIN values : values[j] \in V
  <2>1. V = {values[j] : j \in DOMAIN values}
    BY DEF Range
  <2>2. IsFiniteSet({values[j] : j \in DOMAIN values})
    BY ImageIsFinite
  <2> HIDE DEF V
  <2> QED
    BY <2>1, <2>2
<1>2. /\ Min(V) \in V /\ Max(V) \in V /\ \A v \in V : Min(V) <= v /\ v <= Max(V)
  BY <1>1, MinIsLeast, MaxIsMember
<1>3. PICK lo \in Int, hi \in Int, v \in Int :
        lo = Min(V) /\ hi = Max(V) /\ v = values[i] /\ lo <= v /\ v <= hi
  BY <1>1, <1>2
<1>4. PICK w \in Nat \ {0} : w = ScaledWidth(values, bins) /\ w = IF hi - lo = 0 THEN bins ELSE hi - lo
  <2>1. (IF hi - lo = 0 THEN bins ELSE hi - lo) \in Nat \ {0}
    BY <1>3
  <2>2. ScaledWidth(values, bins) = IF hi - lo = 0 THEN bins ELSE hi - lo
    BY <1>3 DEF ScaledWidth
  <2> QED
    BY <2>1, <2>2
<1>5. PICK y \in Nat : y = (v - lo) * bins /\ y <= bins * w
  <2>1. v - lo \in Nat
    BY <1>3
  <2>2. (v - lo) * bins \in Nat
    BY <2>1
  <2>3. (v - lo) * bins <= bins * w
    <3>1. CASE hi - lo = 0
      <4>1. v - lo = 0
        BY <1>3, <3>1
      <4> QED
        BY <4>1
    <3>2. CASE hi - lo # 0
      <4>1. PICK d \in Nat, e \in Nat : d = v - lo /\ w = d + e
        <5>1. v - lo \in Nat /\ w - (v - lo) \in Nat /\ w = (v - lo) + (w - (v - lo))
          BY <1>3, <1>4, <3>2
        <5> QED
          BY <5>1
      <4>2. bins * w = d * bins + e * bins /\ e * bins \in Nat
        BY <4>1
      <4> QED
        BY <4>1, <4>2
    <3> QED
      BY <3>1, <3>2
  <2> QED
    BY <2>2, <2>3
<1>6. Bin(values[i], values, bins) = IF 1 + y \div w < bins THEN 1 + y \div w ELSE bins
  BY <1>3, <1>4, <1>5 DEF Bin
<1>7. /\ Histogram(values, bins)[b].from = bins * lo + (b - 1) * w
      /\ Histogram(values, bins)[b].to = bins * lo + b * w
  BY <1>3, <1>4 DEF Histogram
<1>8. bins * v = bins * lo + y
  BY <1>5
<1>9. bins * lo \in Int /\ (b - 1) * w \in Int /\ b * w \in Int
  OBVIOUS
<1>10. (IF 1 + y \div w < bins THEN 1 + y \div w ELSE bins) = b
         <=> /\ (b - 1) * w <= y
             /\ y < b * w \/ (b = bins /\ y = b * w)
  BY <1>4, <1>5, BinByDistance
<1> HIDE DEF V
<1>11. PICK base \in Int, left \in Int, right \in Int :
         base = bins * lo /\ left = (b - 1) * w /\ right = b * w
  BY <1>9
<1>12. /\ (b - 1) * w <= y <=> base + left <= base + y
       /\ y < b * w <=> base + y < base + right
       /\ y = b * w <=> base + y = base + right
  BY <1>11
<1> QED
  BY <1>3, <1>6, <1>7, <1>8, <1>10, <1>11, <1>12

\* Whatever was traded and whatever number of bins is asked for, each bin of a
\* histogram counts exactly the values between its edges.
THEOREM HistogramsAreExact == ReportsSpec => []HistogramCountsEachTrade
<1>1. ReportInv => HistogramCountsEachTrade
  <2> SUFFICES ASSUME ReportInv, NEW metric \in {"trade_pnl", "hold_time"}, NEW bins \in Bins
               PROVE  CountsWithinEdges(metric, bins)
    BY DEF HistogramCountsEachTrade
  <2> DEFINE values == Values(metric)
             rows == Histogram(values, bins)
             inside(v, b) == /\ rows[b].from <= bins * v
                             /\ bins * v < rows[b].to \/ (b = bins /\ bins * v = rows[b].to)
  <2>1. /\ trades \in Seq(ClosedTrades) /\ IsFiniteSet(DOMAIN trades) /\ bins \in Nat \ {0}
        /\ DOMAIN Pnls(trades) = DOMAIN trades
        /\ \A i \in DOMAIN trades : trades[i] \in ClosedTrades /\ Pnls(trades)[i] \in Int
    BY ListIs, ReportsAssumption DEF ReportInv, ListInv
  <2>2. IsFiniteSet(DOMAIN values) /\ \A i \in DOMAIN values : values[i] \in Int
    <3>1. CASE metric = "hold_time"
      <4>1. values = HoldTimes(trades)
        BY <3>1 DEF Values
      <4>2. /\ DOMAIN HoldTimes(trades) \subseteq DOMAIN trades
            /\ \A i \in DOMAIN HoldTimes(trades) : HoldTimes(trades)[i] \in Int
        BY <2>1 DEF HoldTimes, Timed, ClosedTrades
      <4> HIDE DEF values
      <4> QED
        BY <2>1, <4>1, <4>2, FS_Subset
    <3>2. CASE metric # "hold_time"
      <4>1. values = Pnls(trades)
        BY <3>2 DEF Values
      <4> HIDE DEF values
      <4> QED
        <5>1. IsFiniteSet(DOMAIN Pnls(trades))
          BY <2>1
        <5>2. \A i \in DOMAIN Pnls(trades) : Pnls(trades)[i] \in Int
          BY <2>1
        <5> QED
          BY <4>1, <5>1, <5>2
    <3> QED
      BY <3>1, <3>2
  <2>3. Distribution(metric, bins) = rows
    BY DEF Distribution
  <2> HIDE DEF values
  <2>4. ASSUME DOMAIN values # {}, NEW b \in 1 .. bins
        PROVE  rows[b].count = Cardinality({i \in DOMAIN values : inside(values[i], b)})
    <3>1. rows[b].count = Cardinality({i \in DOMAIN values : Bin(values[i], values, bins) = b})
      BY <2>4 DEF Histogram
    <3>2. \A i \in DOMAIN values : Bin(values[i], values, bins) = b <=> inside(values[i], b)
      BY <2>1, <2>2, <2>4, HistogramIsExact
    <3> HIDE DEF rows, inside
    <3>3. {i \in DOMAIN values : Bin(values[i], values, bins) = b}
            = {i \in DOMAIN values : inside(values[i], b)}
      BY <3>2
    <3> QED
      BY <3>1, <3>3
  <2> QED
    BY <2>3, <2>4, Zenon DEF CountsWithinEdges, values
<1> QED
  BY ReportsInvariant, <1>1, PTL

-----------------------------------------------------------------------------
(***************************************************************************)
(* The readiness for real money.                                           *)
(***************************************************************************)
\* An account without a position holds its starting balance and its trades.
LEMMA FlatAccountHolds ==
  ASSUME ReportInv, BalanceIsBookedPnl, \A s \in Symbols : ~IsOpen(positions[s])
  PROVE  /\ Pnls(trades) \in Seq(Int)
         /\ balance = StartingBalance + SumOver(Pnls(trades), DOMAIN Pnls(trades))
<1>1. /\ trades \in Seq(ClosedTrades) /\ DOMAIN trades = 1 .. Len(trades) /\ Len(trades) \in Nat
      /\ DOMAIN Pnls(trades) = DOMAIN trades
      /\ \A i \in DOMAIN trades : Pnls(trades)[i] \in Int
  BY ListIs DEF ReportInv, ListInv
<1>2. Pnls(trades) \in Seq(Int)
  BY <1>1 DEF Pnls
<1>3. \A s \in Symbols : BookedBySymbol[s] = closed[s]
  <2>1. AccountTypeOK /\ Booked(Flat) = 0
    BY DEF ReportInv, AccountInv, Booked, Flat
  <2>2. \A s \in Symbols : positions[s] = Flat /\ closed[s] \in Int
    BY <2>1 DEF AccountTypeOK
  <2> QED
    BY <2>1, <2>2 DEF BookedBySymbol, BookedPnl
<1>4. SumOver(BookedBySymbol, Symbols) = SumOver(closed, Symbols)
  <2>1. \A f, e : (\A s \in Symbols : f[s] = e[s]) => SumOver(f, Symbols) = SumOver(e, Symbols)
    BY SymbolAssumption, SumCongruence
  <2> QED
    BY <1>3, <2>1
<1>5. SumOver(closed, Symbols) = SumOver(Pnls(trades), DOMAIN Pnls(trades))
  BY <1>1, RealizedIsSum, SymbolAssumption, TotalIs DEF RealizedTotal
<1> QED
  BY <1>2, <1>4, <1>5, BalanceAsSum

\* Ten checks are ten.
TenChecks == {"profitable", "enough", "plenty", "calm", "factor", "strongFactor", "winRate",
              "slippage", "backtest", "walkForward"}
LEMMA TenChecksAreTen == IsFiniteSet(TenChecks) /\ Cardinality(TenChecks) = 10
<1> DEFINE a == {"profitable"}
           b == a \cup {"enough"}
           c == b \cup {"plenty"}
           d == c \cup {"calm"}
           e == d \cup {"factor"}
           f == e \cup {"strongFactor"}
           g == f \cup {"winRate"}
           h == g \cup {"slippage"}
           i == h \cup {"backtest"}
           j == i \cup {"walkForward"}
<1>1. IsFiniteSet(a) /\ Cardinality(a) = 1
  BY FS_Singleton
<1>2. IsFiniteSet(b) /\ Cardinality(b) = 2
  BY <1>1, FS_AddElement
<1>3. IsFiniteSet(c) /\ Cardinality(c) = 3
  BY <1>2, FS_AddElement
<1>4. IsFiniteSet(d) /\ Cardinality(d) = 4
  BY <1>3, FS_AddElement
<1>5. IsFiniteSet(e) /\ Cardinality(e) = 5
  BY <1>4, FS_AddElement
<1>6. IsFiniteSet(f) /\ Cardinality(f) = 6
  BY <1>5, FS_AddElement
<1>7. IsFiniteSet(g) /\ Cardinality(g) = 7
  BY <1>6, FS_AddElement
<1>8. IsFiniteSet(h) /\ Cardinality(h) = 8
  BY <1>7, FS_AddElement
<1>9. IsFiniteSet(i) /\ Cardinality(i) = 9
  BY <1>8, FS_AddElement
<1>10. IsFiniteSet(j) /\ Cardinality(j) = 10
  BY <1>9, FS_AddElement
<1>11. TenChecks = j
  BY DEF TenChecks
<1> QED
  BY <1>10, <1>11

\* A full score is the same as no check having failed.
LEMMA FullScore ==
  ASSUME NEW checks, DOMAIN checks = TenChecks, \A c \in TenChecks : checks[c] \in BOOLEAN
  PROVE  Score(checks) = 100 <=> \A c \in TenChecks : checks[c] = TRUE
<1> DEFINE passed == {c \in TenChecks : checks[c]}
<1>1. /\ passed \subseteq TenChecks /\ IsFiniteSet(passed) /\ Cardinality(passed) \in Nat
      /\ Cardinality(passed) = 10 <=> passed = TenChecks
  <2>1. passed \subseteq TenChecks
    OBVIOUS
  <2> HIDE DEF passed
  <2>2. IsFiniteSet(passed) /\ Cardinality(passed) <= Cardinality(TenChecks)
        /\ (Cardinality(passed) = Cardinality(TenChecks) => passed = TenChecks)
    BY <2>1, TenChecksAreTen, FS_Subset
  <2>3. Cardinality(passed) \in Nat
    BY <2>2, FS_CardinalityType
  <2> QED
    BY <2>1, <2>2, <2>3, TenChecksAreTen
<1>2. Score(checks) = 10 * Cardinality(passed)
  BY DEF Score
<1>3. passed = TenChecks <=> \A c \in TenChecks : checks[c] = TRUE
  OBVIOUS
<1> HIDE DEF passed
<1> QED
  BY <1>1, <1>2, <1>3

\* The checks are ten facts, and a record that passes them all is not unready.
LEMMA ChecksAre ==
  ASSUME NEW starting \in Int, NEW list \in Seq(Int),
         NEW backtest \in BOOLEAN, NEW slippage \in BOOLEAN, NEW walkForward \in BOOLEAN
  PROVE  LET report == Performance(starting, list)
             checks == Checks(report, backtest, slippage, walkForward)
         IN /\ DOMAIN checks = TenChecks /\ \A c \in TenChecks : checks[c] \in BOOLEAN
            /\ (\A c \in TenChecks : checks[c] = TRUE) => ~NotReady(report)
            /\ NotReady(report) \in BOOLEAN
            /\ ~NotReady(report) => report.totalPnl > 0
<1> DEFINE report == Performance(starting, list)
           checks == Checks(report, backtest, slippage, walkForward)
<1>1. /\ report.totalPnl \in Int /\ report.trades \in Nat
      /\ report.maxDrawdown = MaxDrawdown(EquityCurve(starting, list))
  BY ReportIs
<1>2. report.maxDrawdown.worst \in Int /\ report.maxDrawdown.base \in Int
  <2> DEFINE curve == EquityCurve(starting, list)
  <2>1. curve \in Seq(Int) /\ Len(curve) = Len(list) + 1 /\ Len(list) \in Nat
    BY CurveIs
  <2> HIDE DEF curve
  <2>2. curve # << >>
    BY <2>1
  <2>3. MaxDrawdown(curve) \in Drawdowns
    BY <2>1, <2>2, DrawdownIs
  <2> HIDE DEF report
  <2> QED
    BY <1>1, <2>3 DEF Drawdowns, curve
<1> HIDE DEF report
<1>3. /\ DOMAIN checks = TenChecks
      /\ checks["profitable"] = (report.totalPnl > 0)
      /\ checks["plenty"] = (report.trades >= PlentyTrades)
      /\ checks["calm"] = ~FallExceeds(report.maxDrawdown, 15)
  BY DEF Checks, TenChecks
<1>4. \A c \in TenChecks : checks[c] \in BOOLEAN
  <2>1. /\ checks["profitable"] \in BOOLEAN /\ checks["enough"] \in BOOLEAN
        /\ checks["plenty"] \in BOOLEAN /\ checks["calm"] \in BOOLEAN
    BY DEF Checks, FallExceeds
  <2>2. checks["factor"] \in BOOLEAN /\ checks["strongFactor"] \in BOOLEAN
    BY DEF Checks, FactorReaches
  <2>3. /\ checks["winRate"] \in BOOLEAN /\ checks["slippage"] \in BOOLEAN
        /\ checks["backtest"] \in BOOLEAN /\ checks["walkForward"] \in BOOLEAN
    BY DEF Checks
  <2> HIDE DEF checks
  <2> QED
    BY <2>1, <2>2, <2>3 DEF TenChecks
<1>5. FallExceeds(report.maxDrawdown, 25) => FallExceeds(report.maxDrawdown, 15)
  BY <1>2 DEF FallExceeds
<1> HIDE DEF checks
<1>6. ASSUME \A c \in TenChecks : checks[c] = TRUE PROVE ~NotReady(report)
  <2>1. checks["profitable"] = TRUE /\ checks["plenty"] = TRUE /\ checks["calm"] = TRUE
    BY <1>6 DEF TenChecks
  <2>2. report.totalPnl > 0 /\ report.trades >= PlentyTrades /\ ~FallExceeds(report.maxDrawdown, 15)
    BY <1>3, <2>1
  <2>3. ~(report.trades < FewTrades)
    BY <1>1, <2>2, ReadinessAssumption
  <2> QED
    BY <1>5, <2>2, <2>3 DEF NotReady
<1>7. NotReady(report) \in BOOLEAN /\ (~NotReady(report) => report.totalPnl > 0)
  BY DEF NotReady
<1> QED
  BY <1>3, <1>4, <1>6, <1>7 DEF report, checks

\* Every check has an outcome; every one has passed.
Decides(checks) == \A c \in DOMAIN checks : checks[c] \in BOOLEAN
AllPass(checks) == \A c \in DOMAIN checks : checks[c] = TRUE

\* The highest status is that of a record which passes every check, and each
\* status but the lowest is that of a record which is not unready.
LEMMA StatusIs ==
  ASSUME NEW report, NEW checks, NotReady(report) \in BOOLEAN, Decides(checks)
  PROVE  /\ Readiness(report, checks) # "not_ready" => ~NotReady(report)
         /\ Readiness(report, checks) = "strong_candidate" <=> ~NotReady(report) /\ AllPass(checks)
<1> DEFINE all == \A c \in DOMAIN checks : checks[c]
           some == \A c \in {"profitable", "enough", "calm", "factor", "backtest"} : checks[c]
<1>1. all <=> AllPass(checks)
  BY DEF Decides, AllPass
<1>2. (\E c \in DOMAIN checks : ~checks[c]) <=> ~all
  OBVIOUS
<1>3. Readiness(report, checks)
        = CASE NotReady(report) -> "not_ready"
            [] ~NotReady(report) /\ all -> "strong_candidate"
            [] ~NotReady(report) /\ ~all /\ some -> "promising"
            [] OTHER -> "watchlist"
  BY <1>2 DEF Readiness
<1> HIDE DEF all, some
<1> QED
  BY <1>1, <1>3

\* Whatever was traded and whatever is confirmed, an account that is flat and is
\* called anything but "not ready" holds more than it started with, and the
\* highest status and a full score are the same thing.
THEOREM ReadyMeansProfit == ReportsSpec => []ReadyOnlyWithProfit
<1>1. ReportInv /\ BalanceIsBookedPnl => ReadyOnlyWithProfit
  <2> SUFFICES ASSUME ReportInv, BalanceIsBookedPnl,
                      NEW backtest \in BOOLEAN, NEW slippage \in BOOLEAN, NEW walkForward \in BOOLEAN
               PROVE  LET checks == Checks(Report, backtest, slippage, walkForward)
                          status == Readiness(Report, checks)
                      IN /\ (\A s \in Symbols : ~IsOpen(positions[s])) /\ status # "not_ready" =>
                              balance > StartingBalance
                         /\ (status = "strong_candidate") = (Score(checks) = 100)
    BY DEF ReadyOnlyWithProfit
  <2> DEFINE checks == Checks(Report, backtest, slippage, walkForward)
             status == Readiness(Report, checks)
  <2>1. Pnls(trades) \in Seq(Int) /\ StartingBalance \in Int
    <3>1. /\ trades \in Seq(ClosedTrades) /\ DOMAIN trades = 1 .. Len(trades) /\ Len(trades) \in Nat
          /\ DOMAIN Pnls(trades) = DOMAIN trades
          /\ \A i \in DOMAIN trades : Pnls(trades)[i] \in Int
      BY ListIs DEF ReportInv, ListInv
    <3> QED
      BY <3>1, StartingBalanceAssumption DEF Pnls
  <2>2. /\ DOMAIN checks = TenChecks /\ \A c \in TenChecks : checks[c] \in BOOLEAN
        /\ (\A c \in TenChecks : checks[c] = TRUE) => ~NotReady(Report)
        /\ NotReady(Report) \in BOOLEAN
        /\ ~NotReady(Report) => Report.totalPnl > 0
    BY <2>1, ChecksAre DEF Report
  <2> HIDE DEF checks
  <2>3. /\ status # "not_ready" => ~NotReady(Report)
        /\ status = "strong_candidate" <=> ~NotReady(Report) /\ \A c \in DOMAIN checks : checks[c] = TRUE
    <3>1. \A c \in DOMAIN checks : checks[c] \in BOOLEAN
      BY <2>2
    <3>2. /\ Readiness(Report, checks) # "not_ready" => ~NotReady(Report)
          /\ Readiness(Report, checks) = "strong_candidate"
               <=> ~NotReady(Report) /\ \A c \in DOMAIN checks : checks[c] = TRUE
      <4>1. NotReady(Report) \in BOOLEAN /\ Decides(checks)
        BY <2>2, <3>1 DEF Decides
      <4>2. /\ Readiness(Report, checks) # "not_ready" => ~NotReady(Report)
            /\ Readiness(Report, checks) = "strong_candidate" <=> ~NotReady(Report) /\ AllPass(checks)
        BY <4>1, StatusIs
      <4> QED
        BY <4>2 DEF AllPass
    <3> QED
      BY <3>2
  <2>4. Score(checks) = 100 <=> \A c \in TenChecks : checks[c] = TRUE
    BY <2>2, FullScore
  <2> HIDE DEF status
  <2>5. (status = "strong_candidate") = (Score(checks) = 100)
    BY <2>2, <2>3, <2>4
  <2>6. ASSUME \A s \in Symbols : ~IsOpen(positions[s]), status # "not_ready"
        PROVE  balance > StartingBalance
    <3>1. balance = StartingBalance + SumOver(Pnls(trades), DOMAIN Pnls(trades))
      BY <2>6, FlatAccountHolds
    <3>2. Report.totalPnl = SumOver(Pnls(trades), DOMAIN Pnls(trades)) /\ Report.totalPnl \in Int
      BY <2>1, ReportIs DEF Report
    <3>3. Report.totalPnl > 0
      BY <2>2, <2>3, <2>6
    <3> QED
      BY <2>1, <3>1, <3>2, <3>3
  <2> QED
    BY <2>5, <2>6 DEF checks, status
<1> QED
  BY ReportsInvariant, <1>1, PTL

-----------------------------------------------------------------------------
(***************************************************************************)
(* The account keeps its own promises beside the reports.                  *)
(***************************************************************************)
\* The balance that the reports are compared with is what the account has booked.
THEOREM ReportedBalanceIsBooked == ReportsSpec => []BalanceIsBookedPnl
<1> QED
  BY ReportsInvariant, PTL
=============================================================================
