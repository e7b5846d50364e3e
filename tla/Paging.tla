------------------------------- MODULE Paging -------------------------------
(***************************************************************************)
(* How the two exchanges' candles are fetched in pages: Bybit answers with *)
(* the newest bars of a range and is paged backwards, Binance with the     *)
(* oldest and is paged forwards.                                           *)
(* Source: backend/app/services/market_data/bybit.py and binance.py.       *)
(*                                                                         *)
(* Bar b opens at time BarTicks * b.  The cursors of the code move by a    *)
(* millisecond, which is a tick: less than a bar.                          *)
(***************************************************************************)
EXTENDS Integers, SequencesExt, Lists
CONSTANTS PageSize,  \* the limit of a request
          MaxBar     \* bound: bars of one behaviour

\* The limits of the code are 1000 and 1500.
ASSUME PagingAssumption == PageSize \in Nat \ {0, 1} /\ MaxBar \in Nat \ {0}

BarTicks == 2
OpenTime(bar) == BarTicks * bar

\* The exchange's answer: of the bars that open in a range, the newest or the
\* oldest page.
BarsIn(start, end) ==
  LET first == Max({1, (start + BarTicks - 1) \div BarTicks})
      last == Min({MaxBar, end \div BarTicks})
  IN [k \in 1 .. last - first + 1 |-> first + k - 1]
NewestPage(bars) == SubSeq(bars, Max({1, Len(bars) - PageSize + 1}), Len(bars))
OldestPage(bars) == SubSeq(bars, 1, Min({PageSize, Len(bars)}))

\* Where the next page ends.
\* Bug: on the bar that the last page ended with.
EndOnOldest(oldest) == OpenTime(oldest)
EndBefore(oldest) == OpenTime(oldest) - 1

\* Pages from the newest to the oldest; the rows are sorted in the end.
BackwardRows(start, end) ==
  LET rows[cursor \in 0..end] ==
        LET batch == NewestPage(BarsIn(start, cursor))
        IN IF cursor <= start \/ batch = <<>> THEN <<>>
           ELSE IF OpenTime(batch[1]) <= start \/ Len(batch) < PageSize THEN batch
           ELSE rows[EndBefore(batch[1])] \o batch
  IN Sorted[rows[end]]

\* Where the next page starts.
StartAfter(newest) == OpenTime(newest) + 1

\* Pages from the oldest to the newest.
ForwardRows(start, end) ==
  LET rows[cursor \in 0..end + 1] ==
        LET batch == OldestPage(BarsIn(cursor, end))
        IN IF cursor >= end \/ batch = <<>> THEN <<>>
           ELSE IF Len(batch) < PageSize \/ OpenTime(Last(batch)) <= cursor THEN batch
           ELSE batch \o rows[StartAfter(Last(batch))]
  IN rows[start]
=============================================================================
