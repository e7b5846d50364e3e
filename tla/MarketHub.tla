----------------------------- MODULE MarketHub ------------------------------
(***************************************************************************)
(* The candle series of one symbol in the market-data hub: the exchange's  *)
(* stream, the REST polling that replaces it when it is silent, and the    *)
(* reconciler that backfills the gaps.                                     *)
(* Source: backend/app/services/market_data/hub.py and reconciler.py, and  *)
(* the two loops of runtime.py that use them.  How a backfill is answered  *)
(* in pages is Paging.                                                     *)
(*                                                                         *)
(* Bars are numbered by their open time, and a candle stands for its bar:  *)
(* its prices are left out.  The poll and the reconciler await the         *)
(* exchange between asking and storing: each is an action that asks and    *)
(* one that stores, and the stream may act in between.                     *)
(***************************************************************************)
EXTENDS Integers, SequencesExt, Paging

CONSTANTS Feeds,               \* the channels that may work: see feed
          History,             \* candle_history
          PolledBars,          \* limit of latest_klines
          MaxWire              \* bound: messages on their way

ASSUME HubAssumption == /\ Feeds \subseteq {"stream", "poll", "both"}
                        /\ History \in Nat \ {0} /\ PolledBars \in Nat \ {0}
                        /\ MaxWire \in Nat

VARIABLES feed,      \* what reaches this host: the stream, the polls, or both
          now,       \* the exchange: the bar that is forming
          up, wire,  \* the stream: connected, and its messages on their way
          silent,    \* the stream has been silent for poll_after_s
          series,    \* MarketHub.candles of the symbol
          lastFinal, \* _final_kline_ts, 0 for None
          poll,      \* the klines a poll has been answered, not yet stored
          backfill,  \* the candles the reconciler has been sent, not yet merged
          closes     \* ghost: the bars given to on_candle_closed, in order

hubVars == <<feed, now, up, wire, silent, series, lastFinal, poll, backfill, closes>>

Bars == 1 .. MaxBar
Kline(bar, confirm) == [bar |-> bar, confirm |-> confirm]

\* A deque with maxlen drops from its left.
Newest[candles \in Seq(Int)] ==
  SubSeq(candles, Max({1, Len(candles) - History + 1}), Len(candles))

-----------------------------------------------------------------------------
\* The hub

\* _klines: a kline of the last bar replaces its candle, any other is appended.
Stored[candles \in Seq(Int)] ==
  [bar \in Int |-> IF Last(candles) = bar THEN candles ELSE Newest[Append(candles, bar)]]

Closing(klines) ==
  LET confirmed == {i \in DOMAIN klines : klines[i].confirm}
  IN [k \in 1 .. Cardinality(confirmed) |-> klines[InOrder(confirmed)[k]].bar]

Handle(klines) ==
  /\ series' = Looped(Stored, series, [i \in DOMAIN klines |-> klines[i].bar])
  /\ closes' = closes \o Closing(klines)

\* ingest_polled_klines: every polled bar but the newest is final, and counts as
\* closed when it is beyond the last one that a poll has closed.
\* Bug: the last bar a poll has closed is closed again.
FromLastFinal(k, klines) == k.bar < Last(klines).bar /\ k.bar >= lastFinal
Confirms(k, klines) == k.bar < Last(klines).bar /\ k.bar > lastFinal
Ingested(klines) ==
  [i \in DOMAIN klines |-> [klines[i] EXCEPT !.confirm = Confirms(klines[i], klines)]]

\* merge_candle, for each row the reconciler was sent: a bar that the series
\* already has is skipped; otherwise the series is sorted and cut.
\* Bug: the row goes to the end of the series.
RowAtTheEnd(candles, bar) == Newest[Append(candles, bar)]
RowInPlace(candles, bar) == Newest[Sorted[Append(candles, bar)]]
Merged[candles \in Seq(Int)] ==
  [bar \in Int |-> IF bar \in ToSet(candles) THEN candles ELSE RowInPlace(candles, bar)]

-----------------------------------------------------------------------------
\* The exchange and the stream

\* The forming bar changes; the stream says so.
Update ==
  /\ up /\ Len(wire) < MaxWire
  /\ wire' = Append(wire, Kline(now, FALSE))
  /\ UNCHANGED <<feed, now, up, silent, series, lastFinal, poll, backfill, closes>>

\* The forming bar closes and the next one begins.
Close ==
  /\ now < MaxBar
  /\ up => Len(wire) < MaxWire
  /\ now' = now + 1
  /\ wire' = IF up THEN Append(wire, Kline(now, TRUE)) ELSE wire
  /\ UNCHANGED <<feed, up, silent, series, lastFinal, poll, backfill, closes>>

\* The connection drops with all that is on its way, or is made again.
Disconnect ==
  /\ up
  /\ up' = FALSE /\ wire' = << >>
  /\ UNCHANGED <<feed, now, silent, series, lastFinal, poll, backfill, closes>>
Reconnect ==
  /\ feed # "poll" /\ ~up
  /\ up' = TRUE
  /\ UNCHANGED <<feed, now, wire, silent, series, lastFinal, poll, backfill, closes>>

StreamDelivers ==
  /\ wire # << >>
  /\ Handle(<<Head(wire)>>)
  /\ wire' = Tail(wire)
  /\ silent' = FALSE
  /\ UNCHANGED <<feed, now, up, lastFinal, poll, backfill>>

\* poll_after_s pass without an event of the stream.
FallSilent ==
  /\ ~silent
  /\ silent' = TRUE
  /\ UNCHANGED <<feed, now, up, wire, series, lastFinal, poll, backfill, closes>>

-----------------------------------------------------------------------------
\* _poll_symbol with its klines: asked only when the stream is silent, stored
\* when the answer comes.

Polled ==
  LET n == Min({now, PolledBars})
  IN [i \in 1 .. n |-> Kline(now - n + i, FALSE)]

PollAsks ==
  /\ feed # "stream" /\ silent /\ poll = << >>
  /\ poll' = Polled
  /\ UNCHANGED <<feed, now, up, wire, silent, series, lastFinal, backfill, closes>>

PollStores ==
  LET klines == Ingested(poll)
      final == Closing(klines)
  IN /\ poll # << >>
     /\ Handle(klines)
     /\ lastFinal' = IF final = << >> THEN lastFinal ELSE Last(final)
     /\ poll' = << >>
     /\ UNCHANGED <<feed, now, up, wire, silent, backfill>>

\* find_gaps: the bars that a gap follows, and where the gap ends.
Gaps(bars) == {low \in bars : low + 1 \notin bars /\ \E high \in bars : low < high}
GapEnd(bars, low) == Min({high \in bars : high > low}) - 1

\* The end of a request is the bar after the gap: both providers take a range
\* that begins where it ends for an empty one.
\* Bug: it is the last bar of the gap.
ToLastMissing(last) == OpenTime(last)
RequestEnd(last) == OpenTime(last + 1)

\* backfill_candles of the provider.  Only Bybit is polled when its stream is
\* silent: the stream-only feed is Binance.
Answer[start \in Nat] ==
  [end \in Nat |-> IF feed = "stream" THEN ForwardRows(start, end) ELSE BackwardRows(start, end)]

\* CandleReconciler.reconcile: the rows of one gap after the other.  All bars
\* of a request exist, as the bar after a gap is stored.
Reconciled[bars \in SUBSET Bars] ==
  LET from[bar \in 1..MaxBar + 1] ==
        IF bar > MaxBar THEN << >>
        ELSE IF bar \in Gaps(bars)
             THEN Answer[OpenTime(bar + 1)][RequestEnd(GapEnd(bars, bar))] \o from[bar + 1]
             ELSE from[bar + 1]
  IN from[1]

\* _reconcile_loop: the exchange is asked for the gaps of the series, and the
\* rows are merged when all the answers are there.
ReconcilerAsks ==
  LET bars == ToSet(series)
  IN /\ backfill = << >> /\ Gaps(bars) # {}
     /\ backfill' = Reconciled[bars]
     /\ UNCHANGED <<feed, now, up, wire, silent, series, lastFinal, poll, closes>>

ReconcilerMerges ==
  /\ backfill # << >>
  /\ series' = Looped(Merged, series, backfill)
  /\ backfill' = << >>
  /\ UNCHANGED <<feed, now, up, wire, silent, lastFinal, poll, closes>>

-----------------------------------------------------------------------------
\* _seed_candle_history has loaded the first bar, which is still forming.
HubInit ==
  /\ feed \in Feeds
  /\ now = 1
  /\ up = FALSE /\ wire = << >> /\ silent = TRUE
  /\ series = <<1>>
  /\ lastFinal = 0
  /\ poll = << >> /\ backfill = << >>
  /\ closes = << >>

Reconcile == ReconcilerAsks \/ ReconcilerMerges

HubNext ==
  \/ Update \/ Close \/ Disconnect \/ Reconnect \/ StreamDelivers \/ FallSilent
  \/ PollAsks \/ PollStores
  \/ Reconcile

HubSpec == HubInit /\ [][HubNext]_hubVars

\* The reconciler keeps running.
HubLiveSpec == HubSpec /\ WF_hubVars(Reconcile)

-----------------------------------------------------------------------------
\* "fire confirm exactly once per bar" (hub.py): while one channel works, no
\* bar is given to the strategies twice.  With both it is: the poll does not
\* know what the stream has closed.
CloseFiresOnce ==
  feed # "both" => \A i, j \in DOMAIN closes : closes[i] = closes[j] => i = j

\* "preserving ascending order" (hub.py): the series the strategies see is in
\* the order of time and has no bar twice, whatever the stream loses and the
\* reconciler backfills.  A poll, which brings several bars, disorders it:
\* _klines compares each with the last one only.
SeriesAscending ==
  feed = "stream" =>
    \A i \in DOMAIN series : i > 1 => series[i - 1] < series[i]

\* No gap between stored bars lasts: it is backfilled, or the history no
\* longer reaches over it.
Missing(b) ==
  /\ \A i \in DOMAIN series : series[i] # b
  /\ \E i, j \in DOMAIN series : series[i] < b /\ b < series[j]
GapsGetFilled == \A b \in Bars \ {1, MaxBar} : Missing(b) ~> ~Missing(b)

\* What the reconciler is sent, in however many pages and from either
\* exchange, is every missing bar, nothing else that the series lacks, in the
\* order of time and no bar twice.
BackfillAnswersGaps ==
  [][backfill = << >> /\ backfill' # << >> =>
       /\ ToSet(backfill') \ ToSet(series) = {b \in Bars : Missing(b)}
       /\ \A i \in DOMAIN backfill' : i > 1 => backfill'[i - 1] < backfill'[i]]_hubVars
=============================================================================
