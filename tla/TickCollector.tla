---------------------------- MODULE TickCollector ----------------------------
(***************************************************************************)
(* TickCollector (data/market/collector.py): polling the terminal's newest *)
(* quote of a symbol, reading the tick history since the last poll, and    *)
(* backfilling a window.  The terminal publishes several quotes a          *)
(* millisecond, its history may not have the newest of them yet, and       *)
(* quotes arrive between the two calls of a poll.                          *)
(*                                                                         *)
(* A time is a broker millisecond.  Bounds: MaxQuotes quotes at times up   *)
(* to MaxTime.                                                             *)
(***************************************************************************)
EXTENDS Integers, Sequences, SequencesExt

CONSTANTS
  Prices,
  GapMax,       \* POLL_GAP_MAX
  MaxQuotes, MaxTime

VARIABLES
  market,       \* quotes the broker has published, in order
  table,        \* rows of market_ticks of the symbol, by insertion
  last,         \* _last_quote, or NoQuote
  tick,         \* symbol_info_tick of the poll under way, or NoQuote
  since         \* time from which polls have been close enough: the series is whole

vars == <<market, table, last, tick, since>>

NoQuote == [time |-> -1, price |-> "none"]
Quotes == [time : 0 .. MaxTime, price : Prices]
Rows == ToSet(table)
Newest == IF market = <<>> THEN NoQuote ELSE Last(market)

Init ==
  /\ market = <<>> /\ table = <<>>
  /\ last = NoQuote /\ tick = NoQuote
  /\ since = 0

-----------------------------------------------------------------------------
Publish(q) ==
  /\ Len(market) < MaxQuotes
  /\ q.time >= Newest.time /\ q # Newest
  /\ market' = Append(market, q)
  /\ UNCHANGED <<table, last, tick, since>>

\* insert_many: rows in order, a quote that is there already is skipped.
InsertMany(rows, quotes) ==
  FoldLeft(LAMBDA kept, q : IF q \in ToSet(kept) THEN kept ELSE Append(kept, q), rows, quotes)

Within(quotes, from, to) == SelectSeq(quotes, LAMBDA q : q.time >= from /\ q.time <= to)

\* Mutant: a price that comes back keeps its first place.
LastPlace_First(quotes, q) == CHOOSE i \in DOMAIN quotes :
  quotes[i] = q /\ \A j \in DOMAIN quotes : quotes[j] = q => i <= j
\* The last place a quote has in the history.
LastPlace(quotes, q) == CHOOSE i \in DOMAIN quotes :
  quotes[i] = q /\ \A j \in DOMAIN quotes : quotes[j] = q => j <= i

HistoryFrom(previous) == previous.time

\* What a poll stores of the rows of the history: the other quotes of it and the
\* polled one at the last place it has there, or at the end.
GapTicks(quotes) ==
  LET wanted(i) == IF quotes[i] = tick THEN i = LastPlace(quotes, tick) ELSE quotes[i] # last
      kept == [i \in DOMAIN quotes |-> IF wanted(i) THEN <<quotes[i]>> ELSE <<>>]
  IN  FlattenSeq(kept) \o (IF tick \in ToSet(quotes) THEN <<>> ELSE <<tick>>)

CloseEnough == last # NoQuote /\ tick.time - last.time \in 0 .. GapMax

\* symbol_info_tick; the same quote again ends the poll.
PollTick ==
  /\ tick = NoQuote /\ market # <<>>
  /\ Newest # last
  /\ tick' = Newest
  /\ UNCHANGED <<market, table, last, since>>

\* copy_ticks_range of the first `seen` quotes of the market, and the write.  A
\* history that lags lacks quotes of the polled millisecond at most.
PollHistory(seen) ==
  /\ tick # NoQuote /\ CloseEnough
  /\ seen <= Len(market)
  /\ \A i \in DOMAIN market : market[i].time < tick.time => i <= seen
  /\ LET history == Within(SubSeq(market, 1, seen), HistoryFrom(last), tick.time)
     IN  table' = InsertMany(table, GapTicks(history))
  /\ last' = tick /\ tick' = NoQuote
  /\ UNCHANGED <<market, since>>

\* The first quote of a process, or one after a wide gap: no history is read.
PollAlone ==
  /\ tick # NoQuote /\ ~CloseEnough
  /\ table' = InsertMany(table, <<tick>>)
  /\ since' = tick.time
  /\ last' = tick /\ tick' = NoQuote
  /\ UNCHANGED market

\* One window of a backfill, by a process of its own.
Backfill(from, to) ==
  /\ market # <<>> /\ from <= to
  /\ table' = InsertMany(table, Within(market, from, to))
  /\ since' = IF from <= since /\ since <= to /\ since < Newest.time THEN from ELSE since
  /\ UNCHANGED <<market, last, tick>>

\* A failed call raises, the scheduler starts the process again.
Restart ==
  /\ last # NoQuote
  /\ last' = NoQuote /\ tick' = NoQuote
  /\ since' = Newest.time + 1
  /\ UNCHANGED <<market, table>>

Next ==
  \/ \E q \in Quotes : Publish(q)
  \/ PollTick \/ PollAlone \/ Restart
  \/ \E seen \in 0 .. MaxQuotes : PollHistory(seen)
  \/ \E from, to \in 0 .. MaxTime : Backfill(from, to)

Spec == Init /\ [][Next]_vars

-----------------------------------------------------------------------------
(* Properties *)

\* Polls that follow each other closely lose no quote, though they see the newest one
\* only and the history lags: what lies before the last polled millisecond is stored.
SeriesWhole ==
  \A q \in ToSet(market) : q.time > since /\ q.time < last.time => q \in Rows

\* Read back by time and insertion, the series ends in the quote just polled, though
\* its price was seen before in the same millisecond: a bar closes on the price the
\* market moved to (poll_once, the comment before last_polled_index).
EndsInPolled ==
  [][PollHistory(Len(market)) /\ Newest = tick /\ tick \notin Rows =>
       tick = Last(SelectSeq(table', LAMBDA q : q.time = tick.time))]_vars

CollectorFaithful == []SeriesWhole /\ EndsInPolled
=============================================================================
