----------------------------- MODULE EventStudies -----------------------------
(***************************************************************************)
(* Three studies of what the price does after an event, over the candles   *)
(* folded from the stored quotes: after a policy decision                  *)
(* (backtest/policy_event_study.py), after a reported intervention         *)
(* (backtest/intervention_event_study.py) and after a fall that could be   *)
(* detected as it happened (backtest/shock_trigger_study.py).  Time goes   *)
(* on, candles close or are missing, events become known, and at every     *)
(* instant the studies can be run on what is stored by then.               *)
(*                                                                         *)
(* A candle lasts one instant; a day is DayCandles of them.  A log return  *)
(* is a difference of prices, so that a z score compares integers.  Left   *)
(* out: the statistics and verdicts over the measured windows, spreads,     *)
(* the label axis (decisions are known on the axis of the candles) and     *)
(* weekends in the distance of two interventions.                          *)
(*                                                                         *)
(* Bounds: MaxTime candles, MaxEvents events; moves of a price from Moves. *)
(***************************************************************************)
EXTENDS Integers, Sequences, FiniteSets, SequencesExt

CONSTANTS
  Moves,
  DayCandles,
  HoleMinimum,      \* HOLE_MINIMUM: a step this wide is missing data
  Horizons,         \* HORIZONS of the policy study
  ShockWindow,      \* SHOCK_WINDOW
  NewsMaxLag,       \* NEWS_MAX_LAG
  ClusterDays,      \* business days that chain two interventions
  Lookback, Threshold, ForwardBars, \* Spec, FORWARD_BARS
  PolicyWindow,     \* POLICY_WINDOW
  MaxTime, MaxEvents

VARIABLES
  now,
  price,
  candles,    \* every candle with a quote, the open one last
  decisions,  \* stored scores of meetings
  episodes    \* INTERVENTION_REPORTED events of yen buying

vars == <<now, price, candles, decisions, episodes>>

None == 0   \* no index
Greater(a, b) == IF a > b THEN a ELSE b
Lesser(a, b) == IF a < b THEN a ELSE b

-----------------------------------------------------------------------------
(* Candles. *)

Candle(start, end, open, close) ==
  [start |-> start, end |-> end, open |-> open, close |-> close]

\* fold_bars: a builder hands a candle out at the first quote of a later one.
Published(series) == IF series = <<>> THEN <<>> ELSE Front(series)

\* The daily candles folded in the same pass.
Daily(series) ==
  LET days == SetToSortSeq({series[i].start \div DayCandles : i \in DOMAIN series}, <)
      Of(d) == SelectSeq(series, LAMBDA c : c.start \div DayCandles = d)
  IN [i \in DOMAIN days |->
        Candle(days[i] * DayCandles, (days[i] + 1) * DayCandles,
               Of(days[i])[1].open, Last(Of(days[i])).close)]

\* gaps: the steps too wide for a closure of the market.
Hole(before, after) == after.start - before.start >= HoleMinimum
Unbroken(bars, i, j) == \A k \in i .. j - 1 : ~Hole(bars[k], bars[k + 1])

\* window_outcome: the return over a horizon, and the worst and best price on
\* the way; nothing when the series ends before or has a hole.
WindowOutcome(bars, entry, horizon) ==
  LET exit == entry + horizon
      window == entry + 1 .. exit
      base == bars[entry].close
  IN IF exit > Len(bars) \/ ~Unbroken(bars, entry, exit) THEN <<>>
     ELSE <<[ret |-> bars[exit].close - base,
             adverse |-> Max({Greater(bars[k].open, bars[k].close) : k \in window}) - base,
             favorable |-> Min({Lesser(bars[k].open, bars[k].close) : k \in window}) - base]>>

\* The first index of a sequence that satisfies Test.
FirstIndex(bars, Test(_)) ==
  LET found == {i \in DOMAIN bars : Test(bars[i])}
  IN IF found = {} THEN None ELSE Min(found)

-----------------------------------------------------------------------------
(* After a policy decision. *)

\* current_version: a meeting scored twice is one decision.
CurrentVersion == {d \in decisions : d.current}

\* The score a bank's latest meeting left at t, through the feature source.
ScoreAt(bank, t) ==
  LET seen == {d \in CurrentVersion : d.bank = bank /\ d.known <= t}
  IN IF seen = {} THEN <<>>
     ELSE <<(CHOOSE d \in seen : \A o \in seen : o.known <= d.known).score>>

\* classify: a meeting lands in exactly one group.
Classify(boj, fed) ==
  IF boj > 0 /\ fed < 0 THEN "both" ELSE IF boj > 0 THEN "boj"
  ELSE IF fed < 0 THEN "fed" ELSE "neither"

\* entry_bar: the first candle that closed after the decision was known; none
\* for a decision older than the series.
EntryBar(bars, known) ==
  IF bars = <<>> THEN None
  ELSE IF known < bars[1].start THEN None
  ELSE FirstIndex(bars, LAMBDA c : c.end > known)

\* The observations of main(), a decision without any horizon left out.
Observations(bars) ==
  {o \in
     {[at |-> d.known, entry |-> EntryBar(bars, d.known),
       group |-> IF ScoreAt("BOJ", d.known) = <<>> \/ ScoreAt("FED", d.known) = <<>>
                 THEN "none"
                 ELSE Classify(ScoreAt("BOJ", d.known)[1], ScoreAt("FED", d.known)[1])]
        : d \in CurrentVersion} :
     /\ o.group # "none" /\ o.entry # None
     /\ \E h \in Horizons : WindowOutcome(bars, o.entry, h) # <<>>}

\* collapse_same_entry: a close prices in the latest decision before it.
Collapsed(observations) ==
  {o \in observations : \A p \in observations : p.entry = o.entry => p.at <= o.at}

Thin(bars, observations, horizon) ==
  FoldLeft(LAMBDA kept, o :
             IF kept = <<>> \/ o.entry >= Last(kept).entry + horizon THEN Append(kept, o)
             ELSE kept,
           <<>>,
           SetToSortSeq({o \in observations : WindowOutcome(bars, o.entry, horizon) # <<>>},
                        LAMBDA a, b : a.entry < b.entry))

\* The kept observations of a horizon, and what unconditional() measures over
\* the stretch they reach: every non-overlapping window of it.
Kept(bars, horizon) == Thin(bars, Collapsed(Observations(bars)), horizon)
Unconditional(bars, kept, horizon) ==
  IF kept = <<>> THEN {}
  ELSE LET first == kept[1].entry
           last == Last(kept).entry + horizon
       IN {i \in first .. last - horizon :
             /\ (i - first) % horizon = 0
             /\ WindowOutcome(bars, i, horizon) # <<>>}

-----------------------------------------------------------------------------
(* After a reported intervention. *)

EpisodeDates == {e.date : e \in episodes}

\* cluster_anchors: an episode close to the one before it chains to its cluster.
Cluster(date) ==
  Max({d \in EpisodeDates : /\ d <= date
                            /\ \A o \in EpisodeDates : o < d => d - o > ClusterDays})

\* shock_anchors: the candle of the window that fell most, once the window has
\* closed and has been seen without a hole.
WindowEnd(date) ==
  LET later == {d \in EpisodeDates : d > date}
      full == date * DayCandles + ShockWindow
  IN IF later = {} THEN full ELSE Lesser(full, Min(later) * DayCandles)
\* Mutant: the window is read before it has closed.
ShockAnchor_Provisional(bars, date) ==
  LET from == date * DayCandles
      inside == {i \in DOMAIN bars : bars[i].start >= from /\ bars[i].start < WindowEnd(date)}
      Drop(i) == bars[i].close - bars[i].open
  IN IF inside = {} THEN None
     ELSE Min({i \in inside : \A j \in inside : Drop(i) <= Drop(j)})
ShockAnchor(bars, date) ==
  LET from == date * DayCandles
      end == WindowEnd(date)
      inside == {i \in DOMAIN bars : bars[i].start >= from /\ bars[i].start < end}
      closed == \E i \in DOMAIN bars : bars[i].start >= end
      broken == \E i \in 1 .. Len(bars) - 1 :
                  Hole(bars[i], bars[i + 1]) /\ bars[i].end < end /\ bars[i + 1].start > from
      Drop(i) == bars[i].close - bars[i].open
  IN IF ~closed \/ inside = {} \/ broken THEN None
     ELSE Min({i \in inside : \A j \in inside : Drop(i) <= Drop(j)})

\* news_anchor: the first candle that closed after the report, unless the
\* market cannot have been shut for that long.
NewsAnchor(bars, known) ==
  LET entry == FirstIndex(bars, LAMBDA c : c.end > known)
  IN IF entry = None THEN None
     ELSE IF bars[entry].end - known >= NewsMaxLag THEN None ELSE entry

\* daily_entry: the daily candle of the trading day that holds the anchor.
DailyEntry(days, bars, entry) == FirstIndex(days, LAMBDA d : d.end >= bars[entry].end)

\* cluster_only: what the aggregates without overlap are taken over.
ClusterOnly == {e \in episodes : Cluster(e.date) = e.date}

-----------------------------------------------------------------------------
(* After a shock. *)

\* log_returns: none across a missing candle.
LogReturn(bars, i) ==
  IF i = 1 THEN <<>>
  ELSE IF bars[i - 1].end # bars[i].start THEN <<>>
  ELSE <<bars[i].close - bars[i - 1].close>>

\* z_scores: the deviation of a return from the Lookback valid ones before it,
\* compared with -Threshold times their standard deviation.
Fires(bars, i) ==
  LET valid == SelectSeq([k \in 1 .. i - 1 |-> k], LAMBDA k : LogReturn(bars, k) # <<>>)
      window == SubSeq(valid, Len(valid) - Lookback + 1, Len(valid))
      values == [k \in DOMAIN window |-> LogReturn(bars, window[k])[1]]
      total == FoldLeft(LAMBDA s, v : s + v, 0, values)
      squares == FoldLeft(LAMBDA s, v : s + v * v, 0, values)
      spread == Lookback * squares - total * total
      off == Lookback * LogReturn(bars, i)[1] - total
  IN /\ LogReturn(bars, i) # <<>> /\ Len(valid) >= Lookback
     /\ spread # 0 /\ off < 0 /\ off * off > Threshold * Threshold * spread
     /\ LogReturn(bars, i)[1] < 0

\* classify_layer: an intervention's day before a decision's, before neither.
Layer(candle) ==
  LET inA == \E d \in EpisodeDates :
               candle.start \in d * DayCandles .. d * DayCandles + ShockWindow - 1
      inB == \E d \in CurrentVersion :
               d.known < candle.end /\ candle.start < d.known + PolicyWindow
  IN IF inA THEN "A" ELSE IF inB THEN "B" ELSE "C"

\* detect: a signal within the reach of the one before it is suppressed, also
\* when that one could not be measured; one is measured over contiguous candles.
Measurable(bars, i) ==
  /\ i + ForwardBars <= Len(bars)
  /\ \A k \in i + 1 .. i + ForwardBars : LogReturn(bars, k) # <<>>
Detect(bars) ==
  FoldLeft(LAMBDA found, i :
             IF ~Fires(bars, i) THEN found
             ELSE IF found.last # None /\ i <= found.last + ForwardBars
             THEN [found EXCEPT !.suppressed = @ \cup {i}]
             ELSE IF ~Measurable(bars, i)
             THEN [found EXCEPT !.last = i, !.invalid = @ \cup {i}]
             ELSE [found EXCEPT !.last = i, !.triggers = @ \cup {i}],
           [last |-> None, triggers |-> {}, suppressed |-> {}, invalid |-> {}],
           [i \in DOMAIN bars |-> i])

-----------------------------------------------------------------------------
\* The meetings before the first candle.
Earlier == [bank : {"BOJ", "FED"}, score : {1}, current : {TRUE}, known : {-1}]

Init ==
  /\ now = 0 /\ price = 0
  /\ candles = <<>> /\ decisions \in {{}, Earlier} /\ episodes = {}

\* The candle of the next instant closes at a move of the price.
Trade(move) ==
  /\ now < MaxTime
  /\ now' = now + 1
  /\ price' = price + move
  /\ candles' = Append(candles, Candle(now, now + 1, price, price + move))
  /\ UNCHANGED <<decisions, episodes>>

\* No quote: the market is shut, or the archive has a hole.
Missing ==
  /\ now < MaxTime
  /\ now' = now + 1
  /\ UNCHANGED <<price, candles, decisions, episodes>>

Room == Cardinality(decisions \ Earlier) + Cardinality(episodes) < MaxEvents

\* A bank publishes; a re-tuned scorer stores the meeting once more.
Decide(bank, score, current) ==
  /\ Room
  /\ decisions' = decisions \cup
       {[bank |-> bank, score |-> score, current |-> current, known |-> now]}
  /\ UNCHANGED <<now, price, candles, episodes>>

\* An intervention of a day not after today is reported.
Report(date) ==
  /\ Room /\ date * DayCandles <= now /\ date \notin EpisodeDates
  /\ episodes' = episodes \cup {[date |-> date, known |-> now]}
  /\ UNCHANGED <<now, price, candles, decisions>>

Next ==
  \/ \E move \in Moves : Trade(move)
  \/ Missing
  \/ \E bank \in {"BOJ", "FED"}, score \in {-1, 1}, current \in BOOLEAN :
       Decide(bank, score, current)
  \/ \E date \in 0 .. MaxTime \div DayCandles : Report(date)

Spec == Init /\ [][Next]_vars

-----------------------------------------------------------------------------
Bars == Published(candles)
Days == Published(Daily(candles))

Disjoint(bars, S, reach) ==
  \A i, j \in S : i < j => i + reach <= j

\* Whatever is missing and whenever events become known: a policy observation
\* enters at the first close after its decision and carries the scores of the
\* latest decision that close priced in; no stretch of prices is counted twice
\* at a horizon, and none crosses a hole; a measured shock has all its forward
\* candles; a shock or news anchor lies in the window, or within the lag, of
\* its episode, belongs to the day it is measured over, and is layer A when the
\* shock study triggers there too; one aggregate per cluster leaves no two
\* episodes closer than ClusterDays.
StudiesHonest ==
  LET bars == Bars IN
  /\ \A h \in Horizons :
       LET kept == Kept(bars, h)
       IN /\ Disjoint(bars, {kept[k].entry : k \in DOMAIN kept}, h)
          /\ Cardinality({kept[k].entry : k \in DOMAIN kept}) = Len(kept)
          /\ \A k \in DOMAIN kept :
               LET o == kept[k]
               IN /\ bars[o.entry].end > o.at
                  /\ \A i \in 1 .. o.entry - 1 : bars[i].end <= o.at
                  /\ \A d \in CurrentVersion : d.known < bars[o.entry].end => d.known <= o.at
                  /\ Unbroken(bars, o.entry, o.entry + h)
          /\ Disjoint(bars, Unconditional(bars, kept, h), h)
  /\ LET found == Detect(bars)
     IN /\ Disjoint(bars, found.triggers, ForwardBars + 1)
        /\ \A i \in found.triggers :
             bars[i + ForwardBars].end = bars[i].end + ForwardBars
  /\ \A e \in episodes :
       LET shock == ShockAnchor(bars, e.date)
           news == NewsAnchor(bars, e.known)
       IN /\ shock # None =>
               /\ bars[shock].start \in e.date * DayCandles .. e.date * DayCandles + ShockWindow - 1
               /\ \A o \in episodes : ShockAnchor(bars, o.date) = shock => o = e
               /\ shock \in Detect(bars).triggers => Layer(bars[shock]) = "A"
          /\ news # None => bars[news].end \in e.known + 1 .. e.known + NewsMaxLag - 1
          /\ \A anchor \in {shock, news} \ {None} :
               LET entry == DailyEntry(Days, bars, anchor)
               IN entry # None =>
                    bars[anchor].start \in Days[entry].start .. Days[entry].end - 1
  /\ \A a, b \in ClusterOnly : a.date < b.date => b.date - a.date > ClusterDays

\* What the studies have found in a series of candles.
Signals(bars) ==
  LET found == Detect(bars) IN [found EXCEPT !.last = found.triggers \cup found.invalid
                                                       \cup found.suppressed]
Anchors(bars) ==
  [e \in episodes |-> <<ShockAnchor(bars, e.date), NewsAnchor(bars, e.known)>>]
KeptAll(bars) == [h \in Horizons |-> Kept(bars, h)]

SignalsStand(old, new, length) ==
  /\ old.triggers \subseteq new.triggers
  /\ old.suppressed \subseteq new.suppressed
  /\ old.invalid \subseteq new.invalid \cup new.triggers
  /\ \A i \in new.last \ old.last : i > length
AnchorsStand(old, new) ==
  \A e \in DOMAIN old, k \in {1, 2} : old[e][k] # None => new[e][k] = old[e][k]
KeptStand(old, new) == \A h \in Horizons : IsPrefix(old[h], new[h])

\* What a study finds without the last candle stands when that candle is in: a
\* signal stays a signal and a measured one keeps its measure, a shock anchor is
\* never moved, an observation kept at a horizon stays kept.  (A report of
\* another intervention may still shorten a window that was chosen from.)
FindingsStand ==
  Bars # <<>> =>
    LET new == Bars
        old == Front(new)
    IN /\ SignalsStand(Signals(old), Signals(new), Len(old))
       /\ AnchorsStand(Anchors(old), Anchors(new))
       /\ KeptStand(KeptAll(old), KeptAll(new))
=============================================================================
