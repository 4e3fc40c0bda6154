------------------------------- MODULE BarSeries -------------------------------
(***************************************************************************)
(* The candles of one symbol and one timeframe: BarBuilder                 *)
(* (data/market/bars.py) folding quotes into buckets of the broker's       *)
(* clock, BarService (data/market/bar_service.py) writing what it          *)
(* publishes to market_bars, as passes that follow the stored ticks and as *)
(* a backfill of the whole series, and the ticks that keep being committed *)
(* under both.                                                             *)
(*                                                                         *)
(* Two clocks, never compared by the builder: a tick's time is the         *)
(* broker's and says which candle it belongs to; its known time is ours,   *)
(* taken before its row commits, and says when it may be seen.  Prices are *)
(* left out: a candle is the set of the ids folded into it, with the       *)
(* quotes that set its open and its close; the high, the low and the       *)
(* volume are functions of that set.  Each read of the database is a step, *)
(* and sees what is committed then.                                        *)
(*                                                                         *)
(* Bounds: MaxTime for the broker's clock, MaxClock for ours, MaxTicks     *)
(* rows in the tick table.                                                 *)
(***************************************************************************)
EXTENDS Integers, FiniteSets, Sequences, SequencesExt

CONSTANTS
  Width,        \* TIMEFRAME_SECONDS of the timeframe
  StepBack,     \* CLOCK_STEP_BACK
  Lookback,     \* COLD_START_LOOKBACK
  Batch,        \* BACKFILL_BATCH_BARS
  Ahead,        \* how far the broker's clock runs ahead of ours
  CommitDelay,  \* longest time from a tick's reception to its commit
  MaxTime, MaxClock, MaxTicks

ASSUME BarAssumption ==
  /\ {Width, StepBack, Batch} \subseteq Nat \ {0}
  /\ {Lookback, Ahead, CommitDelay, MaxTime, MaxClock, MaxTicks} \subseteq Nat

VARIABLES
  clock,     \* our clock
  ticks,     \* market_ticks: the rows by id
  bars,      \* market_bars: start -> row
  live,      \* the pass of BarService.build_once under way
  backfill   \* the run of BarService.backfill under way

vars == <<clock, ticks, bars, live, backfill>>

BrokerTime == 0 .. MaxTime
Id == 1 .. MaxTicks
Row == [time: BrokerTime, known: 0 .. MaxClock]

\* bucket_start
BucketStart(t) == t - (t % Width)
Start == {BucketStart(t) : t \in BrokerTime}

Candle == [start: Start, members: SUBSET Id, open: Id, close: Id, known: 0 .. MaxClock]
\* A row of market_bars.  seen is a history field: the ticks its reader could see.
BarRow == [candle: Candle, seen: SUBSET Id]

Time(i) == ticks[i].time
Known(i) == ticks[i].known

-----------------------------------------------------------------------------
(* BarBuilder: a fold is its open bucket, if any, and what it published.   *)

NoBucket == [start |-> -1]
NewBuilder == [bucket |-> NoBucket, published |-> <<>>]

\* _open_bucket
OpenBucket(i) ==
  [start |-> BucketStart(Time(i)), members |-> {i}, open |-> i, close |-> i,
   known |-> Known(i)]

\* _fold
Folded(b, i) ==
  [b EXCEPT !.members = @ \cup {i},
            !.close = IF Time(i) >= Time(@) THEN i ELSE @,
            !.open = IF Time(i) < Time(@) THEN i ELSE @,
            !.known = Max({@, Known(i)})]

\* _stepped_back
SteppedBack(b, i) ==
  /\ BucketStart(Time(i)) < b.start
  /\ Time(i) <= Time(b.close) - StepBack

\* _to_bar
ToBar(b, i) == [b EXCEPT !.known = Max({@, Known(i)})]

\* on_tick
OnTick(f, i) ==
  LET b == f.bucket IN
  CASE b = NoBucket -> [f EXCEPT !.bucket = OpenBucket(i)]
    [] b # NoBucket /\ (SteppedBack(b, i) \/ Time(i) >= b.start + Width) ->
         [bucket |-> OpenBucket(i), published |-> Append(f.published, ToBar(b, i))]
    [] b # NoBucket /\ BucketStart(Time(i)) = b.start ->
         [f EXCEPT !.bucket = Folded(b, i)]
    [] OTHER -> f

Build(s) == FoldLeft(OnTick, NewBuilder, s)

\* The elements of a sequence that are in a set, in their order.
Among(s, S) == FoldLeft(LAMBDA kept, x : IF x \in S THEN Append(kept, x) ELSE kept, <<>>, s)

-----------------------------------------------------------------------------
(* The reads of market_ticks.                                              *)

\* The sequence of a set in which before says what comes first.
Arranged(S, before) ==
  [k \in 1 .. Cardinality(S) |->
     CHOOSE i \in S : Cardinality({j \in S : <<j, i>> \in before}) = k - 1]

\* ORDER BY event_time, id
Earlier(i, j) == Time(i) < Time(j) \/ (Time(i) = Time(j) /\ i < j)
InOrder(S) == Arranged(S, {p \in S \X S : Earlier(p[1], p[2])})

Committed == 1 .. Len(ticks)
Visible(at, since) == {i \in Committed : Known(i) <= at /\ Time(i) >= since}
First(S) == CHOOSE i \in S : \A j \in S \ {i} : Earlier(i, j)

\* Mutant: the bucket the read enters midway is kept.
FirstFullBucket_Entered(t) == BucketStart(t)

\* The first bucket the read covers whole when its first quote is stamped t.
FirstFullBucket(t) ==
  IF t = BucketStart(t) THEN t ELSE BucketStart(t) + Width

-----------------------------------------------------------------------------
IdleLive == [pc |-> "idle", now |-> 0, from |-> 0, out |-> <<>>]
IdleBackfill == [pc |-> "idle", from |-> 0, out |-> <<>>]
NoBar == [candle |-> NoBucket, seen |-> {}]

Init ==
  /\ clock = 0
  /\ ticks = <<>>
  /\ bars = [s \in Start |-> NoBar]
  /\ live = IdleLive
  /\ backfill = IdleBackfill

Stored == {s \in Start : bars[s] # NoBar}

\* INSERT INTO market_bars ... ON CONFLICT DO NOTHING, in one transaction.
Inserted(rows) ==
  [s \in Start |->
     IF bars[s] = NoBar /\ \E k \in DOMAIN rows : rows[k].candle.start = s
     THEN rows[CHOOSE k \in DOMAIN rows :
                 /\ rows[k].candle.start = s
                 /\ \A m \in 1 .. k - 1 : rows[m].candle.start # s]
     ELSE bars[s]]

\* The rows to write: the candles and, for the history, what was seen.
Rows(published, seen) ==
  [k \in DOMAIN published |-> [candle |-> published[k], seen |-> seen]]

-----------------------------------------------------------------------------
(* build_once.  A pass writes once, at its end, and keeps nothing: one that *)
(* dies before that leaves no trace, and is left out.                      *)

\* The last stored candle known by now, or a cold start.
LiveStart ==
  LET known == {s \in Stored : bars[s].candle.known <= clock}
  IN /\ live.pc = "idle"
     /\ live' = IF known = {}
                THEN [IdleLive EXCEPT !.pc = "cold", !.now = clock]
                ELSE [IdleLive EXCEPT !.pc = "pending", !.now = clock,
                                      !.from = Max(known) + Width]
     /\ UNCHANGED <<clock, ticks, bars, backfill>>

\* _cold_start
ColdStart ==
  LET read == Visible(live.now, live.now - Lookback)
  IN /\ live.pc = "cold"
     /\ live' = IF read = {} THEN IdleLive
                ELSE [live EXCEPT !.pc = "pending",
                                  !.from = FirstFullBucket(Time(First(read)))]
     /\ UNCHANGED <<clock, ticks, bars, backfill>>

\* _a_bucket_has_closed: the first read names the bucket that is pending (out
\* keeps the end of it), the second looks for a quote past its end.
FirstUnfolded ==
  LET read == Visible(live.now, live.from)
  IN /\ live.pc = "pending"
     /\ live' = IF read = {} THEN IdleLive
                ELSE [live EXCEPT !.pc = "closed",
                                  !.out = <<BucketStart(Time(First(read))) + Width>>]
     /\ UNCHANGED <<clock, ticks, bars, backfill>>

\* Mutant: only a quote past the end itself proves the bucket over.
LaterQuote_Strict ==
  /\ live.pc = "closed"
  /\ live' = IF Visible(live.now, live.out[1] + 1) = {} THEN IdleLive
             ELSE [live EXCEPT !.pc = "window", !.out = <<>>]
  /\ UNCHANGED <<clock, ticks, bars, backfill>>

LaterQuote ==
  /\ live.pc = "closed"
  /\ live' = IF Visible(live.now, live.out[1]) = {} THEN IdleLive
             ELSE [live EXCEPT !.pc = "window", !.out = <<>>]
  /\ UNCHANGED <<clock, ticks, bars, backfill>>

\* The window read and its fold.
ReadWindow ==
  LET published == Build(InOrder(Visible(live.now, live.from))).published
  IN /\ live.pc = "window"
     /\ live' = IF published = <<>> THEN IdleLive
                ELSE [live EXCEPT !.pc = "write",
                                  !.out = Rows(published, Visible(live.now, 0))]
     /\ UNCHANGED <<clock, ticks, bars, backfill>>

LiveWrite ==
  /\ live.pc = "write"
  /\ bars' = Inserted(live.out)
  /\ live' = IdleLive
  /\ UNCHANGED <<clock, ticks, backfill>>

-----------------------------------------------------------------------------
(* backfill                                                                *)

\* bounds_between: the first quote of the series.
BackfillStart ==
  /\ backfill.pc = "idle"
  /\ Committed # {}
  /\ backfill' = [IdleBackfill EXCEPT !.pc = "stream",
                                      !.from = FirstFullBucket(Time(First(Committed)))]
  /\ UNCHANGED <<clock, ticks, bars, live>>

\* stream_between pins the rows it reads (module TickStream), so what the fold
\* publishes is settled here; the writes come as it proceeds.
BackfillStream ==
  LET built == Build(InOrder(Committed)).published
      published == Among(built, {b \in ToSet(built) : b.start >= backfill.from})
  IN /\ backfill.pc = "stream"
     /\ backfill' = IF published = <<>> THEN IdleBackfill
                    ELSE [backfill EXCEPT !.pc = "write",
                                          !.out = Rows(published, Committed)]
     /\ UNCHANGED <<clock, ticks, bars, live>>

\* A full batch, or what is left of it at the end of the stream.
BackfillWrite ==
  LET out == backfill.out
  IN /\ backfill.pc = "write"
     /\ bars' = Inserted(SubSeq(out, 1, IF Batch < Len(out) THEN Batch ELSE Len(out)))
     /\ backfill' = IF Len(out) <= Batch THEN IdleBackfill
                    ELSE [backfill EXCEPT !.out = SubSeq(out, Batch + 1, Len(out))]
     /\ UNCHANGED <<clock, ticks, live>>

BackfillDies ==
  /\ backfill.pc # "idle"
  /\ backfill' = IdleBackfill
  /\ UNCHANGED <<clock, ticks, bars, live>>

-----------------------------------------------------------------------------
(* The collector commits a tick that it received at most CommitDelay ago:  *)
(* a fresh quote, or one of the past that a backfill of ticks repairs.     *)
Commit ==
  /\ Len(ticks) < MaxTicks
  /\ \E row \in Row :
       /\ row.known \in clock - CommitDelay .. clock
       /\ row.time <= row.known + Ahead
       /\ ticks' = Append(ticks, row)
  /\ UNCHANGED <<clock, bars, live, backfill>>

ClockAdvances ==
  /\ clock < MaxClock
  /\ clock' = clock + 1
  /\ UNCHANGED <<ticks, bars, live, backfill>>

LivePass == LiveStart \/ ColdStart \/ FirstUnfolded \/ LaterQuote \/ ReadWindow \/ LiveWrite
BackfillRun == BackfillStart \/ BackfillStream \/ BackfillWrite

Next ==
  \/ LivePass
  \/ BackfillRun \/ BackfillDies
  \/ Commit \/ ClockAdvances

\* BarService.run loops.  A step of LivePass is enabled in every state, so this is
\* its weak fairness; TLC evaluates it faster than the ENABLED of WF.
Fairness == []<><<LivePass>>_live

Spec == Init /\ [][Next]_vars
FairSpec == Spec /\ Fairness

-----------------------------------------------------------------------------
(* Properties.                                                             *)

\* The variables have their types.
TypeOK ==
  /\ clock \in 0 .. MaxClock
  /\ ticks \in Seq(Row) /\ Len(ticks) <= MaxTicks
  /\ bars \in [Start -> BarRow \cup {NoBar}]
  /\ live.pc \in {"idle", "cold", "pending", "closed", "window", "write"}
  /\ live.now \in 0 .. MaxClock /\ live.from \in 0 .. MaxTime + Width
  /\ live.pc = "write" => live.out \in Seq(BarRow)
  /\ backfill.pc \in {"idle", "stream", "write"}
  /\ backfill.from \in 0 .. MaxTime + Width
  /\ backfill.out \in Seq(BarRow)

\* No stored candle is cut: it holds every quote of its bucket that the pass
\* which wrote it could see, opens on the first and closes on the last of them
\* on the broker's timeline, and the series is known to reach back to the start
\* of the bucket (build_once, _cold_start, _first_full_bucket; it can never be
\* corrected).
CandlesWhole ==
  \A s \in Stored :
    LET c == bars[s].candle
        inBucket == {i \in bars[s].seen : BucketStart(Time(i)) = s}
    IN /\ c.start = s
       /\ c.members = inBucket
       /\ c.open = First(inBucket)
       /\ \A i \in inBucket \ {c.close} : Earlier(i, c.close)
       /\ \E i \in bars[s].seen : Time(i) <= s

\* known_at never runs ahead of what made the candle knowable: by then each of
\* its quotes had been received, and so had one past its end (BarBuilder._to_bar,
\* whichever of the two paths wrote it).
KnownHonest ==
  \A s \in Stored :
    LET c == bars[s].candle
    IN /\ \A i \in c.members : Known(i) <= c.known
       /\ \E i \in bars[s].seen : Time(i) >= s + Width /\ Known(i) <= c.known

\* Quotes delivered in the order we received them, as the replay engine does:
\* each is folded into one candle at most, and one that is dropped lay less than
\* StepBack behind a quote delivered before it, so a broker clock that moves back
\* never silences the builder (SYSTEM_SPEC 3.3).
QuotesPlaced ==
  LET Delivered(i, j) == Known(i) < Known(j) \/ (Known(i) = Known(j) /\ i < j)
      fold == Build(Arranged(Committed, {p \in Committed \X Committed : Delivered(p[1], p[2])}))
      candles == IF fold.bucket = NoBucket THEN fold.published
                 ELSE Append(fold.published, fold.bucket)
      Holding(i) == {k \in DOMAIN candles : i \in candles[k].members}
  IN \A i \in Committed :
       /\ Cardinality(Holding(i)) <= 1
       /\ Holding(i) = {} =>
            \E j \in Committed : /\ Delivered(j, i)
                                 /\ Time(j) \in Time(i) + 1 .. Time(i) + StepBack - 1

\* Once there is a candle to go on from, a bucket past the last one that holds a
\* quote and is over is written in the end, or the series has moved past it: the
\* check that spares a pass its read never holds back a candle
\* (_a_bucket_has_closed).
Waiting(s) ==
  /\ Stored # {} /\ s > Max(Stored)
  /\ \E i \in Committed : BucketStart(Time(i)) = s
  /\ \E i \in Committed : Time(i) >= s + Width
BarsFlow == \A s \in Start : Waiting(s) ~> \E r \in Stored : r >= s

\* The stored series and the candles a replay folds tell the quotes as they were
\* received (bars.py, bar_service.py).
BarsHonest == TypeOK /\ CandlesWhole /\ KnownHonest /\ QuotesPlaced
=============================================================================
