------------------------------ MODULE ResearchRun ------------------------------
(***************************************************************************)
(* A research backtest (backtest/research.py): check that the stored ticks *)
(* cover the period, freeze the rows the gates read, load the swaps,       *)
(* capture the revision, then stream the ticks through the engine and      *)
(* leave a report with a manifest of what went in.  Meanwhile ticks and    *)
(* rows are stored and deleted, the revision moves, and a run may be       *)
(* killed; it is started again with another period.                        *)
(*                                                                         *)
(* The stream keeps TickStream's promise: the rows settled when it opens,  *)
(* in order, or an error when one of them is gone.  The engine is what it  *)
(* makes of one tick: a candle, the rows it has read, an evaluation.       *)
(*                                                                         *)
(* Labels, on the broker's clock, are integers; DayLength of them are a    *)
(* day, and the market is shut during ClosedDays.  Bounds: MaxChanges of   *)
(* what is stored, MaxRuns runs.                                           *)
(***************************************************************************)
EXTENDS Integers, Sequences, FiniteSets, SequencesExt

CONSTANTS
  Labels,       \* labels a tick may have
  Archives,     \* what may be stored at first: sets of labels
  Periods,      \* what may be asked for: [start, end, warmup]
  Tolerance,    \* EDGE_GAP_TOLERANCE_SECONDS
  DayLength, ClosedDays,
  Ahead,        \* how much the broker's labels are ahead of the instant
  MaxChanges, MaxRuns

VARIABLES
  ticks,        \* stored ticks: labels
  rows, swaps,  \* known_at of the stored rows, and of the swap snapshots
  git,
  run,          \* the running process
  directories,  \* one per run that came as far
  changes

world == <<ticks, rows, swaps, git>>
vars == <<world, run, directories, changes>>

\* broker_label_to_known.
Known(label) == label - Ahead
KnownBy(stored, t) == {k \in stored : k <= t}

\* open_market_seconds: a closed day is no missing data.
Day(label) == label \div DayLength
OpenMarket(from, to) == Cardinality({t \in from .. to - 1 : Day(t) \notin ClosedDays})

\* ORDER BY: a label comes after those below it.
InOrder(labels) ==
  [i \in 1 .. Cardinality(labels) |->
     CHOOSE t \in labels : Cardinality({u \in labels : u < t}) = i - 1]

\* ensure_period_covered over the first and last tick of a read.
HeadCovered(first, period) == OpenMarket(period.start - period.warmup, first) <= Tolerance
Covered(read, period) ==
  /\ read # <<>>
  /\ Last(read) >= period.start
  /\ HeadCovered(read[1], period)
  /\ OpenMarket(Last(read), period.end) <= Tolerance

Read(period) == InOrder({t \in ticks : /\ t >= period.start - period.warmup
                                       /\ t < period.end})

NoPeriod == [start |-> 0, end |-> 0, warmup |-> 0]
Idle == [pc |-> "idle", id |-> 0, period |-> NoPeriod, code |-> 0, repro |-> 0,
         features |-> {}, swaps |-> {}, pinned |-> <<>>, opened |-> 0, digest |-> <<>>,
         evaluations |-> <<>>, progress |-> <<>>]

Init ==
  /\ ticks \in Archives
  /\ rows = {} /\ swaps = {} /\ git = 0
  /\ run = Idle /\ directories = <<>> /\ changes = 0

-----------------------------------------------------------------------------
(* Around the run *)

Change ==
  /\ changes < MaxChanges
  /\ changes' = changes + 1
  /\ UNCHANGED <<run, directories>>

StoreTick(label) == Change /\ label \notin ticks /\ ticks' = ticks \cup {label}
                    /\ UNCHANGED <<rows, swaps, git>>
DeleteTick(label) == Change /\ label \in ticks /\ ticks' = ticks \ {label}
                     /\ UNCHANGED <<rows, swaps, git>>
StoreRow(known) == Change /\ known \notin rows /\ rows' = rows \cup {known}
                   /\ UNCHANGED <<ticks, swaps, git>>
StoreSwap(known) == Change /\ known \notin swaps /\ swaps' = swaps \cup {known}
                    /\ UNCHANGED <<ticks, rows, git>>
Commit == Change /\ git' = git + 1 /\ UNCHANGED <<ticks, rows, swaps>>

-----------------------------------------------------------------------------
(* The run *)

Stays == UNCHANGED <<world, directories, changes>>
Refuse == run' = [Idle EXCEPT !.id = run.id]

Start(period) ==
  /\ run.pc = "idle" /\ run.id < MaxRuns
  /\ run' = [Idle EXCEPT !.pc = "preflight", !.id = run.id + 1, !.period = period,
                         !.code = git]
  /\ Stays

\* Fast feedback, on a snapshot of its own.
Preflight ==
  /\ run.pc = "preflight"
  /\ IF Covered(Read(run.period), run.period)
     THEN run' = [run EXCEPT !.pc = "freeze"] ELSE Refuse
  /\ Stays

Freeze ==
  /\ run.pc = "freeze"
  /\ run' = [run EXCEPT !.pc = "load", !.features = KnownBy(rows, Known(run.period.end))]
  /\ Stays

LoadSwaps ==
  /\ run.pc = "load"
  /\ run' = [run EXCEPT !.pc = "capture", !.swaps = KnownBy(swaps, Known(run.period.end))]
  /\ Stays

\* git_state, and the run's own directory before the first tick.
Capture ==
  /\ run.pc = "capture"
  /\ run' = [run EXCEPT !.pc = "open", !.repro = git]
  /\ directories' = Append(directories, [run |-> run.id, candles |-> <<>>, manifest |-> <<>>,
                                         report |-> FALSE, made |-> Idle])
  /\ UNCHANGED <<world, changes>>

OpenStream ==
  /\ run.pc = "open"
  /\ run' = [run EXCEPT !.pc = "stream", !.pinned = Read(run.period), !.opened = git]
  /\ Stays

Own == Len(directories)

\* covered_reconstructed_stream and the engine: one tick.  The line of a new
\* day is printed when the engine asks for the next tick (with_progress).
Line(read, label) ==
  IF read # <<>> /\ Day(Last(read)) = Day(label) THEN <<>>
  ELSE <<[day |-> Day(label), features |-> KnownBy(run.features, Known(label))]>>
Evaluation(label) ==
  IF Known(label) < Known(run.period.start) THEN <<>>
  ELSE <<[at |-> label, rows |-> KnownBy(run.features, Known(label)),
          swaps |-> KnownBy(run.swaps, Known(label))]>>
StreamTick ==
  /\ run.pc = "stream"
  /\ Len(run.digest) < Len(run.pinned)
  /\ LET label == run.pinned[Len(run.digest) + 1]
     IN IF label \notin ticks \/ (run.digest = <<>> /\ ~HeadCovered(label, run.period))
        THEN Refuse /\ UNCHANGED directories
        ELSE /\ run' = [run EXCEPT !.digest = Append(@, label),
                                   !.evaluations = @ \o Evaluation(label),
                                   !.progress = @ \o Line(run.digest, label)]
             /\ directories' =
                  IF run.digest = <<>> THEN directories
                  ELSE [directories EXCEPT ![Own].candles = Append(@, Last(run.digest))]
  /\ UNCHANGED <<world, changes>>

\* Mutant: the verdict of the check before the run is taken for it.
Accepted_Preflight == run.digest # <<>>
\* The verdict on what was streamed.
Accepted == Covered(run.digest, run.period)

\* The stream is exhausted: the manifest, or an exit without.
Finish ==
  /\ run.pc = "stream" /\ Len(run.digest) = Len(run.pinned)
  /\ IF Accepted
     THEN /\ directories' = [directories EXCEPT ![Own].manifest =
               <<[git |-> run.repro, ticks |-> run.digest, rows |-> run.features,
                  swaps |-> run.swaps, period |-> run.period]>>, ![Own].made = run]
          /\ run' = [run EXCEPT !.pc = "report"]
     ELSE Refuse /\ UNCHANGED directories
  /\ UNCHANGED <<world, changes>>

\* The rest of write_report: summary, trades and equity, after the manifest.
WriteReport ==
  /\ run.pc = "report"
  /\ directories' = [directories EXCEPT ![Own].report = TRUE]
  /\ Refuse
  /\ UNCHANGED <<world, changes>>

Kill ==
  /\ run.pc # "idle" /\ changes < MaxChanges
  /\ changes' = changes + 1
  /\ Refuse
  /\ UNCHANGED <<world, directories>>

Next ==
  \/ \E label \in Labels : StoreTick(label) \/ DeleteTick(label)
  \/ \E label \in Labels : StoreRow(Known(label)) \/ StoreSwap(Known(label))
  \/ Commit
  \/ \E period \in Periods : Start(period)
  \/ Preflight \/ Freeze \/ LoadSwaps \/ Capture \/ OpenStream \/ StreamTick \/ Finish
  \/ WriteReport \/ Kill

Spec == Init /\ [][Next]_vars

-----------------------------------------------------------------------------
(* Properties *)

\* The ticks of a report's manifest are the settled rows of the whole period with
\* its lead-in, and every one of them was replayed; every evaluation lies in the
\* period and read exactly those of the manifest's rows and swaps that were known by
\* then; the revision is one the repository had before the first tick; the candles
\* kept are those the replay closed.  The progress lines show what each day's first
\* tick was evaluated against (research.py, main).
Truthful(m, candles, made) ==
  /\ m.ticks = made.pinned
  /\ \A n \in 1 .. Len(m.ticks) - 1 : m.ticks[n] < m.ticks[n + 1]
  /\ OpenMarket(m.period.start - m.period.warmup, m.ticks[1]) <= Tolerance
  /\ OpenMarket(Last(m.ticks), m.period.end) <= Tolerance
  /\ candles = Front(m.ticks)
  /\ {made.evaluations[n].at : n \in DOMAIN made.evaluations}
       = {m.ticks[n] : n \in DOMAIN m.ticks} \cap m.period.start .. m.period.end - 1
  /\ made.evaluations # <<>>
  /\ \A n \in DOMAIN made.evaluations :
       LET e == made.evaluations[n]
       IN /\ e.rows = {k \in m.rows : k <= Known(e.at)}
          /\ e.swaps = {k \in m.swaps : k <= Known(e.at)}
  /\ m.git \in made.code .. made.opened
  /\ Cardinality({made.progress[n].day : n \in DOMAIN made.progress}) = Len(made.progress)
  /\ \A n \in DOMAIN made.evaluations : \E k \in DOMAIN made.progress :
       /\ made.progress[k].day = Day(made.evaluations[n].at)
       /\ made.progress[k].features \subseteq made.evaluations[n].rows

Honest(d) ==
  /\ d.report => d.manifest # <<>>
  /\ d.manifest # <<>> => Truthful(d.manifest[1], d.candles, d.made)

\* A manifest tells the truth of the run that wrote it, whatever was stored, deleted,
\* committed or killed meanwhile, and no report is without one (research.py, main).
RunHonest == \A i \in DOMAIN directories : Honest(directories[i])
=============================================================================
