--------------------------- MODULE FeatureTimeline ---------------------------
(***************************************************************************)
(* What the strategies read of the stored series: StoredFeatureSource      *)
(* (data/features.py) recomputing the feature store and the states of the  *)
(* currencies from the rows known at an instant, and ReplayFeatureTimeline *)
(* stepping a frozen source along the clock of a replay, where it          *)
(* recomputes only at the instants it scheduled, while collectors keep     *)
(* inserting rows.                                                         *)
(*                                                                         *)
(* Two currencies stand for four: USD reads the two-year yield (RATES) and *)
(* the scores of its central bank's meetings (POLICY), GBP a monthly       *)
(* release (INFLATION).  A factor that needs the year before is left out.  *)
(* Of a normalised score, tanh and the rounding are left out; confidence   *)
(* is counted in parts of Whole.  A day is DayLength instants.             *)
(*                                                                         *)
(* Bounds: MaxTime for the clock, MaxCollects rows inserted under a        *)
(* replay; the rows come from Universe.                                    *)
(***************************************************************************)
EXTENDS Integers, Sequences, FiniteSets, SequencesExt

CONSTANTS
  Universe,       \* the rows there can be
  Datasets,       \* what the tables hold when the replay is prepared
  Opening,        \* known_start: the first instant replayed
  DayLength,
  YieldWindow,    \* US2Y_VINTAGE_LOOKBACK
  RateWindow,     \* the window the RATES factor reads
  ReleaseWindow,  \* the window a monthly factor reads
  PolicyWindow,   \* POLICY_LOOKBACK
  RecencyDays,    \* RECENCY_WINDOW_DAYS
  Current,        \* SCORING_VERSION
  ZWindow,        \* ZSCORE_WINDOW
  Window, MinObservations, ClipSigma,       \* NormalizationConfig
  Bound,                                    \* bounded_factors[POLICY]
  FreshFull, FreshZero, Whole,              \* CurrencyScoreConfig
  MaxTime, MaxCollects

VARIABLES
  db,         \* the stored rows
  unread,     \* frozen(): the reads still to make
  frozen,     \* _FrozenObservations and _FrozenEvents
  full,       \* every row those reads could have returned
  ahead,      \* the instants scheduled and not yet crossed
  refreshed,  \* _refreshed_at
  now,        \* the clock of the replay
  store,      \* FeatureStore
  states,     \* CurrencyStateStore
  read,       \* the rows the snapshots were computed from
  manifest,   \* the rows dataset_fingerprint digested
  collects

vars == <<db, unread, frozen, full, ahead, refreshed, now, store, states, read,
          manifest, collects>>

\* A row: what it is, the currency it is about, the period it observes (the
\* scoring version of a meeting, the date of an action), value, known_at.
Kinds == {"yield", "release", "meeting", "action"}
Currencies == {"USD", "GBP"}
Factors == {"rates", "inflation", "policy"}

Date(t) == t \div DayLength
Absolute(n) == IF n < 0 THEN -n ELSE n

\* known_before: WHERE known_at <= t AND known_at > since.
KnownBefore(rows, kind, t, since) ==
  {r \in rows : r.kind = kind /\ r.known <= t /\ r.known > since}

-----------------------------------------------------------------------------
(* Features (data/policy/features.py, data/intervention/features.py). *)

Periods(rows) == SetToSortSeq({r.period : r \in rows}, <)

\* yield_series: the latest visible vintage of each day, in day order.
YieldSeries(rows) ==
  LET Vintage(p) == CHOOSE r \in rows : /\ r.period = p
                                     /\ \A o \in rows : o.period = p => o.known <= r.known
  IN [i \in DOMAIN Periods(rows) |-> Vintage(Periods(rows)[i]).value]

\* us2y_features: a feature without its inputs is absent (<<>>), never zero.
Us2y(rows) ==
  LET series == YieldSeries(rows)
      n == Len(series)
      tail == SubSeq(series, n - ZWindow + 1, n)
  IN [level |-> IF n = 0 THEN <<>> ELSE <<series[n]>>,
      change |-> IF n <= 1 THEN <<>> ELSE <<series[n] - series[n - 1]>>,
      zscore |-> IF n < ZWindow \/ Cardinality(ToSet(tail)) = 1 THEN <<>> ELSE tail]

\* latest_policy_score over the meetings this build's scoring computed.
PolicyScore(rows, t) ==
  LET visible == {r \in rows : r.kind = "meeting" /\ r.known <= t /\ r.period = Current}
  IN IF visible = {} THEN <<>>
     ELSE <<(CHOOSE r \in visible : \A o \in visible : o.known <= r.known).value>>

\* The actions the intervention feature reads: known within the recency bound.
Actions(rows, t) == KnownBefore(rows, "action", t, t - (RecencyDays + 1) * DayLength)

\* intervention_risk_inputs: the days since the latest action, which count
\* whole dates, and the highest stage of recognition that action has reached.
InterventionRisk(events, t) ==
  LET latest == CHOOSE e \in events : \A o \in events : o.period <= e.period
      days == Date(t) - latest.period
      stages == {e.value : e \in {o \in events : o.period = latest.period}}
  IN IF events = {} \/ days < 0 \/ days > RecencyDays THEN <<>>
     ELSE <<RecencyDays - days, CHOOSE s \in stages : \A o \in stages : o <= s>>

\* StoredFeatureSource.snapshot.
Snapshot(rows, t) ==
  [us2y |-> Us2y(KnownBefore(rows, "yield", t, t - YieldWindow)),
   policy |-> PolicyScore(rows, t),
   intervention |-> InterventionRisk(Actions(rows, t), t)]

-----------------------------------------------------------------------------
(* Currency states (data/factor_series.py, intelligence/currency.py). *)

\* The kind of row a factor of a currency reads, and its window.
Input(currency, factor) ==
  CASE currency = "USD" /\ factor = "rates" -> "yield"
    [] currency = "USD" /\ factor = "policy" -> "meeting"
    [] currency = "GBP" /\ factor = "inflation" -> "release"
    [] OTHER -> "none"
FactorWindow ==
  [yield |-> RateWindow, release |-> ReleaseWindow, meeting |-> PolicyWindow]

\* _first_print_per_period: the first visible vintage of each period, except of
\* the periods the window has already cut into.
FirstPrints(rows, oldest) ==
  {r \in rows : /\ r.period >= oldest
                /\ \A o \in rows : o.period = r.period => r.known <= o.known}

\* The observations of a factor, ordered by when they were known, the ones of
\* one instant by period; of the meetings, the ones of this build's scoring.
Points(rows, kind, t) ==
  LET since == t - FactorWindow[kind]
      visible == KnownBefore(rows, kind, t, since)
      chosen == IF kind = "meeting" THEN {r \in visible : r.period = Current}
                ELSE FirstPrints(visible, Date(since))
  IN SetToSortSeq(chosen, LAMBDA a, b : \/ a.known < b.known
                                        \/ a.known = b.known /\ a.period < b.period)

\* Twice the median of a sequence of integers.
Median2(values) ==
  LET sorted == SortSeq(values, LAMBDA a, b : a < b)
      n == Len(sorted)
  IN sorted[(n + 1) \div 2] + sorted[n \div 2 + 1]

\* The middle distance of consecutive instants, 0 when there is one instant.
Cadence(points) ==
  LET instants == SetToSortSeq({points[i].known : i \in DOMAIN points}, <)
      gaps == [i \in 1 .. Len(instants) - 1 |-> instants[i + 1] - instants[i]]
  IN IF gaps = <<>> THEN 0 ELSE Median2(gaps) \div 2

Clip(n, limit) == IF n > limit THEN limit ELSE IF n < -limit THEN -limit ELSE n

\* normalize_series: where the latest point lies in its own window, by median
\* and median deviation; no score below the minimum, none of a flat window.
Normalized(points) ==
  LET window == SubSeq(points, IF Len(points) > Window THEN Len(points) - Window + 1 ELSE 1,
                       Len(points))
      values == [i \in DOMAIN window |-> window[i].value]
      median2 == Median2(values)
      mad4 == Median2([i \in DOMAIN values |-> Absolute(2 * values[i] - median2)])
      z == (4 * (2 * values[Len(values)] - median2)) \div mad4
  IN IF Len(points) < MinObservations \/ mad4 = 0 THEN <<>>
     ELSE <<[value |-> Clip(z, ClipSigma), fitted |-> window[Len(window)].known,
             cadence |-> Cadence(window)]>>

\* bounded_score: a calibrated series is only divided by its limit.
Bounded(points) ==
  IF points = <<>> THEN <<>>
  ELSE <<[value |-> Clip(points[Len(points)].value, Bound),
          fitted |-> points[Len(points)].known, cadence |-> Cadence(points)]>>

Score(rows, currency, factor, t) ==
  LET kind == Input(currency, factor)
  IN CASE kind = "none" -> <<>>
       [] kind = "meeting" -> Bounded(Points(rows, kind, t))
       [] OTHER -> Normalized(Points(rows, kind, t))

\* _freshness, in parts of Whole.
Freshness(score, t) ==
  LET age == t - score.fitted
      fresh == IF score.cadence > FreshFull THEN score.cadence ELSE FreshFull
      zero == IF score.cadence = 0 THEN FreshZero ELSE 3 * fresh
  IN IF age <= fresh THEN Whole ELSE IF age >= zero THEN 0
     ELSE (Whole * (zero - age)) \div (zero - fresh)

\* confidence_at: coverage times freshness, whatever the scores say.
ConfidenceAt(basis, t) ==
  FoldSet(LAMBDA f, sum : sum + Freshness(basis[f][1], t), 0,
          {f \in DOMAIN basis : basis[f] # <<>>}) \div Cardinality(Factors)

\* CurrencyStateService.state; a missing factor does not dilute the others.
State(rows, currency, t) ==
  LET basis == [f \in Factors |-> Score(rows, currency, f, t)]
      seen == {f \in Factors : basis[f] # <<>>}
      total == FoldSet(LAMBDA f, sum : sum + basis[f][1].value, 0, seen)
  IN IF seen = {} THEN <<>>
     ELSE <<[directional |-> total \div Cardinality(seen), basis |-> basis]>>

\* currency_snapshot: the currencies with at least one observation.
CurrencySnapshot(rows, t) == [c \in Currencies |-> State(rows, c, t)]

\* CurrencyStateStore.get after retime(t): state_at.
StateAt(state, t) ==
  IF state = <<>> THEN <<>>
  ELSE <<[directional |-> state[1].directional,
          confidence |-> ConfidenceAt(state[1].basis, t), known |-> t]>>

\* project_pair: there is a pair when there are both legs; two strong legs that
\* cancel cost confidence.
Pair(base, quote) ==
  IF base = <<>> \/ quote = <<>> THEN <<>>
  ELSE LET b == base[1]
           q == quote[1]
           floor == IF b.confidence < q.confidence THEN b.confidence ELSE q.confidence
           magnitude == Absolute(b.directional) + Absolute(q.directional)
           spread == Absolute(b.directional - q.directional)
       IN <<[directional |-> b.directional - q.directional,
             confidence |-> IF magnitude = 0 THEN floor
                            ELSE (floor * (magnitude + spread)) \div (2 * magnitude),
             known |-> IF b.known < q.known THEN q.known ELSE b.known]>>

\* default_currency_rules over the store: a missing feature is never above its
\* threshold.
Regimes(features) ==
  {label \in {"USD_POLICY_HAWKISH", "INTERVENTION_RISK_HIGH"} :
     IF label = "USD_POLICY_HAWKISH" THEN features.policy # <<>> /\ features.policy[1] > 0
     ELSE features.intervention # <<>> /\ features.intervention[2] > 1}

\* What a strategy reads at t of a store and of the states.
Reading(features, currencies, t) ==
  [features |-> features, regimes |-> Regimes(features),
   states |-> [c \in Currencies |-> StateAt(currencies[c], t)],
   pair |-> Pair(StateAt(currencies["GBP"], t), StateAt(currencies["USD"], t))]

\* What live reads at t: shadow refreshes in every cycle.
LiveReading(rows, t) == Reading(Snapshot(rows, t), CurrencySnapshot(rows, t), t)

-----------------------------------------------------------------------------
(* The replay. *)

\* observation_windows and the bounds of _replay_rows: where each read starts.
ReadStart(kind) ==
  CASE kind = "yield" -> Opening - (IF RateWindow > YieldWindow THEN RateWindow
                                    ELSE YieldWindow)
    [] kind = "release" -> Opening - ReleaseWindow
    [] kind = "meeting" -> -MaxTime
    [] kind = "action" -> Opening - (RecencyDays + 1) * DayLength

\* _replay_rows at known_end = MaxTime: the rows any snapshot can read.
ReplayRows(rows) ==
  UNION {KnownBefore(rows, kind, MaxTime, ReadStart(kind)) : kind \in Kinds}

\* change_instants and the expiries ReplayFeatureTimeline adds to them.
Instants(rows) ==
  {r.known : r \in ReplayRows(rows)} \cup {r.known + YieldWindow : r \in ReplayRows(rows)}

Init ==
  /\ db \in Datasets
  /\ unread = Kinds
  /\ frozen = {} /\ full = {} /\ ahead = {}
  /\ refreshed = 0 /\ now = 0
  /\ store = Snapshot({}, 0) /\ states = CurrencySnapshot({}, 0)
  /\ read = {} /\ manifest = {} /\ collects = 0

\* A collector inserts a row, at any time.
Collect(r) ==
  /\ collects < MaxCollects
  /\ r \notin db
  /\ db' = db \cup {r}
  /\ collects' = collects + 1
  /\ UNCHANGED <<unread, frozen, full, ahead, refreshed, now, store, states, read, manifest>>

\* frozen(): one query of one kind of row.
Freeze(kind) ==
  /\ now = 0 /\ kind \in unread
  /\ unread' = unread \ {kind}
  /\ frozen' = frozen \cup KnownBefore(db, kind, MaxTime, ReadStart(kind))
  /\ full' = full \cup {r \in db : r.kind = kind}
  /\ UNCHANGED <<db, ahead, refreshed, now, store, states, read, manifest, collects>>

\* The rows a refresh at t reads.
RowsRead(t) == {r \in frozen : r.known <= t}

\* StoredFeatureSource.refresh: both stores swap their whole contents.
Refresh(t) ==
  /\ store' = Snapshot(RowsRead(t), t)
  /\ states' = CurrencySnapshot(RowsRead(t), t)
  /\ refreshed' = t
  /\ read' = read \cup RowsRead(t)

\* ReplayFeatureTimeline.reset.
Reset ==
  /\ now = 0 /\ unread = {}
  /\ now' = Opening
  /\ ahead' = {i \in Instants(frozen) : i > Opening}
  /\ Refresh(Opening)
  /\ UNCHANGED <<db, unread, frozen, full, manifest, collects>>

\* Mutant: a new date alone does not recompute.
Due_Instants(t) == \E i \in ahead : i <= t
\* Whether advance recomputes: an instant was crossed, or the date changed.
Due(t) == (\E i \in ahead : i <= t) \/ Date(t) # Date(refreshed)

\* ReplayFeatureTimeline.advance on the next tick, at t; otherwise the states
\* are only retimed.
Advance(t) ==
  /\ now > 0 /\ t > now /\ manifest = {}
  /\ now' = t
  /\ ahead' = {i \in ahead : i > t}
  /\ IF Due(t) THEN Refresh(t) ELSE UNCHANGED <<store, states, refreshed, read>>
  /\ UNCHANGED <<db, unread, frozen, full, manifest, collects>>

\* dataset_fingerprint goes into the manifest when the run has ended.
WriteManifest ==
  /\ now > 0 /\ manifest = {}
  /\ manifest' = ReplayRows(frozen)
  /\ UNCHANGED <<db, unread, frozen, full, ahead, refreshed, now, store, states, read,
                 collects>>

Next ==
  \/ \E r \in Universe : Collect(r)
  \/ \E kind \in Kinds : Freeze(kind)
  \/ Reset
  \/ \E t \in Opening .. MaxTime : Advance(t)
  \/ WriteManifest

Spec == Init /\ [][Next]_vars

-----------------------------------------------------------------------------
ReplayReading == Reading(store, states, now)

\* A row that a factor reads has left the factor's window since the last
\* refresh: no instant is scheduled for it.
FactorLapsed(currency) ==
  \E r \in full, factor \in Factors :
    /\ r.kind = Input(currency, factor)
    /\ r.known + FactorWindow[r.kind] \in refreshed + 1 .. now

\* At every tick the replay reads the features, and the states of the
\* currencies, that a live refresh at that instant would have computed from
\* all the rows stored when it was prepared, except the state of a currency
\* one of whose rows left the window of its factor earlier the same day; and
\* the fingerprint of the manifest covers every row it has read.
ReplayIsLive ==
  now > 0 =>
    LET live == LiveReading(full, now)
    IN /\ ReplayReading.features = live.features
       /\ ReplayReading.regimes = live.regimes
       /\ \A c \in Currencies :
            FactorLapsed(c) \/ ReplayReading.states[c] = live.states[c]
       /\ (\E c \in Currencies : FactorLapsed(c)) \/ ReplayReading.pair = live.pair
       /\ manifest # {} => read \subseteq manifest
=============================================================================
