-------------------------------- MODULE MCDesk --------------------------------
(***************************************************************************)
(* What is decided and what it is decided from, for TLC: the decision      *)
(* cycle with a triangle of pairs (MCDecisionCycle), the features a        *)
(* strategy reads (FeatureTimeline), the research that chooses and judges  *)
(* strategies (EventStudies, ExecutionQuality), and the dispatch of what   *)
(* was decided (OmsWorkers, one worker without faults).  A behaviour runs  *)
(* one of them (part); the others stay in an initial state.                *)
(***************************************************************************)
EXTENDS MCDecisionCycle

VARIABLES
  part,
  db, unread, frozen, full, ahead, refreshed, clock, store, states, read,
  manifest, inserts,                                               \* FeatureTimeline
  hour, price, candles, decisions, episodes,                       \* EventStudies
  second, order, observed, life, fills, result,                    \* ExecutionQuality
  instant, rows, orders, step, work, entries, sequence, requests, session, held, lingering,
  jobs, faults                                                     \* OmsWorkers

featureVars == <<db, unread, frozen, full, ahead, refreshed, clock, store, states, read,
                 manifest, inserts>>
eventVars == <<hour, price, candles, decisions, episodes>>
qualityVars == <<second, order, observed, life, fills, result>>
dispatchVars == <<instant, rows, orders, step, work, entries, sequence, requests, session, held,
                  lingering, jobs, faults>>

-----------------------------------------------------------------------------
\* A yield revised once, a monthly figure, meetings of which one was scored by an
\* older build, and an intervention recognised in two stages.
Row(kind, of, period, value, known) ==
  [kind |-> kind, of |-> of, period |-> period, value |-> value, known |-> known]
Rows ==
  {Row("yield", "USD", 0, 1, 1), Row("yield", "USD", 1, 3, 3), Row("yield", "USD", 1, 2, 5),
   Row("yield", "USD", 2, 1, 5), Row("release", "GBP", 0, 1, 2),
   Row("release", "GBP", 1, 3, 3), Row("release", "GBP", 2, 2, 6),
   Row("meeting", "USD", 1, 2, 1), Row("meeting", "USD", 2, -1, 1),
   Row("meeting", "USD", 2, 2, 4), Row("action", "JPY", 1, 1, 2),
   Row("action", "JPY", 1, 2, 4), Row("action", "JPY", 2, 1, 5)}

Features == INSTANCE FeatureTimeline WITH
  Universe <- Rows, Datasets <- {s \in SUBSET Rows : Cardinality(s) <= 3},
  Opening <- 3, DayLength <- 2, YieldWindow <- 3, RateWindow <- 4, ReleaseWindow <- 5,
  PolicyWindow <- 5, RecencyDays <- 1, Current <- 2, ZWindow <- 2, Window <- 2,
  MinObservations <- 2, ClipSigma <- 6, Bound <- 2, FreshFull <- 1, FreshZero <- 3,
  Whole <- 12, MaxTime <- 9, MaxCollects <- 1, now <- clock, collects <- inserts

Events == INSTANCE EventStudies WITH
  Moves <- {-4, -1, 0, 1}, DayCandles <- 3, HoleMinimum <- 3, Horizons <- {1, 2},
  ShockWindow <- 4, NewsMaxLag <- 3, ClusterDays <- 1, Lookback <- 2, Threshold <- 2,
  ForwardBars <- 1, PolicyWindow <- 2, MaxTime <- 6, MaxEvents <- 2, now <- hour

Quality == INSTANCE ExecutionQuality WITH
  Quantity <- 2, MaxTime <- 3, MaxChanges <- 3, Quotes <- {0, 2}, MaxAge <- 1,
  now <- second, states <- observed

\* Two ranked entries of two symbols, and a ticketed close created last.
Dispatcher == INSTANCE OmsWorkers WITH
  Worker <- {"w"}, Nobody <- "nobody", LeaseSeconds <- 2, SubmittingTimeout <- 1,
  Command <- {"c1", "c2", "c3"}, Ticketed <- {"c3"}, Forced <- {},
  Action <- [c \in {"c1", "c2", "c3"} |-> IF c = "c3" THEN "CLOSE" ELSE "OPEN"],
  SymbolOf <- [c \in {"c1", "c2", "c3"} |-> IF c = "c1" THEN "EURUSD" ELSE "USDJPY"],
  ExpiresAt <- [c \in {"c1", "c2", "c3"} |-> -1],
  Rank <- [c \in {"c1", "c2", "c3"} |-> IF c = "c1" THEN 2 ELSE IF c = "c2" THEN 1 ELSE -1],
  CreatedBefore <- {<<"c1", "c2">>, <<"c2", "c3">>, <<"c1", "c3">>},
  Quantity <- [c \in {"c1", "c2", "c3"} |-> 1],
  SymbolLimit <- 1, EntryLimit <- 1, Window <- 2, SendBound <- 1,
  MaxTime <- 4, MaxFaults <- 0, MaxJobs <- 0, MaxPosition <- 1,
  now <- instant, order <- orders, pc <- step, queue <- entries

-----------------------------------------------------------------------------
Parts == {"desk", "features", "policy", "intervention", "shock", "quality",
          "dispatch"}

PartsInit ==
  /\ part \in Parts
  /\ part = "desk" \/ ledger = NoPosition
  /\ part = "features" \/ db = {}
  /\ part = "policy" \/ decisions = {}
  /\ Init /\ Features!Init /\ Events!Init /\ Quality!Init /\ Dispatcher!Init

\* The policy study over a price that only rises, the intervention study over
\* falls and rises, the shock study over every move and one event of each kind.
EventsNext ==
  \/ /\ part = "policy"
     /\ \/ Events!Trade(1) \/ Events!Missing
        \/ \E d \in {<<"BOJ", 1, TRUE>>, <<"BOJ", -1, FALSE>>, <<"FED", -1, TRUE>>} :
             Events!Decide(d[1], d[2], d[3])
  \/ /\ part = "intervention"
     /\ \/ Events!Trade(1) \/ Events!Trade(-4) \/ Events!Missing
        \/ \E date \in 0 .. 2 : Events!Report(date)
  \/ /\ part = "shock"
     /\ \/ \E move \in {-4, -1, 0, 1} : Events!Trade(move)
        \/ hour >= 2 /\ Events!Missing
        \/ hour = 0 /\ episodes = {} /\ Events!Report(0)
        \/ hour = 4 /\ decisions = {} /\ Events!Decide("BOJ", 1, TRUE)

PartsNext ==
  \/ /\ part = "desk" /\ Next
     /\ UNCHANGED <<part, featureVars, eventVars, qualityVars, dispatchVars>>
  \/ /\ part = "features" /\ Features!Next
     /\ UNCHANGED <<part, vars, eventVars, qualityVars, dispatchVars>>
  \/ /\ EventsNext
     /\ UNCHANGED <<part, vars, featureVars, qualityVars, dispatchVars>>
  \/ /\ part = "quality" /\ Quality!Next
     /\ UNCHANGED <<part, vars, featureVars, eventVars, dispatchVars>>
  \/ /\ part = "dispatch" /\ Dispatcher!Next
     /\ UNCHANGED <<part, vars, featureVars, eventVars, qualityVars>>

PartsSpec ==
  /\ PartsInit
  /\ [][PartsNext]_<<part, vars, featureVars, eventVars, qualityVars,
                    dispatchVars>>

-----------------------------------------------------------------------------
(* The properties of the parts, in this module's names. *)

\* FeatureTimeline: at every tick a replay reads what live would have read.
ReplayIsLive == part = "features" => Features!ReplayIsLive
\* EventStudies: no stretch of prices counts twice, and no finding is taken back.
StudiesHonest ==
  part \in {"policy", "intervention", "shock"} => Events!StudiesHonest /\ Events!FindingsStand
\* ExecutionQuality: what the study says of an order was true of it.
ObservationHonest == Quality!ObservationHonest
\* OmsWorkers: a dispatcher keeps the broker's limits, never at an exit's cost.
DispatchOrderly == Dispatcher!DispatchOrderly
=============================================================================
