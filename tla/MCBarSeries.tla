----------------------------- MODULE MCBarSeries -----------------------------
(***************************************************************************)
(* What feeds the candles, and the candles, for TLC: BarSeries, the        *)
(* collector that polls the broker (TickCollector), the importer of a      *)
(* history (TickImport) and the study that fetches a history of its own    *)
(* (FixStudy).  A behaviour runs one of them (part); the others stay in an *)
(* initial state.                                                          *)
(***************************************************************************)
EXTENDS BarSeries

VARIABLES
  part,
  market, table, last, tick, since,                                   \* TickCollector
  range, feed, archive, stage, hour, check, failures, pauses, failed, \* TickImport
  closed, server, folder, fetch, attempt, refusals, connection, study, report,
  faults                                                              \* FixStudy

collectorVars == <<market, table, last, tick, since>>
importVars == <<range, feed, archive, stage, hour, check, failures, pauses, failed>>
fixVars == <<closed, server, folder, fetch, attempt, refusals, connection, study, report,
             faults>>

Collector == INSTANCE TickCollector WITH
  Prices <- {"p", "q"}, GapMax <- 1, MaxQuotes <- 4, MaxTime <- 2

Ranges == {<<1, 11>>, <<2, 9>>}
Import == INSTANCE TickImport WITH
  Days <- 2, DayHours <- 3, Ahead <- 4, Threshold <- 3, MaxPauses <- 1

Fix == INSTANCE FixStudy WITH
  LastDay <- 4, MonthLength <- 3, PayDays <- {2}, Calendars <- {{2}, {3, 4, 5}, {}},
  Served <- {{}, {1, 2, 5}, {2, 3}}, MainPeriod <- [p1 |-> 1 .. 4, p2 |-> 2 .. 4],
  OandaPeriod <- [p1 |-> 2 .. 4, p2 |-> 3 .. 4], Seen <- {2, 3}, Retries <- 2,
  MaxFailures <- 2, MaxFaults <- 1, disk <- folder, failures <- refusals

PartsInit ==
  /\ part \in {"bars", "collector", "import", "fix"}
  /\ part = "fix" \/ (closed = {} /\ server = [d \in 1 .. 4 |-> {}])
  /\ Init /\ Collector!Init /\ Import!Init /\ Fix!Init
  /\ Cardinality({d \in 1 .. 4 : server[d] # {1, 2, 5}}) <= 2 \/ part # "fix"
  /\ IF part = "import" THEN Cardinality(Import!Hours \ feed) <= 2
     ELSE feed = {} /\ archive = {} /\ range = <<1, 11>>

PartsNext ==
  \/ /\ part = "bars" /\ Next
     /\ UNCHANGED <<part, collectorVars, importVars, fixVars>>
  \/ /\ part = "collector" /\ Collector!Next
     /\ UNCHANGED <<part, vars, importVars, fixVars>>
  \/ /\ part = "import" /\ Import!Next
     /\ UNCHANGED <<part, vars, collectorVars, fixVars>>
  \/ /\ part = "fix" /\ Fix!Next
     /\ UNCHANGED <<part, vars, collectorVars, importVars>>

PartsSpec ==
  /\ PartsInit
  /\ [][PartsNext]_<<part, vars, collectorVars, importVars, fixVars>>
  /\ (part = "bars" => Fairness)

-----------------------------------------------------------------------------
(* The properties of the parts, in this module's names. *)

\* BarSeries: passes of the service keep writing what is due.
PassesFlow == part = "bars" => BarsFlow
\* TickCollector: close polls lose nothing, and the polled quote reads back last.
\* TickImport: a run that returned left out no more hours than it reports.
QuotesAcquired == Collector!CollectorFaithful /\ []Import!ImportWhole
\* FixStudy: a report is the report of the frozen bytes, whatever failed.
ReportHonest == Fix!ReportHonest
=============================================================================
