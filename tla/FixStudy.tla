------------------------------- MODULE FixStudy -------------------------------
(***************************************************************************)
(* The Tokyo fix study (backtest/tokyo_fix_study.py): fetch freezes the    *)
(* holiday calendar and one file of ticks for each business day, and may   *)
(* be stopped and started again; quotes freezes the broker's quotes of the *)
(* same days; measure rests on the frozen files alone.                     *)
(*                                                                         *)
(* A file is created by its open and filled by its write: a process killed *)
(* between the two leaves it empty.  Digests are the contents themselves.  *)
(* Outside events: failed requests, kills, and a frozen file that changes. *)
(*                                                                         *)
(* Bounds: LastDay, the failures of a request, kills and changes of files. *)
(***************************************************************************)
EXTENDS Integers, FiniteSets, FiniteSetsExt, TLC

CONSTANTS
  LastDay,       \* fetch_range is 1 .. LastDay
  MonthLength,   \* days of a month
  PayDays,       \* gotobi_days; the end of the month is one too
  Calendars,     \* possible sets of days banks are closed
  Served,        \* what the server may hold of a day: sets of tick times
  MainPeriod,    \* by plan
  OandaPeriod,
  Seen,          \* days the broker's quotes are in the database
  Retries,       \* requests of one download
  MaxFailures,   \* failed requests of a behaviour
  MaxFaults      \* kills and changed files of a behaviour

Days == 1 .. LastDay
Plans == DOMAIN MainPeriod
NoFile == {-1}
NotFound == {-2}

VARIABLES
  closed, server,
  disk,          \* the output directory of fetch, and the quotes file
  fetch, attempt, failures, connection,
  study,         \* measure
  report,
  faults

vars == <<closed, server, disk, fetch, attempt, failures, connection, study, report, faults>>
world == <<closed, server>>
measuring == <<study, report>>

NoManifest == [state |-> "none", plan |-> "none", files |-> <<>>, missing |-> {}]
NoQuotes == [state |-> "none", plan |-> "none", manifest |-> NoManifest, seen |-> {}]
NoReport == [state |-> "none", plan |-> "none", prices |-> <<>>, absent |-> {}]
Idle == [pc |-> "idle", plan |-> "none", day |-> 1, files |-> <<>>, missing |-> {}]
NotMeasuring == [pc |-> "idle", plan |-> "none", day |-> 1, manifest |-> NoManifest,
                 prices |-> <<>>]

Init ==
  /\ closed \in Calendars
  /\ server \in [Days -> Served \cup {NotFound}]
  /\ disk = [marker |-> "none", holidays |-> "none", day |-> [d \in Days |-> NoFile],
             missing |-> [d \in Days |-> "none"], manifest |-> NoManifest, quotes |-> NoQuotes]
  /\ fetch = Idle /\ attempt = 0 /\ failures = 0 /\ connection = "closed"
  /\ study = NotMeasuring /\ report = NoReport
  /\ faults = 0

-----------------------------------------------------------------------------
(* The calendar *)

BusinessDay(d) == d \notin closed

NominalDays(month) == {(month - 1) * MonthLength + n : n \in PayDays \cup {MonthLength}}

\* A payment due on a closed day is made on the last business day before it.
Advanced(d) == Max({e \in (d - 2 * MonthLength) .. d : BusinessDay(e)})

MonthOf(d) == (d - 1) \div MonthLength + 1

GotobiDates(period) ==
  {Advanced(d) : d \in UNION {NominalDays(m + k) : m \in {MonthOf(e) : e \in period},
                                                   k \in {-1, 0, 1}}} \cap period

Windows == [entry |-> {1, 2}, exit |-> {4, 5}]
\* The first tick of a slot's window, or nothing.
Price(ticks, slot) ==
  IF ticks \cap Windows[slot] = {} THEN 0 ELSE Min(ticks \cap Windows[slot])

-----------------------------------------------------------------------------
(* fetch *)

Fetch(pc) == fetch' = [fetch EXCEPT !.pc = pc]
Quit == /\ fetch' = Idle /\ attempt' = 0 /\ connection' = "closed"

\* A fresh directory gets the plan's digest; one of another plan is refused.
Start(plan) ==
  /\ fetch.pc = "idle" /\ disk.manifest.state = "none"
  /\ \/ /\ disk.marker = "none"
        /\ disk' = [disk EXCEPT !.marker = "empty"]
        /\ fetch' = [Idle EXCEPT !.pc = "marker", !.plan = plan]
     \/ /\ disk.marker = plan
        /\ fetch' = [Idle EXCEPT !.pc = "holidays", !.plan = plan]
        /\ UNCHANGED disk
  /\ UNCHANGED <<world, attempt, failures, connection, measuring, faults>>

MarkPlan ==
  /\ fetch.pc = "marker"
  /\ disk' = [disk EXCEPT !.marker = fetch.plan]
  /\ Fetch("holidays")
  /\ UNCHANGED <<world, attempt, failures, connection, measuring, faults>>

KeepHolidays ==
  /\ fetch.pc = "holidays"
  /\ \/ /\ disk.holidays = "csv" /\ Fetch("day")
        /\ UNCHANGED <<disk, attempt, connection>>
     \/ disk.holidays = "empty" /\ Quit /\ UNCHANGED disk
     \/ /\ disk.holidays = "none"
        /\ disk' = [disk EXCEPT !.holidays = "empty"]
        /\ attempt' = 0 /\ connection' = "calendar"
        /\ Fetch("holidays_open")
  /\ UNCHANGED <<world, failures, measuring, faults>>

WriteHolidays ==
  /\ fetch.pc = "holidays_open"
  /\ disk' = [disk EXCEPT !.holidays = "csv"]
  /\ Fetch("day")
  /\ UNCHANGED <<world, attempt, failures, connection, measuring, faults>>

Asks ==
  \/ fetch.pc = "holidays" /\ disk.holidays = "none"
  \/ /\ fetch.pc = "day" /\ fetch.day \in Days /\ BusinessDay(fetch.day)
     /\ disk.missing[fetch.day] = "none" /\ disk.day[fetch.day] = NoFile

\* A request fails: the connection is dropped and tried again after a wait.
RequestFails ==
  /\ Asks /\ failures < MaxFailures
  /\ failures' = failures + 1
  /\ IF attempt + 1 = Retries
     THEN Quit
     ELSE attempt' = attempt + 1 /\ connection' = "closed" /\ UNCHANGED fetch
  /\ UNCHANGED <<world, disk, measuring, faults>>

NextDay == fetch.day + 1

SkipDay ==
  /\ fetch.pc = "day" /\ fetch.day \in Days
  /\ LET d == fetch.day
     IN  \/ /\ ~BusinessDay(d)
            /\ fetch' = [fetch EXCEPT !.day = NextDay]
            /\ UNCHANGED <<attempt, connection>>
         \/ /\ BusinessDay(d) /\ disk.missing[d] # "none"
            /\ IF disk.day[d] # NoFile \/ disk.missing[d] # "404"
               THEN Quit
               ELSE /\ fetch' = [fetch EXCEPT !.day = NextDay, !.missing = @ \cup {d}]
                    /\ UNCHANGED <<attempt, connection>>
         \/ /\ BusinessDay(d) /\ disk.missing[d] = "none" /\ disk.day[d] # NoFile
            /\ fetch' = [fetch EXCEPT !.day = NextDay, !.files = @ @@ (d :> disk.day[d])]
            /\ UNCHANGED <<attempt, connection>>
  /\ UNCHANGED <<world, disk, failures, measuring, faults>>

\* The answer is in memory, its file created.
OpenDay ==
  /\ fetch.pc = "day" /\ Asks
  /\ attempt' = 0 /\ connection' = "ticks"
  /\ LET d == fetch.day
     IN  IF server[d] = NotFound
         THEN disk' = [disk EXCEPT !.missing[d] = "empty"] /\ Fetch("missing_open")
         ELSE disk' = [disk EXCEPT !.day[d] = {}] /\ Fetch("day_open")
  /\ UNCHANGED <<world, failures, measuring, faults>>

WriteDay ==
  /\ fetch.pc \in {"day_open", "missing_open"}
  /\ LET d == fetch.day
     IN  IF fetch.pc = "missing_open"
         THEN /\ disk' = [disk EXCEPT !.missing[d] = "404"]
              /\ fetch' = [fetch EXCEPT !.pc = "day", !.day = NextDay, !.missing = @ \cup {d}]
         ELSE /\ disk' = [disk EXCEPT !.day[d] = server[d]]
              /\ fetch' = [fetch EXCEPT !.pc = "day", !.day = NextDay,
                                        !.files = @ @@ (d :> server[d])]
  /\ UNCHANGED <<world, attempt, failures, connection, measuring, faults>>

OpenManifest ==
  /\ fetch.pc = "day" /\ fetch.day > LastDay
  /\ disk' = [disk EXCEPT !.manifest.state = "empty"]
  /\ Fetch("manifest_open")
  /\ UNCHANGED <<world, attempt, failures, connection, measuring, faults>>

WriteManifest ==
  /\ fetch.pc = "manifest_open"
  /\ disk' = [disk EXCEPT !.manifest = [state |-> "complete", plan |-> fetch.plan,
                                        files |-> fetch.files, missing |-> fetch.missing]]
  /\ Quit
  /\ UNCHANGED <<world, failures, measuring, faults>>

Kill ==
  /\ fetch.pc # "idle" /\ faults < MaxFaults
  /\ Quit /\ faults' = faults + 1
  /\ UNCHANGED <<world, disk, failures, measuring>>

\* A frozen file is edited, or copied badly.
FileChanges(d) ==
  /\ disk.day[d] \notin {NoFile, {9}} /\ faults < MaxFaults
  /\ disk' = [disk EXCEPT !.day[d] = {9}]
  /\ faults' = faults + 1
  /\ UNCHANGED <<world, fetch, attempt, failures, connection, measuring>>

-----------------------------------------------------------------------------
(* quotes and measure *)

\* load_data: the manifest is the plan's, complete, and its files are unchanged.
DataLoads(plan) ==
  /\ disk.manifest.state = "complete" /\ disk.manifest.plan = plan
  /\ disk.holidays = "csv"
  /\ DOMAIN disk.manifest.files \cup disk.manifest.missing = {d \in Days : BusinessDay(d)}
  /\ DOMAIN disk.manifest.files \cap disk.manifest.missing = {}
  /\ \A d \in DOMAIN disk.manifest.files : disk.day[d] = disk.manifest.files[d]
  /\ \A d \in disk.manifest.missing : disk.missing[d] = "404"

FreezeQuotes(plan) ==
  /\ DataLoads(plan) /\ disk.quotes.state = "none"
  /\ disk' = [disk EXCEPT !.quotes = [state |-> "complete", plan |-> plan,
                manifest |-> disk.manifest,
                seen |-> {d \in OandaPeriod[plan] \cap Seen : BusinessDay(d)}]]
  /\ UNCHANGED <<world, fetch, attempt, failures, connection, measuring, faults>>

Measure(plan) ==
  /\ study.pc = "idle" /\ report.state = "none" /\ DataLoads(plan)
  /\ disk.quotes.state = "complete" /\ disk.quotes.plan = plan
  /\ disk.quotes.manifest = disk.manifest
  /\ study' = [NotMeasuring EXCEPT !.pc = "day", !.plan = plan, !.manifest = disk.manifest]
  /\ UNCHANGED <<world, disk, fetch, attempt, failures, connection, report, faults>>

\* The mean spread of the broker's gotobi days is the cost of every trade.
CostKnown(plan) == GotobiDates(OandaPeriod[plan]) \cap disk.quotes.seen # {}

\* Mutant: the bytes read now are not compared with the manifest's.
MeasureDay_Trusting ==
  /\ study.pc = "day" /\ study.day \in Days
  /\ LET d == study.day
         price == [slot \in {"entry", "exit"} |->
                     IF d \in DOMAIN study.manifest.files THEN Price(disk.day[d], slot) ELSE 0]
     IN  IF ~CostKnown(study.plan) /\ \A slot \in DOMAIN price : price[slot] # 0
         THEN study' = NotMeasuring
         ELSE study' = [study EXCEPT !.day = @ + 1, !.prices = @ @@ (d :> price)]
  /\ UNCHANGED <<world, disk, fetch, attempt, failures, connection, report, faults>>

\* One day is read again, checked against the manifest, and priced.
MeasureDay ==
  /\ study.pc = "day" /\ study.day \in Days
  /\ LET d == study.day
         frozen == d \in DOMAIN study.manifest.files
         price == [slot \in {"entry", "exit"} |->
                     IF frozen THEN Price(disk.day[d], slot) ELSE 0]
     IN  IF \/ frozen /\ disk.day[d] # study.manifest.files[d]
            \/ ~CostKnown(study.plan) /\ \A slot \in DOMAIN price : price[slot] # 0
         THEN study' = NotMeasuring
         ELSE study' = [study EXCEPT !.day = @ + 1, !.prices = @ @@ (d :> price)]
  /\ UNCHANGED <<world, disk, fetch, attempt, failures, connection, report, faults>>

\* The main group: gotobi days of the period, with those that lack a price apart.
WriteReport ==
  /\ study.pc = "day" /\ study.day > LastDay
  /\ LET main == {d \in GotobiDates(MainPeriod[study.plan]) : BusinessDay(d)}
         absent == {d \in main : \E slot \in {"entry", "exit"} : study.prices[d][slot] = 0}
     IN  report' = [state |-> "done", plan |-> study.plan, absent |-> absent,
                    prices |-> [d \in main \ absent |-> study.prices[d]]]
  /\ study' = NotMeasuring
  /\ UNCHANGED <<world, disk, fetch, attempt, failures, connection, faults>>

Next ==
  \/ \E plan \in Plans : Start(plan) \/ FreezeQuotes(plan) \/ Measure(plan)
  \/ MarkPlan \/ KeepHolidays \/ WriteHolidays \/ RequestFails \/ SkipDay \/ OpenDay
  \/ WriteDay \/ OpenManifest \/ WriteManifest \/ Kill
  \/ \E d \in Days : FileChanges(d)
  \/ MeasureDay \/ WriteReport

Spec == Init /\ [][Next]_vars

-----------------------------------------------------------------------------
(* Properties *)

\* Payments are made on d: some nominal day has only closed days after d up to it.
PaidOn(d) ==
  /\ BusinessDay(d)
  /\ \E m \in 0 .. (LastDay \div MonthLength) + 2 : \E n \in NominalDays(m) :
       n >= d /\ (d + 1) .. n \subseteq closed

\* Whatever was killed, refused, retried or edited on the way, a report is the
\* report of the manifest it names: of the plan the directory was fetched for,
\* with each payment day of the main period either priced from the frozen bytes
\* or listed as excluded (tokyo_fix_study.py measure), and no connection survives
\* a fetch.
ReportHonest ==
  /\ fetch.pc = "idle" => connection = "closed"
  /\ report.state = "done" =>
       LET frozen == disk.manifest
           main == {d \in MainPeriod[report.plan] : PaidOn(d)}
           Priced(d) == /\ d \in DOMAIN frozen.files
                        /\ frozen.files[d] \cap {1, 2} # {} /\ frozen.files[d] \cap {4, 5} # {}
       IN  /\ report.plan = frozen.plan /\ frozen.plan = disk.marker
           /\ DOMAIN report.prices = {d \in main : Priced(d)}
           /\ report.absent = main \ DOMAIN report.prices
           /\ \A d \in DOMAIN report.prices :
                /\ \A slot \in {"entry", "exit"} :
                     report.prices[d][slot] \in frozen.files[d] \cap Windows[slot]
                /\ \A t \in frozen.files[d] :
                     t < report.prices[d].exit => t \notin Windows["exit"]
=============================================================================
