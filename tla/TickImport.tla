----------------------------- MODULE TickImport -----------------------------
(***************************************************************************)
(* DukascopyTickImporter.import_range (data/market/dukascopy.py): the      *)
(* hours of a range that have no ticks yet are fetched one by one and      *)
(* stored an hour at a time; after an outage, or a kill, the same command  *)
(* is run again.                                                           *)
(*                                                                         *)
(* A slot is half an hour of the range's time axis, an hour two of them.   *)
(* Nobody else writes the range meanwhile.  Bounds: Days of DayHours.      *)
(***************************************************************************)
EXTENDS Integers, FiniteSets

CONSTANTS
  Days, DayHours,
  Ahead,             \* slots the broker's labels are ahead
  Threshold,         \* OUTAGE_THRESHOLD
  MaxPauses,         \* OUTAGE_MAX_PAUSES
  Ranges             \* <<since, until>>, in slots

VARIABLES
  range,       \* of the command
  feed,        \* hours that have ticks at the server
  archive,     \* market_ticks: [label, source]
  stage,       \* "idle", "day", "hour", "returned"
  hour, check, failures, pauses, failed

vars == <<range, feed, archive, stage, hour, check, failures, pauses, failed>>
command == <<range, feed>>

Hours == 0 .. Days * DayHours - 1
Slots(h) == {2 * h, 2 * h + 1}
Label(s) == s + Ahead      \* known_to_broker_label
InRange(s) == s >= range[1] /\ s < range[2]
Asked == {h \in Hours : \E s \in Slots(h) : InRange(s)}
DayOf(h) == h \div DayHours
Exists(hs) == \E h \in hs, row \in archive : \E s \in Slots(h) : row.label = Label(s)

Init ==
  /\ range \in Ranges
  /\ feed \in SUBSET Hours
  /\ archive \in {{}} \cup {{[label |-> l, source |-> "MT5"]} : l \in {Label(s) : s \in 0 .. 2 * Days * DayHours - 1}}
  /\ stage = "idle"
  /\ hour = 0 /\ check = FALSE
  /\ failures = 0 /\ pauses = 0 /\ failed = 0

-----------------------------------------------------------------------------
Run ==
  /\ stage = "idle" /\ stage' = "day"
  /\ hour' = DayOf(range[1] \div 2) * DayHours
  /\ failures' = 0 /\ pauses' = 0 /\ failed' = 0 /\ check' = FALSE
  /\ UNCHANGED <<command, archive>>

\* The query that covers a day: only a day with ticks is asked hour by hour.
Day ==
  /\ stage = "day"
  /\ IF 2 * hour >= range[2]
     THEN stage' = "returned" /\ UNCHANGED check
     ELSE stage' = "hour" /\ check' = Exists({h \in Asked : DayOf(h) = DayOf(hour)})
  /\ UNCHANGED <<command, archive, hour, failures, pauses, failed>>

AfterPause == hour

GoTo(h) ==
  /\ hour' = h
  /\ stage' = IF DayOf(h) = DayOf(hour) THEN "hour" ELSE "day"

Pending == stage = "hour" /\ hour \in Asked /\ ~(check /\ Exists({hour}))

SkipHour ==
  /\ stage = "hour" /\ ~Pending
  /\ GoTo(hour + 1)
  /\ UNCHANGED <<command, archive, check, failures, pauses, failed>>

\* One of the tries of an hour succeeds: its ticks of the range are stored at once.
Fetched ==
  /\ Pending
  /\ LET slots == IF hour \in feed THEN {s \in Slots(hour) : InRange(s)} ELSE {}
     IN  archive' = archive \cup {[label |-> Label(s), source |-> "DUKASCOPY"] : s \in slots}
  /\ failures' = 0 /\ pauses' = 0
  /\ GoTo(hour + 1)
  /\ UNCHANGED <<command, check, failed>>

\* All tries fail: the hour is given up,
HourFails ==
  /\ Pending /\ failures + 1 < Threshold
  /\ failures' = failures + 1 /\ failed' = failed + 1
  /\ GoTo(hour + 1)
  /\ UNCHANGED <<command, archive, check, pauses>>

\* or, after others in a row, asked for again after a pause,
Pause ==
  /\ Pending /\ failures + 1 >= Threshold
  /\ pauses < MaxPauses
  /\ pauses' = pauses + 1
  /\ GoTo(AfterPause)
  /\ UNCHANGED <<command, archive, check, failures, failed>>

\* ServerOutageError.
GiveUp ==
  /\ Pending /\ failures + 1 >= Threshold
  /\ pauses = MaxPauses
  /\ stage' = "idle"
  /\ UNCHANGED <<command, archive, hour, check, failures, pauses, failed>>

Killed ==
  /\ stage # "idle" /\ stage' = "idle"
  /\ UNCHANGED <<command, archive, hour, check, failures, pauses, failed>>

Next == Run \/ Day \/ SkipHour \/ Fetched \/ HourFails \/ Pause \/ GiveUp \/ Killed

Spec == Init /\ [][Next]_vars

-----------------------------------------------------------------------------
(* Properties *)

\* Whatever runs were cut short before, a run that returns has left out no more hours
\* than it reports, and no hour has ticks of two sources (dukascopy.py, module
\* docstring: resuming by the same command, no mixing with the series of MT5).
ImportWhole ==
  LET Sources(h) == {row.source : row \in {r \in archive : \E s \in Slots(h) : r.label = Label(s)}}
      Has(h) == \A s \in Slots(h) : InRange(s) =>
                  [label |-> Label(s), source |-> "DUKASCOPY"] \in archive
  IN  /\ \A h \in Hours : Cardinality(Sources(h)) <= 1
      /\ stage = "returned" =>
           Cardinality({h \in Asked \cap feed : ~Has(h) /\ "MT5" \notin Sources(h)}) <= failed
=============================================================================
