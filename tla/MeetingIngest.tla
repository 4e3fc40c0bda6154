--------------------------- MODULE MeetingIngest ---------------------------
(***************************************************************************)
(* The scores of policy meetings: the curated file with its meetings and   *)
(* its schedule (data/policy/meetings.py), the mechanical score            *)
(* (data/policy/scoring.py), the daily ingest (data/policy/collector.py)   *)
(* with PostgresEventRepository.upsert, and the score a reader gets.       *)
(*                                                                         *)
(* The file is written by people: results are transcribed after the        *)
(* meeting, corrected later, or entered twice by mistake.  Several ingests *)
(* may run at once, a new scoring version may be deployed between two of   *)
(* them, and one may be killed between two events.  The schedule is the    *)
(* calendar announced beforehand.                                          *)
(***************************************************************************)
EXTENDS Integers, Sequences, SequencesExt

CONSTANTS
  Banks,       \* banks with a scheduled meeting
  Scorable,    \* those with a scoring rule
  Date,        \* function: the date of a bank's meeting
  Latest,      \* function: the late bound of its publication
  Facts,       \* what may be transcribed: [bp, hawkish, dovish, forecast, language]
  Ingests,     \* ingesting processes
  MaxTime,     \* bound on the clock
  MaxEdits     \* bound on the edits of the file

VARIABLES
  now,       \* the clock
  file,      \* meetings: per scorable bank the sequence of its entries [facts, published]
  edits,     \* edits made so far
  version,   \* the scoring version deployed
  events,    \* function: event id -> stored fields
  run,       \* what each process is doing
  finished,  \* per version the latest start of a run that ended well
  settled    \* per version the file of its last run, <<>> if not alone

vars == <<now, file, edits, version, events, run, finished, settled>>

ScoringVersions == {1, 2}
Idle == [stage |-> "idle", at |-> 0, version |-> 0, left |-> <<>>, loaded |-> <<>>,
         alone |-> FALSE]

-----------------------------------------------------------------------------
(* The score, in halves; the second version weighs dissents double. *)

Clip(x) == Max({-4, Min({4, x})})
Sign(x) == IF x > 0 THEN 1 ELSE IF x < 0 THEN -1 ELSE 0

ScoreMeeting(v, f) ==
  Clip(4 * Sign(f.bp) + v * (f.hawkish - f.dovish) + f.forecast + f.language)

\* Deterministic per bank, meeting and scoring version.
EventId(v, bank) == [bank |-> bank, date |-> Date[bank], version |-> v]

EventFromMeeting(v, bank, entry) ==
  [id |-> EventId(v, bank),
   fields |-> [facts |-> entry.facts, knownAt |-> entry.published,
               score |-> ScoreMeeting(v, entry.facts), scoringVersion |-> v]]

\* Inserted, or the fact columns of the event with that id rewritten.
Upsert(table, e) ==
  [i \in DOMAIN table \cup {e.id} |-> IF i = e.id THEN e.fields ELSE table[i]]

-----------------------------------------------------------------------------
(* The file. *)

Duplicated(f) == \E b \in Scorable : Len(f[b]) > 1

\* A result is looked up by bank and date.
Transcribed(f, b) == f[b] # <<>>

\* Scheduled and scorable, past its bound, and not in the file.
UntranscribedOverdue(f, t) ==
  {b \in Banks : b \in Scorable /\ Latest[b] < t /\ ~Transcribed(f, b)}

\* The score a replay of version v reads at t.
LatestPolicyScore(v, b, t) ==
  {events[i].score : i \in {j \in DOMAIN events :
     j.bank = b /\ events[j].scoringVersion = v /\ events[j].knownAt <= t}}

-----------------------------------------------------------------------------
Init ==
  /\ now = 1
  /\ file = [b \in Scorable |-> <<>>]
  /\ edits = 0
  /\ version = 1
  /\ events = <<>>
  /\ run = [p \in Ingests |-> Idle]
  /\ finished = [v \in ScoringVersions |-> 0]
  /\ settled = [v \in ScoringVersions |-> <<>>]

Wait ==
  /\ now < MaxTime
  /\ now' = now + 1
  /\ UNCHANGED <<file, edits, version, events, run, finished, settled>>

Edit(b, entries) ==
  /\ edits < MaxEdits
  /\ edits' = edits + 1
  /\ file' = [file EXCEPT ![b] = entries]
  /\ UNCHANGED <<now, version, events, run, finished, settled>>

\* The results of a meeting that has been held are added, once or twice.
Transcribe(b) ==
  /\ Date[b] <= now /\ Len(file[b]) < 2
  /\ \E f \in Facts : Edit(b, Append(file[b], [facts |-> f, published |-> Latest[b]]))

\* An entry is corrected: its facts, or its publication to the actual minute.
Correct(b) ==
  /\ Len(file[b]) = 1
  /\ \E f \in Facts, t \in {Date[b], Latest[b]} :
       /\ f # file[b][1].facts \/ t # file[b][1].published
       /\ Edit(b, <<[facts |-> f, published |-> t]>>)

Untangle(b) ==
  /\ Len(file[b]) = 2
  /\ Edit(b, <<file[b][2]>>)

\* The weights are tuned anew under a new version.
Deploy ==
  /\ version = 1
  /\ version' = 2
  /\ UNCHANGED <<now, file, edits, events, run, finished, settled>>

\* A run loads the file and refuses it, or computes the events of its meetings.
Load(p) ==
  /\ run[p].stage = "idle"
  /\ ~Duplicated(file)
  /\ UntranscribedOverdue(file, now) = {}
  /\ LET banks == {b \in Scorable : file[b] # <<>>}
         meetings == SetToSeq(banks)
     IN  run' = [q \in Ingests |->
                   IF q = p
                   THEN [stage |-> "storing", at |-> now, version |-> version, loaded |-> <<file>>,
                         left |-> [k \in DOMAIN meetings |->
                                     EventFromMeeting(version, meetings[k], file[meetings[k]][1])],
                         alone |-> \A o \in Ingests : run[o].stage = "idle"]
                   ELSE [run[q] EXCEPT !.alone = FALSE]]
  /\ settled' = [settled EXCEPT ![version] = <<>>]
  /\ UNCHANGED <<now, file, edits, version, events, finished>>

\* One upsert, committed by itself.
Store(p) ==
  /\ run[p].left # <<>>
  /\ events' = Upsert(events, Head(run[p].left))
  /\ run' = [run EXCEPT ![p].left = Tail(@)]
  /\ UNCHANGED <<now, file, edits, version, finished, settled>>

Finish(p) ==
  /\ run[p].stage = "storing" /\ run[p].left = <<>>
  /\ run' = [run EXCEPT ![p] = Idle]
  /\ finished' = [finished EXCEPT ![run[p].version] = Max({@, run[p].at})]
  /\ settled' = IF run[p].alone THEN [settled EXCEPT ![run[p].version] = run[p].loaded]
                ELSE settled
  /\ UNCHANGED <<now, file, edits, version, events>>

\* A refusal, or the death of the process.
Stop(p) ==
  /\ run[p].stage = "storing"
  /\ run' = [run EXCEPT ![p] = Idle]
  /\ UNCHANGED <<now, file, edits, version, events, finished, settled>>

Next ==
  \/ Wait \/ Deploy
  \/ \E b \in Scorable : Transcribe(b) \/ Correct(b) \/ Untangle(b)
  \/ \E p \in Ingests : Load(p) \/ Store(p) \/ Finish(p) \/ Stop(p)

Spec == Init /\ [][Next]_vars

-----------------------------------------------------------------------------
\* A run that ends well has scored every meeting whose results were due when it
\* began, whatever the people who keep the file forgot.
NoneMissed ==
  \A v \in ScoringVersions, b \in Scorable :
    Latest[b] < finished[v] => EventId(v, b) \in DOMAIN events

\* Once a run went through alone, a replay of its version reads the file's
\* scores, from the publication on, whatever runs of another version store: a
\* correction reached the event stored before, and no other event is left.
FileIsRead ==
  \A v \in ScoringVersions : settled[v] # <<>> =>
    \A b \in Scorable, t \in 1 .. MaxTime :
      LatestPolicyScore(v, b, t) =
        {ScoreMeeting(v, e.facts) : e \in {x \in Range(settled[v][1][b]) : x.published <= t}}

\* Scores are those of the curated file (collector.py, upsert).
ScoresTrue == NoneMissed /\ FileIsRead
=============================================================================
