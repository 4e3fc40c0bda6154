------------------------- MODULE InterventionIngest -------------------------
(***************************************************************************)
(* The official record of interventions: the ministry's daily history and  *)
(* its monthly pages (data/intervention/mof.py), the curated recognitions  *)
(* (data/intervention/episodes.py) and the ingest that archives the raw    *)
(* pages and then inserts the events that are new                          *)
(* (data/intervention/collector.py), each statement committed by itself.   *)
(*                                                                         *)
(* A row of the history appears some time before the bound its quarter     *)
(* gives and may be amended; a monthly page appears on its publication     *)
(* date.  Downloads that fail, pages that do not parse and kills end a     *)
(* run.                                                                    *)
(***************************************************************************)
EXTENDS Integers, Sequences, SequencesExt

CONSTANTS
  Days,        \* days of intervention in the history
  Appears,     \* function: when a day's row is published
  Bound,       \* function: quarter end + lag of a day
  Monthly,     \* publication instants of the monthly pages
  Recognized,  \* the recognition's known_at, before and after its correction
  Lookback,    \* DEFAULT_MONTHLY_LOOKBACK
  Ingests,     \* ingesting processes
  MaxTime      \* bound on the clock

VARIABLES
  now,        \* the clock
  amounts,    \* function: the amount the history gives a day
  curated,    \* known_at of the recognition in the curated file
  raws,       \* the archive: sequence of [uri, content, knownAt]
  events,     \* function: event id -> stored fields
  run,        \* what each process has fetched and not yet stored
  completed   \* starts of the runs that ended well

vars == <<now, amounts, curated, raws, events, run, completed>>

Csv == <<"csv", 0>>
Page(p) == <<"page", p>>
DailyId(d) == <<"daily", d>>
MonthlyId(p) == <<"monthly", p>>
RecognitionId == <<"recognition", 1>>
Idle == [at |-> 0, raws |-> <<>>, events |-> <<>>]

-----------------------------------------------------------------------------
\* The bound of the quarter, capped by the retrieval.
DailyKnownAt(d, retrievedAt) == Min({Bound[d], retrievedAt})

\* The history as it stands: one row per day published so far.
History(t) == {[day |-> d, amount |-> amounts[d]] : d \in {x \in Days : Appears[x] <= t}}

\* The pages of the index whose publication is inside the lookback.
Wanted(t) == {p \in Monthly : p <= t /\ p >= t - Lookback}

MonthlyAmount(p) == [page |-> p]

DailyEvent(d, t) ==
  [id |-> DailyId(d),
   fields |-> [uri |-> Csv, content |-> [day |-> d, amount |-> amounts[d]],
               knownAt |-> DailyKnownAt(d, t)]]

MonthlyEvent(p) ==
  [id |-> MonthlyId(p), fields |-> [uri |-> Page(p), content |-> MonthlyAmount(p),
                                     knownAt |-> p]]

Recognition ==
  [id |-> RecognitionId, fields |-> [uri |-> <<"curated", 0>>, content |-> "curated", knownAt |-> curated]]

\* The contents insert_raw_archive compares with: of the address's newest row, if any.
Newest(uri) ==
  LET rows == {k \in DOMAIN raws : raws[k].uri = uri}
      IsLast(n) == \A j \in rows : /\ raws[j].knownAt <= raws[n].knownAt
                                   /\ raws[j].knownAt = raws[n].knownAt => j <= n
  IN  {raws[n].content : n \in {k \in rows : IsLast(k)}}

InsertNew(table, e) ==
  IF e.id \in DOMAIN table THEN table
  ELSE [i \in DOMAIN table \cup {e.id} |-> IF i = e.id THEN e.fields ELSE table[i]]

-----------------------------------------------------------------------------
Init ==
  /\ now = 1
  /\ amounts = [d \in Days |-> 1]
  /\ curated = Recognized[1]
  /\ raws = <<>>
  /\ events = <<>>
  /\ run = [p \in Ingests |-> Idle]
  /\ completed = {}

Wait ==
  /\ now < MaxTime
  /\ now' = now + 1
  /\ UNCHANGED <<amounts, curated, raws, events, run, completed>>

\* The ministry amends a published amount.
Amend(d) ==
  /\ amounts[d] = 1 /\ Appears[d] <= now
  /\ amounts' = [amounts EXCEPT ![d] = 2]
  /\ UNCHANGED <<now, curated, raws, events, run, completed>>

\* The recognition is verified: its conservative bound becomes the actual time.
Verify ==
  /\ curated = Recognized[1]
  /\ curated' = Recognized[2]
  /\ UNCHANGED <<now, amounts, raws, events, run, completed>>

\* Everything is downloaded and parsed before anything is stored; a history
\* without a row is an error.
Collect(p) ==
  /\ run[p] = Idle
  /\ History(now) # {}
  /\ LET days == SetToSeq({d \in Days : Appears[d] <= now})
         pages == SetToSeq(Wanted(now))
     IN  run' = [run EXCEPT ![p] =
           [at |-> now,
            raws |-> <<[uri |-> Csv, content |-> History(now), knownAt |-> now]>>
                       \o [k \in DOMAIN pages |->
                             [uri |-> Page(pages[k]), content |-> {MonthlyAmount(pages[k])},
                              knownAt |-> now]],
            events |-> [k \in DOMAIN days |-> DailyEvent(days[k], now)]
                         \o [k \in DOMAIN pages |-> MonthlyEvent(pages[k])]
                         \o <<Recognition>>]]
  /\ UNCHANGED <<now, amounts, curated, raws, events, completed>>

ArchiveRaw(p) ==
  /\ run[p].raws # <<>>
  /\ LET r == Head(run[p].raws)
     IN  raws' = IF r.content \in Newest(r.uri) THEN raws ELSE Append(raws, r)
  /\ run' = [run EXCEPT ![p].raws = Tail(@)]
  /\ UNCHANGED <<now, amounts, curated, events, completed>>

InsertEvent(p) ==
  /\ run[p].raws = <<>> /\ run[p].events # <<>>
  /\ events' = InsertNew(events, Head(run[p].events))
  /\ run' = [run EXCEPT ![p].events = Tail(@)]
  /\ UNCHANGED <<now, amounts, curated, raws, completed>>

Finish(p) ==
  /\ run[p] # Idle /\ run[p].raws = <<>> /\ run[p].events = <<>>
  /\ run' = [run EXCEPT ![p] = Idle]
  /\ completed' = completed \cup {run[p].at}
  /\ UNCHANGED <<now, amounts, curated, raws, events>>

Stop(p) ==
  /\ run[p] # Idle
  /\ run' = [run EXCEPT ![p] = Idle]
  /\ UNCHANGED <<now, amounts, curated, raws, events, completed>>

Next ==
  \/ Wait \/ Verify
  \/ \E d \in Days : Amend(d)
  \/ \E p \in Ingests : \/ Collect(p) \/ ArchiveRaw(p) \/ InsertEvent(p)
                        \/ Finish(p) \/ Stop(p)

Spec == Init /\ [][Next]_vars

-----------------------------------------------------------------------------
\* No official figure without the page it was parsed from, wherever a run is
\* killed and however runs overlap.
Sourced ==
  \A i \in DOMAIN events : i # RecognitionId =>
    \E r \in Range(raws) : r.uri = events[i].uri /\ events[i].content \in r.content

\* A day's amount is known neither before it was published nor, once collected,
\* later than the bound.
PublishedFirst ==
  \A d \in Days : DailyId(d) \in DOMAIN events =>
    /\ events[DailyId(d)].knownAt >= Appears[d]
    /\ events[DailyId(d)].knownAt <= Bound[d]

\* Nothing is missed between runs that end well and lie no further apart than
\* the lookback: what the outage of one run left out the next one stores.
NoneSkipped ==
  \A t \in completed :
    /\ RecognitionId \in DOMAIN events
    /\ \A d \in Days : Appears[d] <= t => DailyId(d) \in DOMAIN events
    /\ \A p \in Monthly :
         (\E s \in completed \cup {1} : s <= p /\ p <= t /\ t - s <= Lookback)
           => MonthlyId(p) \in DOMAIN events

\* The official figures have their pages, dates and no holes (collector.py).
OfficialTrue == Sourced /\ PublishedFirst /\ NoneSkipped
=============================================================================
