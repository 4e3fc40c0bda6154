-------------------------- MODULE OpinionsArchive --------------------------
(***************************************************************************)
(* The archive of the central bank's "summary of opinions":                *)
(* collect_opinions (data/policy/opinions_collector.py) of one or more     *)
(* processes, event_from_opinions, and latest_raw_hash and                 *)
(* insert_raw_archive of PostgresEventRepository.                          *)
(*                                                                         *)
(* A document is published at the instant its statement announced and may  *)
(* be replaced under the same address at any time, without notice.  The    *)
(* first version stored is known from the announced instant, every other   *)
(* one from its retrieval.  A version stands for the document's bytes and  *)
(* for their hash.                                                         *)
(***************************************************************************)
EXTENDS Integers, Sequences, FiniteSets

CONSTANTS
  Meetings,     \* sequence of the meetings in the file
  Collectors,   \* collecting processes
  Versions,     \* function: the texts a document can have
  Announced,    \* function: the publication instant a statement announces
  MaxTime       \* bound on the clock

VARIABLES
  now,       \* the clock
  page,      \* per meeting the function instant -> version, up to now
  archive,   \* events in the order of their created_at
  run,       \* what each process is doing
  taken,     \* what the last run of each process fetched of a meeting
  failures,  \* the meetings the last run of each process reported
  read       \* fetches no other process was open during: [meeting, at]

vars == <<now, page, archive, run, taken, failures, read>>

Documents == {Meetings[k] : k \in DOMAIN Meetings}
Nothing == "nothing"
Idle == [next |-> 0, stage |-> "idle", at |-> 0, latest |-> Nothing, alone |-> FALSE]

-----------------------------------------------------------------------------
\* known_at DESC, created_at DESC.
LatestRawHash(m, t) ==
  LET rows == {k \in DOMAIN archive : archive[k].meeting = m /\ archive[k].knownAt <= t}
      newest == {k \in rows : \A j \in rows : \/ archive[j].knownAt < archive[k].knownAt
                                              \/ archive[j].knownAt = archive[k].knownAt /\ j <= k}
  IN  IF rows = {} THEN Nothing ELSE archive[CHOOSE k \in newest : TRUE].version

Newest(m) == LatestRawHash(m, MaxTime)

EventFromOpinions(m, version, retrievedAt, isRevision) ==
  [meeting |-> m, version |-> version, retrievedAt |-> retrievedAt, revision |-> isRevision,
   knownAt |-> IF isRevision THEN retrievedAt ELSE Announced[m]]

-----------------------------------------------------------------------------
Init ==
  /\ now = 1
  /\ page \in {p \in [Documents -> [{1} -> UNION {Versions[m] : m \in Documents}]] :
              \A m \in Documents : p[m][1] \in Versions[m]}
  /\ archive = <<>>
  /\ run = [c \in Collectors |-> Idle]
  /\ taken = [c \in Collectors |-> [m \in Documents |-> Nothing]]
  /\ failures = [c \in Collectors |-> {}]
  /\ read = {}

\* Time passes; a document may have been replaced.
Republish ==
  /\ now < MaxTime
  /\ now' = now + 1
  /\ \E v \in [Documents -> UNION {Versions[m] : m \in Documents}] :
       /\ \A m \in Documents : v[m] \in Versions[m]
       /\ page' = [m \in Documents |-> [t \in 1 .. now + 1 |->
                                          IF t = now + 1 THEN v[m] ELSE page[m][t]]]
  /\ UNCHANGED <<archive, run, taken, failures, read>>

Meeting(c) == Meetings[run[c].next]
NextMeeting(c) ==
  IF run[c].next = Len(Meetings) THEN Idle
  ELSE [Idle EXCEPT !.next = run[c].next + 1, !.stage = "statement"]

\* The command line is run again.
Start(c) ==
  /\ run[c] = Idle
  /\ run' = [run EXCEPT ![c] = [Idle EXCEPT !.next = 1, !.stage = "statement"]]
  /\ taken' = [taken EXCEPT ![c] = [m \in Documents |-> Nothing]]
  /\ failures' = [failures EXCEPT ![c] = {}]
  /\ UNCHANGED <<now, page, archive, read>>

\* The statement announces an instant still to come: not published.
Unpublished(c) ==
  /\ run[c].stage = "statement"
  /\ Announced[Meeting(c)] > now
  /\ run' = [run EXCEPT ![c] = NextMeeting(c)]
  /\ UNCHANGED <<now, page, archive, taken, failures, read>>

Open(c) == run[c].stage \in {"fetched", "changed"}

\* The document is fetched.
Fetch(c) ==
  /\ run[c].stage = "statement"
  /\ Announced[Meeting(c)] <= now
  /\ run' = [d \in Collectors |->
               IF d = c THEN [run[c] EXCEPT !.stage = "fetched", !.at = now,
                                            !.alone = \A o \in Collectors \ {c} : ~Open(o)]
               ELSE [run[d] EXCEPT !.alone = FALSE]]
  /\ taken' = [taken EXCEPT ![c][Meeting(c)] = page[Meeting(c)][now]]
  /\ UNCHANGED <<now, page, archive, failures, read>>

Read(c) == IF run[c].alone THEN read \cup {[meeting |-> Meeting(c), at |-> run[c].at]} ELSE read

\* The newest hash stored decides whether the document is new, and whether it
\* is the first one.
Compare(c) ==
  /\ run[c].stage = "fetched"
  /\ LET latest == Newest(Meeting(c))
     IN  IF latest = taken[c][Meeting(c)]
         THEN /\ run' = [run EXCEPT ![c] = NextMeeting(c)]
              /\ read' = Read(c)
         ELSE /\ run' = [run EXCEPT ![c].stage = "changed", ![c].latest = latest]
              /\ UNCHANGED read
  /\ UNCHANGED <<now, page, archive, taken, failures>>

\* Another version was stored since this process decided its own was the first.
\* Mutant: the check of require_initial is dropped.
NoLongerInitial_Unchecked(c) == FALSE

NoLongerInitial(c) ==
  /\ run[c].latest = Nothing
  /\ Newest(Meeting(c)) \notin {Nothing, taken[c][Meeting(c)]}

\* insert_raw_archive under the advisory lock of the document: refused, left
\* out because the newest row has the same hash, or inserted.
Archive(c) ==
  /\ run[c].stage = "changed"
  /\ LET m == Meeting(c)
         row == EventFromOpinions(m, taken[c][m], run[c].at, run[c].latest # Nothing)
     IN  /\ archive' = IF NoLongerInitial(c) \/ Newest(m) = row.version
                       THEN archive ELSE Append(archive, row)
         /\ failures' = IF NoLongerInitial(c)
                        THEN [failures EXCEPT ![c] = @ \cup {m}] ELSE failures
         /\ read' = IF NoLongerInitial(c) THEN read ELSE Read(c)
  /\ run' = [run EXCEPT ![c] = NextMeeting(c)]
  /\ UNCHANGED <<now, page, taken>>

\* Any other exception is the failure of that meeting; the run goes on.
Fail(c) ==
  /\ run[c] # Idle
  /\ failures' = [failures EXCEPT ![c] = @ \cup {Meeting(c)}]
  /\ run' = [run EXCEPT ![c] = NextMeeting(c)]
  /\ UNCHANGED <<now, page, archive, taken, read>>

\* The process is killed between two statements.
Kill(c) ==
  /\ run[c] # Idle
  /\ run' = [run EXCEPT ![c] = Idle]
  /\ failures' = [failures EXCEPT ![c] = Documents]
  /\ UNCHANGED <<now, page, archive, taken, read>>

Next ==
  \/ Republish
  \/ \E c \in Collectors : \/ Start(c) \/ Unpublished(c) \/ Fetch(c) \/ Compare(c)
                           \/ Archive(c) \/ Fail(c) \/ Kill(c)

Spec == Init /\ [][Next]_vars

-----------------------------------------------------------------------------
Rows(m) == {k \in DOMAIN archive : archive[k].meeting = m}

\* One version at most is taken for the first: what a second process fetched
\* later never gets the announced instant.
OneInitial ==
  \A m \in Documents : Cardinality({k \in Rows(m) : ~archive[k].revision}) <= 1

\* A replay as of an instant reads no version that was put up after it, except
\* that the first version stored counts as the one announced.
NoLookAhead ==
  \A m \in Documents : \A k \in Rows(m) :
    IF archive[k].revision
    THEN page[m][archive[k].knownAt] = archive[k].version
    ELSE /\ archive[k].knownAt <= archive[k].retrievedAt
         /\ \A j \in Rows(m) : k <= j

\* What a process fetched undisturbed is what a reader of that instant gets,
\* though an unchanged document is not stored again and a late process may have
\* stored an older version after a newer one.
ReadIsStored ==
  \A r \in read : LatestRawHash(r.meeting, r.at) = page[r.meeting][r.at]

\* A run that does not report a meeting has stored what it fetched of it.
NothingLost ==
  \A c \in Collectors, m \in Documents :
    run[c] = Idle /\ m \notin failures[c] /\ taken[c][m] # Nothing
      => \E k \in Rows(m) : archive[k].version = taken[c][m]

\* The archive keeps every version at the instant it was known
\* (insert_raw_archive, opinions_collector.py).
ArchiveTrue == OneInitial /\ NoLookAhead /\ ReadIsStored /\ NothingLost
=============================================================================
