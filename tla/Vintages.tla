------------------------------ MODULE Vintages ------------------------------
(***************************************************************************)
(* The revision history of one released figure: the statistics office's    *)
(* releases, forward collectors that store what they see when they see it  *)
(* and the ALFRED backfill (data/macro/alfred.py) that pulls the whole     *)
(* history in windows of vintage dates, both through the unchanged-value   *)
(* insert of PostgresMacroObservationRepository.  A pull takes time: other *)
(* collectors store, and the figure is revised, between its fetch and its  *)
(* store.                                                                  *)
(*                                                                         *)
(* Instants are release instants; the day-level precision of a vintage     *)
(* date and the registry's release times are left out, and ALFRED answers  *)
(* with every release so far.                                              *)
(***************************************************************************)
EXTENDS Integers, SequencesExt

CONSTANTS
  Values,           \* values the figure can have
  Collectors,       \* collecting processes
  WindowSize,       \* vintage dates per query
  MaxTime           \* bound on the clock

VARIABLES
  now,        \* the clock
  released,   \* the true history: sequence of [at, value]
  stored,     \* macro_observations of the figure: set of [at, value]
  batch,      \* what each collector has fetched and not stored
  pulled,     \* instant of the newest backfill stored, 0 when there is none
  seen        \* what forward collectors stored while no other fetch was open

vars == <<now, released, stored, batch, pulled, seen>>

-----------------------------------------------------------------------------
\* The value current at an instant, and the one a reader of the store sees.
Current(t) ==
  LET published == {r \in ToSet(released) : r.at <= t}
  IN  (CHOOSE r \in published : \A q \in published : q.at <= r.at).value

LatestBefore(table, t) ==
  LET rows == {r \in table : r.at < t}
  IN  {r \in rows : \A q \in rows : q.at <= r.at}

AsOf(t) == LatestBefore(stored, t + 1)

\* One row of insert_many: a vintage only when its value differs from the
\* vintage before it; a vintage already stored stays.
InsertOne(table, row) ==
  IF \/ \E r \in LatestBefore(table, row.at) : r.value = row.value
     \/ \E r \in table : r.at = row.at
  THEN table ELSE table \cup {row}

\* The windows: WindowSize vintage dates each, every date in exactly one.
VintageWindows(dates) ==
  [k \in 1 .. ((Len(dates) + WindowSize - 1) \div WindowSize) |->
     SubSeq(dates, (k - 1) * WindowSize + 1, Min({k * WindowSize, Len(dates)}))]

\* What one window's query returns: the vintages inside it and, clamped to its
\* first date, the one current when it opens.
Observations(window) ==
  LET start == Head(window).at
      within == {r \in ToSet(window) : r.at > start}
  IN  <<[at |-> start, value |-> Current(start)]>> \o
        FoldLeft(LAMBDA kept, r : IF r \in within THEN Append(kept, r) ELSE kept, <<>>, window)

-----------------------------------------------------------------------------
Init ==
  /\ now = 1
  /\ \E v \in Values : released = <<[at |-> 1, value |-> v]>>
  /\ stored = {}
  /\ batch = [c \in Collectors |-> [kind |-> "none", at |-> 0, rows |-> <<>>]]
  /\ pulled = 0
  /\ seen = {}

\* The clock moves; the figure may be released anew, changed or not.
Release ==
  /\ now < MaxTime
  /\ now' = now + 1
  /\ \E v \in Values :
       \/ released' = Append(released, [at |-> now + 1, value |-> v])
       \/ released' = released
  /\ UNCHANGED <<stored, batch, pulled, seen>>

\* A forward collector reads the current value, stamped with the retrieval.
FetchForward(c) ==
  /\ batch[c].kind = "none"
  /\ batch' = [batch EXCEPT ![c] =
       [kind |-> "forward", at |-> now,
        rows |-> <<[at |-> now, value |-> Current(now)]>>]]
  /\ UNCHANGED <<now, released, stored, pulled, seen>>

\* The backfill lists the vintage dates and queries one window at a time.
FetchBackfill(c) ==
  /\ batch[c].kind = "none"
  /\ batch' = [batch EXCEPT ![c] =
       [kind |-> "backfill", at |-> now,
        rows |-> FlattenSeq([k \in DOMAIN VintageWindows(released) |->
                               Observations(VintageWindows(released)[k])])]]
  /\ UNCHANGED <<now, released, stored, pulled, seen>>

\* The batch is stored row by row in one transaction.
Store(c) ==
  /\ batch[c].kind # "none"
  /\ stored' = FoldLeft(InsertOne, stored, batch[c].rows)
  /\ batch' = [batch EXCEPT ![c] = [kind |-> "none", at |-> 0, rows |-> <<>>]]
  /\ pulled' = IF batch[c].kind = "backfill" THEN Max({pulled, batch[c].at})
               ELSE pulled
  /\ seen' = IF /\ batch[c].kind = "forward"
                /\ \A d \in Collectors \ {c} : batch[d].kind = "none"
             THEN seen \cup {batch[c].at} ELSE seen
  /\ UNCHANGED <<now, released>>

\* The process fails before its batch is stored; a later run starts over.
Fail(c) ==
  /\ batch[c].kind # "none"
  /\ batch' = [batch EXCEPT ![c] = [kind |-> "none", at |-> 0, rows |-> <<>>]]
  /\ UNCHANGED <<now, released, stored, pulled, seen>>

Next ==
  \/ Release
  \/ \E c \in Collectors : \/ FetchForward(c)
                           \/ FetchBackfill(c)
                           \/ Store(c)
                           \/ Fail(c)

Spec == Init /\ [][Next]_vars

-----------------------------------------------------------------------------
\* What a replay reads as of an instant is never a value released after it:
\* the vintage a reader sees was current when it was stamped, whichever
\* collector stored it and in whichever order.
NoLookAhead ==
  \A t \in 1 .. now : \A r \in AsOf(t) : r.at <= t /\ r.value = Current(r.at)

\* Once a backfill is stored, every read up to its fetch is exact, though
\* forward rows were stored before, after and while it was pulled.
BackfilledExact ==
  \A t \in 1 .. pulled : {r.value : r \in AsOf(t)} = {Current(t)}

\* A value a forward collector stored undisturbed is what is read at that
\* instant, though unchanged values are not stored.
SeenIsRead ==
  \A t \in seen : {r.value : r \in AsOf(t)} = {Current(t)}

\* Vintages read back as they were known (insert_many, alfred.py).
VintagesTrue == NoLookAhead /\ BackfilledExact /\ SeenIsRead
=============================================================================
