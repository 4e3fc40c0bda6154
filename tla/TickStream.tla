----------------------------- MODULE TickStream -----------------------------
(***************************************************************************)
(* PostgresMarketTickRepository.stream_between: a replay reads the ticks   *)
(* of one symbol and period page by page, each page its own transaction,   *)
(* and yields its rows one by one, while writers keep appending            *)
(* (TickTable) and somebody may delete or update rows.  The set is pinned  *)
(* at the start by an id ceiling and one pass through the symbol's write   *)
(* key, and a closing count and content fingerprint turn a changed set     *)
(* into a failure.                                                         *)
(*                                                                         *)
(* The fingerprint is modelled as the set itself (no hash collisions), and *)
(* an UPDATE never restores an earlier content of its row: a change undone *)
(* between two reads is invisible to the code and outside the model.       *)
(* Bound: MaxChanges deletes and updates in a behaviour.                   *)
(***************************************************************************)
EXTENDS TickTable, SequencesExt

CONSTANTS
  Target,     \* the symbol streamed
  Start, Stop,\* event_time >= Start AND event_time < Stop
  PageRows,   \* _STREAM_BATCH_ROWS
  MaxChanges

ASSUME StreamAssumption ==
  /\ Target \in Symbol
  /\ Start \in Nat /\ Stop \in Nat
  /\ PageRows \in Nat \ {0}
  /\ MaxChanges \in Nat

VARIABLES
  reader,    \* where stream_between is
  ceiling,   \* the id ceiling
  expected,  \* count and fingerprint of the settled set
  page,      \* the rows of the page read last that are not yielded yet
  streamed,  \* the rows yielded
  changes    \* deletes and updates so far

readerVars == <<reader, ceiling, expected, page, streamed>>
vars == <<tableVars, readerVars, changes>>

Pinning == {"ceiling", "settling"}
Pinned == {"counting", "reading", "closing"}
Ended == {"done", "failed"}

Init ==
  /\ TableInit
  /\ reader = "ceiling"
  /\ ceiling = 0
  /\ expected = {}
  /\ page = {} /\ streamed = <<>>
  /\ changes = 0

\* WHERE symbol = %s AND event_time >= %s AND event_time < %s AND id <= %s
SettledSet ==
  {r \in rows : /\ r.tick.symbol = Target
                /\ r.tick.time \in Start .. Stop - 1
                /\ r.id <= ceiling}

\* ORDER BY event_time, id
Before_TimeOnly(a, b) == a.tick.time < b.tick.time
Before(a, b) == \/ a.tick.time < b.tick.time
                \/ a.tick.time = b.tick.time /\ a.id < b.id

\* AND (event_time, id) > (last)
Ahead == {r \in SettledSet : streamed = <<>> \/ Before(Last(streamed), r)}

\* ... LIMIT PageRows
IsPage(p) ==
  /\ p = Ahead \/ Cardinality(p) = PageRows
  /\ Cardinality(p) <= PageRows
  /\ \A r \in p, other \in Ahead \ p : ~Before(other, r)

ReadCeiling ==
  /\ reader = "ceiling"
  /\ \/ /\ rows = {}
        /\ reader' = "done"
        /\ UNCHANGED ceiling
     \/ /\ reader' = "settling"
        /\ \E r \in rows : IsCeiling(r.id) /\ ceiling' = r.id
  /\ UNCHANGED <<tableVars, expected, page, streamed, changes>>

Settle_Skipped ==
  /\ reader = "settling"
  /\ reader' = "counting"
  /\ UNCHANGED <<tableVars, ceiling, expected, page, streamed, changes>>
Settle ==
  /\ reader = "settling"
  /\ KeyFree(Target)
  /\ reader' = "counting"
  /\ UNCHANGED <<tableVars, ceiling, expected, page, streamed, changes>>

\* lock_timeout: RuntimeError, nothing streamed.
SettleTimeout ==
  /\ reader = "settling"
  /\ ~KeyFree(Target)
  /\ reader' = "failed"
  /\ UNCHANGED <<tableVars, ceiling, expected, page, streamed, changes>>

Count ==
  /\ reader = "counting"
  /\ expected' = SettledSet
  /\ reader' = "reading"
  /\ UNCHANGED <<tableVars, ceiling, page, streamed, changes>>

ReadPage ==
  /\ reader = "reading" /\ page = {}
  /\ \E p \in SUBSET Ahead : IsPage(p) /\ page' = p
  /\ reader' = IF Ahead = {} THEN "closing" ELSE "reading"
  /\ UNCHANGED <<tableVars, ceiling, expected, streamed, changes>>

\* The consumer takes the next row of the page.
Yield ==
  /\ reader = "reading"
  /\ \E r \in page : /\ \A other \in page \ {r} : ~Before(other, r)
                     /\ streamed' = Append(streamed, r)
                     /\ page' = page \ {r}
  /\ UNCHANGED <<tableVars, reader, ceiling, expected, changes>>

Unchanged_CountOnly == Len(streamed) = Cardinality(expected)
Unchanged == Len(streamed) = Cardinality(expected) /\ SettledSet = expected

Close ==
  /\ reader = "closing"
  /\ reader' = IF Unchanged THEN "done" ELSE "failed"
  /\ UNCHANGED <<tableVars, ceiling, expected, page, streamed, changes>>

Delete(r) ==
  /\ changes < MaxChanges
  /\ rows' = rows \ {r}
  /\ changes' = changes + 1
  /\ UNCHANGED <<nextId, owner, pc, batch, pending, begun, readerVars>>

\* UPDATE of the content of a row, within the unique constraint.
Update(r, t) ==
  /\ changes < MaxChanges
  /\ t.symbol = r.tick.symbol
  /\ \A other \in rows \ {r} : other.tick # t
  /\ rows' = (rows \ {r}) \cup {[id |-> r.id, tick |-> t, edition |-> r.edition + 1]}
  /\ changes' = changes + 1
  /\ UNCHANGED <<nextId, owner, pc, batch, pending, begun, readerVars>>

ReaderStep == ReadCeiling \/ Settle \/ SettleTimeout \/ Count \/ ReadPage \/ Yield \/ Close
Change == \E r \in rows : Delete(r) \/ \E t \in Tick : Update(r, t)

Next ==
  \/ \E w \in Writer : WriterStep(w) /\ UNCHANGED <<readerVars, changes>>
  \/ ReaderStep
  \/ Change

Spec == Init /\ [][Next]_vars
FairSpec == Spec /\ WriterFairness

-----------------------------------------------------------------------------
(* Properties *)

TypeOK ==
  /\ TableTypeOK
  /\ reader \in Pinning \cup Pinned \cup Ended
  /\ ceiling \in Nat
  /\ expected \subseteq Row /\ page \subseteq Row
  /\ streamed \in Seq(Row)
  /\ changes \in Nat

\* Once the reader has passed the write key, no open transaction can add a row
\* of its symbol at or below the ceiling, though ids and commits are in
\* different orders, writers take other symbols' keys meanwhile and two symbols
\* may share a key (the pin of stream_between).
PinHolds == reader \in Pinned => Settled(Target, ceiling)

\* Ids of rows of the symbol at or below the ceiling.
PinnedIds == {r.id : r \in {x \in rows : x.tick.symbol = Target /\ x.id <= ceiling}}

\* From the pin on, the rows a page can see only ever shrink: nothing an insert
\* does adds to the set the manifest digest describes.
PinnedNeverGrows == [][(reader \in Pinned) => PinnedIds' \subseteq PinnedIds]_vars

\* A stream that ends without an error has yielded the settled set, each row
\* once, in (event_time, id) order, whatever was inserted, deleted or updated
\* between its pages.
StreamExact ==
  /\ TypeOK
  /\ reader = "done" =>
       /\ {streamed[i] : i \in DOMAIN streamed} = expected
       /\ \A i \in 1 .. Len(streamed) - 1 : Before(streamed[i], streamed[i + 1])

\* The closing check never fails a replay nobody tampered with: appends alone,
\* in whatever order they commit, leave count and fingerprint as they were and
\* the pages reach every row, quotes of the same second included.
PinSuffices == [][(Close /\ changes = 0) => Unchanged]_vars

\* No cycle of writers waits for keys: a batch that waits ends, because keys are
\* taken in the order of the keys and not of the names that hash to them.
BatchesEnd == \A w \in Writer : pc[w] = "locking" ~> pc[w] = "idle"
=============================================================================
