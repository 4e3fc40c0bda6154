------------------------------ MODULE TickTable ------------------------------
(***************************************************************************)
(* The table market_ticks and the writers that append to it                *)
(* (storage/postgres.py, PostgresMarketTickRepository.insert_many).  A     *)
(* writer takes the write key of every symbol of its batch before its      *)
(* INSERT allocates an id, and holds them until its commit: ids are        *)
(* allocated by INSERT, but transactions commit in another order.          *)
(*                                                                         *)
(* A write key is a transaction-level advisory lock on hashtext(symbol),   *)
(* so two symbols may share one (KeyOf).  PostgreSQL frees a transaction's *)
(* locks when it ends.  An id is burned by a conflict and by a rollback.   *)
(*                                                                         *)
(* Bound: MaxBatches batches are written in a behaviour.                   *)
(***************************************************************************)
EXTENDS Integers, FiniteSets, TLAPS

CONSTANTS
  Symbol,     \* names of instruments
  KeyOf,      \* [Symbol -> hashtext(symbol)]
  Tick,       \* quotes a feed delivers: [symbol, time, quote]
  Writer,     \* connections that insert: collectors and backfills
  Nobody,     \* the owner of a free key
  MaxBatches

ASSUME TableAssumption ==
  /\ KeyOf \in [Symbol -> Int]
  /\ \A t \in Tick : t.symbol \in Symbol /\ t.time \in Nat
  /\ Nobody \notin Writer
  /\ MaxBatches \in Nat

VARIABLES
  rows,     \* committed rows of market_ticks
  nextId,   \* the identity sequence of the table
  owner,    \* which writer holds each write key
  pc,       \* where each writer is in insert_many
  batch,    \* the ticks a writer has not inserted yet
  pending,  \* the rows of a writer's open transaction
  begun     \* batches begun so far

tableVars == <<rows, nextId, owner, pc, batch, pending, begun>>

Key == {KeyOf[s] : s \in Symbol}

\* edition counts the UPDATEs a row has seen; insert_many writes edition 0.
Row == [id: Nat \ {0}, tick: Tick, edition: Nat]
NewRow(t) == [id |-> nextId, tick |-> t, edition |-> 0]

TableInit ==
  /\ rows = {}
  /\ nextId = 1
  /\ owner = [k \in Key |-> Nobody]
  /\ pc = [w \in Writer |-> "idle"]
  /\ batch = [w \in Writer |-> {}]
  /\ pending = [w \in Writer |-> {}]
  /\ begun = 0

-----------------------------------------------------------------------------
(* insert_many *)

\* A non-empty batch; SELECT DISTINCT hashtext(symbol) names its keys.
Begin(w, ticks) ==
  /\ pc[w] = "idle"
  /\ ticks # {}
  /\ begun < MaxBatches
  /\ pc' = [pc EXCEPT ![w] = "locking"]
  /\ batch' = [batch EXCEPT ![w] = ticks]
  /\ begun' = begun + 1
  /\ UNCHANGED <<rows, nextId, owner, pending>>

MissingKeys(w) == {KeyOf[t.symbol] : t \in batch[w]} \ {k \in Key : owner[k] = w}

\* "for key in sorted(...)": the smallest key not held yet, when it is free.
NextKey_AnyOrder(w, k) == k \in MissingKeys(w)
NextKey(w, k) == k \in MissingKeys(w) /\ \A other \in MissingKeys(w) : k <= other

LockNext(w) ==
  /\ pc[w] = "locking"
  /\ \E k \in Key :
       /\ NextKey(w, k)
       /\ owner[k] = Nobody
       /\ owner' = [owner EXCEPT ![k] = w]
  /\ UNCHANGED <<rows, nextId, pc, batch, pending, begun>>

AllLocked_TooEarly(w) ==
  /\ pc[w] = "locking"
  /\ pc' = [pc EXCEPT ![w] = "inserting"]
  /\ UNCHANGED <<rows, nextId, owner, batch, pending, begun>>
AllLocked(w) ==
  /\ pc[w] = "locking"
  /\ MissingKeys(w) = {}
  /\ pc' = [pc EXCEPT ![w] = "inserting"]
  /\ UNCHANGED <<rows, nextId, owner, batch, pending, begun>>

\* ON CONFLICT (symbol, event_time, bid, ask) DO NOTHING: against committed
\* rows and the writer's own.  An open row of another writer makes it wait.
Conflicts(w, t) == \E r \in rows \cup pending[w] : r.tick = t
Blocked(w, t) == \E other \in Writer \ {w} : \E r \in pending[other] : r.tick = t

InsertRow(w, t) ==
  /\ pc[w] = "inserting"
  /\ t \in batch[w]
  /\ ~Blocked(w, t)
  /\ nextId' = nextId + 1
  /\ pending' = [pending EXCEPT ![w] = IF Conflicts(w, t) THEN @ ELSE @ \cup {NewRow(t)}]
  /\ batch' = [batch EXCEPT ![w] = @ \ {t}]
  /\ UNCHANGED <<rows, owner, pc, begun>>

\* The transaction ends: its keys are free, its rows visible or gone.
End(w) ==
  /\ owner' = [k \in Key |-> IF owner[k] = w THEN Nobody ELSE owner[k]]
  /\ pc' = [pc EXCEPT ![w] = "idle"]
  /\ batch' = [batch EXCEPT ![w] = {}]
  /\ pending' = [pending EXCEPT ![w] = {}]
  /\ UNCHANGED <<nextId, begun>>

Commit(w) ==
  /\ pc[w] = "inserting"
  /\ batch[w] = {}
  /\ rows' = rows \cup pending[w]
  /\ End(w)

\* The connection breaks or a statement fails at any point of the batch.
Rollback(w) ==
  /\ pc[w] # "idle"
  /\ UNCHANGED rows
  /\ End(w)

Insert(w) == \E t \in batch[w] : InsertRow(w, t)

WriterStep(w) ==
  \/ \E ticks \in SUBSET Tick : Begin(w, ticks)
  \/ LockNext(w)
  \/ AllLocked(w)
  \/ Insert(w)
  \/ Commit(w)
  \/ Rollback(w)

\* A waiter of an advisory lock is served in turn, a connection runs its batch.
WriterFairness ==
  \A w \in Writer : SF_tableVars(LockNext(w)) /\ WF_tableVars(AllLocked(w) \/ Insert(w) \/ Commit(w))

-----------------------------------------------------------------------------
(* What a reader pins *)

\* The answer of SELECT max(id) FROM market_ticks on a table that is not empty.
IsCeiling(top) == /\ \E r \in rows : r.id = top
                  /\ \A r \in rows : r.id <= top

\* Acquiring and releasing the key of a symbol succeeds when nobody holds it.
KeyFree(s) == owner[KeyOf[s]] = Nobody

\* Nothing more can surface among the rows of s up to the ceiling.
Settled(s, ceiling) ==
  /\ ceiling < nextId
  /\ \A w \in Writer : \A r \in pending[w] : r.tick.symbol = s => r.id > ceiling

-----------------------------------------------------------------------------
(* Invariants of the writers *)

TableTypeOK ==
  /\ rows \subseteq Row
  /\ nextId \in Nat \ {0}
  /\ owner \in [Key -> Writer \cup {Nobody}]
  /\ pc \in [Writer -> {"idle", "locking", "inserting"}]
  /\ batch \in [Writer -> SUBSET Tick]
  /\ pending \in [Writer -> SUBSET Row]
  /\ begun \in Nat

\* Ids come from the sequence, and a row is open only under its symbol's key.
IdsAllocated ==
  /\ \A r \in rows : r.id < nextId
  /\ \A w \in Writer : \A r \in pending[w] : r.id < nextId
KeysHeld ==
  \A w \in Writer :
    /\ \A r \in pending[w] : owner[KeyOf[r.tick.symbol]] = w
    /\ pc[w] = "inserting" => MissingKeys(w) = {}
-----------------------------------------------------------------------------
(* What every reader of market_ticks can rely on, for every set of         *)
(* writers, symbols and keys, colliding or not: a row is open only under   *)
(* its symbol's key and with an id the sequence has passed, so whoever     *)
(* finds the key free has a settled set below an id read earlier, and the  *)
(* writers never change that set again.                                    *)

TableInv == TableTypeOK /\ IdsAllocated /\ KeysHeld

-----------------------------------------------------------------------------
(* The invariant of the writers *)

LEMMA TableInitInv == TableInit => TableInv
  <1> SUFFICES ASSUME TableInit PROVE TableInv
    OBVIOUS
  <1>1. TableTypeOK
    BY DEF TableInit, TableTypeOK
  <1>2. IdsAllocated /\ KeysHeld
    BY DEF TableInit, IdsAllocated, KeysHeld
  <1>3. QED
    BY <1>1, <1>2 DEF TableInv

LEMMA BeginInv ==
  ASSUME TableInv, NEW w \in Writer, NEW quotes \in SUBSET Tick, Begin(w, quotes)
  PROVE  TableInv'
  <1> USE DEF TableInv
  <1>1. TableTypeOK'
    BY DEF Begin, TableTypeOK
  <1>2. IdsAllocated'
    BY DEF Begin, IdsAllocated
  <1>3. KeysHeld'
    <2>1. \A v \in Writer : pc'[v] = "inserting" => v # w /\ pc[v] = "inserting"
      BY DEF Begin, TableTypeOK
    <2>2. \A v \in Writer \ {w} : batch'[v] = batch[v]
      BY DEF Begin, TableTypeOK
    <2>3. QED
      BY <2>1, <2>2 DEF Begin, KeysHeld, MissingKeys
  <1>4. QED
    BY <1>1, <1>2, <1>3

LEMMA LockNextInv ==
  ASSUME TableInv, NEW w \in Writer, LockNext(w)
  PROVE  TableInv'
  <1> USE DEF TableInv
  <1>1. PICK k \in Key : owner[k] = Nobody /\ owner' = [owner EXCEPT ![k] = w]
    BY DEF LockNext
  <1>2. \A v \in Writer, j \in Key : owner[j] = v => owner'[j] = v
    BY <1>1, TableAssumption DEF TableTypeOK
  <1>3. TableTypeOK'
    BY <1>1 DEF LockNext, TableTypeOK
  <1>4. IdsAllocated'
    BY DEF LockNext, IdsAllocated
  <1>5. KeysHeld'
    <2>1. \A v \in Writer : \A r \in pending[v] : KeyOf[r.tick.symbol] \in Key
      BY TableAssumption DEF TableTypeOK, Row, Key
    <2>2. \A v \in Writer : MissingKeys(v)' \subseteq MissingKeys(v)
      BY <1>2 DEF MissingKeys, LockNext
    <2>3. QED
      BY <1>2, <2>1, <2>2 DEF LockNext, KeysHeld
  <1>6. QED
    BY <1>3, <1>4, <1>5

LEMMA AllLockedInv ==
  ASSUME TableInv, NEW w \in Writer, AllLocked(w)
  PROVE  TableInv'
  <1> USE DEF TableInv
  <1>1. TableTypeOK'
    BY DEF AllLocked, TableTypeOK
  <1>2. IdsAllocated'
    BY DEF AllLocked, IdsAllocated
  <1>3. KeysHeld'
    <2>1. \A v \in Writer : pc'[v] = "inserting" => v = w \/ pc[v] = "inserting"
      BY DEF AllLocked, TableTypeOK
    <2>2. QED
      BY <2>1 DEF AllLocked, KeysHeld, MissingKeys
  <1>4. QED
    BY <1>1, <1>2, <1>3

\* The row an INSERT adds, if any.
LEMMA InsertedRow ==
  ASSUME TableInv, NEW w \in Writer, NEW t \in batch[w], InsertRow(w, t)
  PROVE  /\ pending[w] \subseteq pending'[w]
         /\ \A r \in pending'[w] \ pending[w] : r = NewRow(t)
         /\ \A v \in Writer \ {w} : pending'[v] = pending[v]
         /\ NewRow(t) \in Row
         /\ owner[KeyOf[t.symbol]] = w
  <1> USE DEF TableInv
  <1>1. t \in Tick
    BY DEF TableTypeOK
  <1>2. owner[KeyOf[t.symbol]] = w
    <2>1. KeyOf[t.symbol] \in Key
      BY <1>1, TableAssumption DEF Key
    <2>2. KeyOf[t.symbol] \notin MissingKeys(w)
      BY DEF InsertRow, KeysHeld
    <2>3. QED
      BY <2>1, <2>2 DEF MissingKeys
  <1>3. NewRow(t) \in Row
    BY <1>1 DEF NewRow, Row, TableTypeOK
  <1>4. pending' = [pending EXCEPT ![w] = IF Conflicts(w, t) THEN @ ELSE @ \cup {NewRow(t)}]
    BY DEF InsertRow
  <1>5. QED
    BY <1>2, <1>3, <1>4 DEF TableTypeOK

LEMMA InsertRowInv ==
  ASSUME TableInv, NEW w \in Writer, NEW t \in batch[w], InsertRow(w, t)
  PROVE  TableInv'
  <1> USE DEF TableInv
  <1>1. /\ pending[w] \subseteq pending'[w]
        /\ \A r \in pending'[w] \ pending[w] : r = NewRow(t)
        /\ \A v \in Writer \ {w} : pending'[v] = pending[v]
        /\ NewRow(t) \in Row
        /\ owner[KeyOf[t.symbol]] = w
    BY InsertedRow
  <1>2. NewRow(t).id = nextId /\ NewRow(t).tick = t
    BY DEF NewRow
  <1>3. TableTypeOK'
    <2>1. pending' \in [Writer -> SUBSET Row]
      BY <1>1 DEF InsertRow, TableTypeOK
    <2>2. batch' \in [Writer -> SUBSET Tick]
      BY DEF InsertRow, TableTypeOK
    <2>3. QED
      BY <2>1, <2>2 DEF InsertRow, TableTypeOK
  <1>4. IdsAllocated'
    <2>1. nextId \in Nat /\ nextId' = nextId + 1 /\ rows' = rows
      BY DEF InsertRow, TableTypeOK
    <2>2. \A r \in rows : r.id \in Nat
      BY DEF TableTypeOK, Row
    <2>3. \A v \in Writer : \A r \in pending'[v] : r.id \in Nat /\ (r \in pending[v] \/ r.id = nextId)
      BY <1>1, <1>2, <2>1 DEF TableTypeOK, Row
    <2>4. QED
      BY <2>1, <2>2, <2>3 DEF IdsAllocated
  <1>5. KeysHeld'
    <2>1. owner' = owner /\ pc' = pc
      BY DEF InsertRow
    <2>2. \A v \in Writer : \A r \in pending'[v] : owner[KeyOf[r.tick.symbol]] = v
      BY <1>1, <1>2 DEF KeysHeld
    <2>3. \A v \in Writer : batch'[v] \subseteq batch[v]
      BY DEF InsertRow, TableTypeOK
    <2>4. \A v \in Writer : MissingKeys(v)' \subseteq MissingKeys(v)
      BY <2>1, <2>3 DEF MissingKeys
    <2>5. QED
      BY <2>1, <2>2, <2>4 DEF KeysHeld
  <1>6. QED
    BY <1>3, <1>4, <1>5

\* Commit and rollback end the transaction and disturb no other writer.
LEMMA EndFacts ==
  ASSUME TableInv, NEW w \in Writer, End(w)
  PROVE  /\ pending'[w] = {} /\ pc'[w] = "idle"
         /\ \A v \in Writer \ {w} : /\ pending'[v] = pending[v]
                                    /\ batch'[v] = batch[v]
                                    /\ pc'[v] = pc[v]
         /\ \A v \in Writer \ {w}, k \in Key : owner[k] = v => owner'[k] = v
         /\ owner' \in [Key -> Writer \cup {Nobody}]
         /\ pc' \in [Writer -> {"idle", "locking", "inserting"}]
         /\ batch' \in [Writer -> SUBSET Tick]
         /\ pending' \in [Writer -> SUBSET Row]
  BY TableAssumption DEF TableInv, TableTypeOK, End

LEMMA EndInv ==
  ASSUME TableInv, NEW w \in Writer, End(w), rows' \subseteq rows \cup pending[w]
  PROVE  TableInv'
  <1> USE DEF TableInv
  <1>1. TableTypeOK'
    <2>1. rows' \subseteq Row
      BY DEF TableTypeOK
    <2>2. nextId' = nextId /\ begun' = begun
      BY DEF End
    <2>3. QED
      BY <2>1, <2>2, EndFacts DEF TableTypeOK
  <1>2. IdsAllocated'
    <2>1. nextId' = nextId
      BY DEF End
    <2>2. \A v \in Writer : pending'[v] \subseteq pending[v]
      BY EndFacts
    <2>3. QED
      BY <2>1, <2>2 DEF IdsAllocated
  <1>3. KeysHeld'
    <2>1. \A v \in Writer : \A r \in pending[v] : KeyOf[r.tick.symbol] \in Key
      BY TableAssumption DEF TableTypeOK, Row, Key
    <2>2. \A v \in Writer \ {w} : MissingKeys(v)' \subseteq MissingKeys(v)
      BY EndFacts DEF MissingKeys
    <2>3. ASSUME NEW v \in Writer
          PROVE  /\ \A r \in pending'[v] : owner'[KeyOf[r.tick.symbol]] = v
                 /\ pc'[v] = "inserting" => MissingKeys(v)' = {}
      <3>1. CASE v = w
        BY <3>1, EndFacts
      <3>2. CASE v # w
        BY <3>2, <2>1, <2>2, EndFacts DEF KeysHeld
      <3>3. QED
        BY <3>1, <3>2
    <2>4. QED
      BY <2>3 DEF KeysHeld
  <1>4. QED
    BY <1>1, <1>2, <1>3

LEMMA WriterInv ==
  ASSUME TableInv, NEW w \in Writer, WriterStep(w)
  PROVE  TableInv'
  <1>1. CASE \E quotes \in SUBSET Tick : Begin(w, quotes)
    BY <1>1, BeginInv
  <1>2. CASE LockNext(w)
    BY <1>2, LockNextInv
  <1>3. CASE AllLocked(w)
    BY <1>3, AllLockedInv
  <1>4. CASE Insert(w)
    BY <1>4, InsertRowInv DEF Insert
  <1>5. CASE Commit(w)
    BY <1>5, EndInv DEF Commit
  <1>6. CASE Rollback(w)
    BY <1>6, EndInv DEF Rollback
  <1>7. QED
    BY <1>1, <1>2, <1>3, <1>4, <1>5, <1>6 DEF WriterStep

-----------------------------------------------------------------------------
(* The pin *)

\* A ceiling the table has had, and then the key found free: settled.
LEMMA FreeKeySettles ==
  ASSUME TableInv, NEW s \in Symbol, NEW ceiling \in Nat, ceiling < nextId, KeyFree(s)
  PROVE  Settled(s, ceiling)
  <1>1. \A w \in Writer : \A r \in pending[w] : r.tick.symbol # s
    BY TableAssumption DEF TableInv, KeysHeld, KeyFree
  <1>2. QED
    BY <1>1 DEF Settled

\* The ceiling a reader gets is an id the sequence has passed.
LEMMA CeilingPassed ==
  ASSUME TableInv, NEW top, IsCeiling(top)
  PROVE  top \in Nat /\ top < nextId
  BY DEF TableInv, TableTypeOK, IdsAllocated, IsCeiling, Row

\* The sequence never goes back.
LEMMA SequenceAdvances ==
  ASSUME TableInv, NEW w \in Writer, WriterStep(w)
  PROVE  nextId' \in Nat /\ nextId <= nextId'
  BY DEF TableInv, TableTypeOK, WriterStep, Begin, LockNext, AllLocked, Insert,
         InsertRow, Commit, Rollback, End

\* A writer's step shows a reader no row of the symbol at or below the ceiling
\* and takes none away, and leaves the set settled.
LEMMA SettledKept ==
  ASSUME TableInv, NEW w \in Writer, WriterStep(w),
         NEW s \in Symbol, NEW ceiling \in Nat, Settled(s, ceiling)
  PROVE  /\ Settled(s, ceiling)'
         /\ rows \subseteq rows'
         /\ \A r \in rows' \ rows : r.tick.symbol = s => r.id > ceiling
  <1> USE DEF TableInv
  <1>1. ceiling < nextId'
    BY SequenceAdvances DEF Settled, TableTypeOK
  <1>2. CASE (\E quotes \in SUBSET Tick : Begin(w, quotes)) \/ LockNext(w) \/ AllLocked(w)
    BY <1>1, <1>2 DEF Begin, LockNext, AllLocked, Settled
  <1>3. CASE Insert(w)
    <2>1. PICK t \in batch[w] : InsertRow(w, t)
      BY <1>3 DEF Insert
    <2>2. rows' = rows
      BY <2>1 DEF InsertRow
    <2>3. \A v \in Writer : \A r \in pending'[v] : r \in pending[v] \/ r = NewRow(t)
      BY <2>1, InsertedRow
    <2>4. NewRow(t).id > ceiling
      BY DEF NewRow, Settled, TableTypeOK
    <2>5. QED
      BY <1>1, <2>2, <2>3, <2>4 DEF Settled
  <1>4. CASE Commit(w) \/ Rollback(w)
    <2>1. End(w) /\ rows \subseteq rows' /\ rows' \subseteq rows \cup pending[w]
      BY <1>4 DEF Commit, Rollback
    <2>2. \A v \in Writer : pending'[v] \subseteq pending[v]
      BY <2>1, EndFacts
    <2>3. QED
      BY <1>1, <2>1, <2>2 DEF Settled
  <1>5. QED
    BY <1>2, <1>3, <1>4 DEF WriterStep

-----------------------------------------------------------------------------
(* One row, one id *)

\* No two rows have one id, committed or open, in one transaction or in two.
IdsDistinct ==
  /\ \A r, x \in rows : r.id = x.id => r = x
  /\ \A w \in Writer : \A p \in pending[w] :
       /\ \A r \in rows : r.id # p.id
       /\ \A v \in Writer : \A q \in pending[v] : q.id = p.id => v = w /\ q = p

\* What a writer's step does to the rows: it allocates the next id, or commits
\* rows that were open, or drops them.
LEMMA WriterRows ==
  ASSUME TableInv, NEW w \in Writer, WriterStep(w)
  PROVE  \/ /\ rows' = rows
            /\ \E new : /\ new.id = nextId
                        /\ \A v \in Writer : \A p \in pending'[v] :
                             p \in pending[v] \/ (v = w /\ p = new)
         \/ /\ rows' \subseteq rows \cup pending[w]
            /\ pending'[w] = {}
            /\ \A v \in Writer : pending'[v] \subseteq pending[v]
  <1> USE DEF TableInv
  <1>1. CASE (\E quotes \in SUBSET Tick : Begin(w, quotes)) \/ LockNext(w) \/ AllLocked(w)
    <2>1. rows' = rows /\ pending' = pending
      BY <1>1 DEF Begin, LockNext, AllLocked
    <2>2. [id |-> nextId].id = nextId
      OBVIOUS
    <2>3. QED
      BY <2>1, <2>2
  <1>2. CASE Insert(w)
    <2>1. PICK t \in batch[w] : InsertRow(w, t)
      BY <1>2 DEF Insert
    <2>2. rows' = rows
      BY <2>1 DEF InsertRow
    <2>3. NewRow(t).id = nextId
      BY DEF NewRow
    <2>4. \A v \in Writer : \A p \in pending'[v] : p \in pending[v] \/ (v = w /\ p = NewRow(t))
      BY <2>1, InsertedRow
    <2>5. QED
      BY <2>2, <2>3, <2>4
  <1>3. CASE Commit(w) \/ Rollback(w)
    <2>1. End(w) /\ rows' \subseteq rows \cup pending[w]
      BY <1>3 DEF Commit, Rollback
    <2>2. QED
      BY <2>1, EndFacts
  <1>4. QED
    BY <1>1, <1>2, <1>3 DEF WriterStep

LEMMA WriterIds ==
  ASSUME TableInv, IdsDistinct, NEW w \in Writer, WriterStep(w)
  PROVE  IdsDistinct'
  <1> USE DEF TableInv
  <1>1. ASSUME rows' = rows,
               NEW new, new.id = nextId,
               \A v \in Writer : \A p \in pending'[v] : p \in pending[v] \/ (v = w /\ p = new)
        PROVE  IdsDistinct'
    <2>1. \A r \in rows : r.id # nextId
      BY DEF IdsAllocated, TableTypeOK, Row
    <2>2. \A v \in Writer : \A p \in pending[v] : p.id # nextId
      BY DEF IdsAllocated, TableTypeOK, Row
    <2>3. QED
      BY <1>1, <2>1, <2>2 DEF IdsDistinct
  <1>2. CASE /\ rows' \subseteq rows \cup pending[w]
             /\ pending'[w] = {}
             /\ \A v \in Writer : pending'[v] \subseteq pending[v]
    <2>1. \A v \in Writer : \A p \in pending'[v] : v # w /\ p \in pending[v]
      BY <1>2
    <2>2. \A r, x \in rows' : r.id = x.id => r = x
      BY <1>2 DEF IdsDistinct
    <2>3. \A v \in Writer : \A p \in pending'[v], r \in rows' : r.id # p.id
      BY <1>2, <2>1 DEF IdsDistinct
    <2>4. QED
      BY <2>1, <2>2, <2>3 DEF IdsDistinct
  <1>3. QED
    BY <1>1, <1>2, WriterRows
=============================================================================
