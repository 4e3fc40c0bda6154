-------------------------- MODULE TickStreamProofs --------------------------
(***************************************************************************)
(* Proofs about stream_between for every set of writers, symbols, keys and *)
(* ticks and for every bound: the pin holds, a page can only ever see the  *)
(* settled set shrink, a stream that ends without an error has yielded the *)
(* settled set in order, and its closing check fails no replay whose rows  *)
(* nobody edited.  And about the accounts of a replay, for every sequence  *)
(* of ticks, every price and every cost: they are those of the fills.      *)
(***************************************************************************)
EXTENDS MCTickStream, FoldTheorems

ReaderTypes ==
  /\ reader \in Pinning \cup Pinned \cup Ended
  /\ ceiling \in Nat

\* A ceiling is read before the key is passed, so it is below the sequence.
CeilingBelow == reader \in {"settling"} \cup Pinned => ceiling < nextId

PinInv == TableInv /\ ReaderTypes /\ CeilingBelow /\ PinHolds

-----------------------------------------------------------------------------

LEMMA InitPinInv == Init => PinInv
  <1> SUFFICES ASSUME Init PROVE PinInv
    OBVIOUS
  <1>1. TableInv
    BY TableInitInv DEF Init
  <1>2. ReaderTypes /\ CeilingBelow /\ PinHolds
    BY DEF Init, ReaderTypes, CeilingBelow, PinHolds, Pinning, Pinned, Ended
  <1>3. QED
    BY <1>1, <1>2 DEF PinInv

\* What a writer's step leaves the reader.
LEMMA WriterPinInv ==
  ASSUME PinInv, NEW w \in Writer, WriterStep(w), UNCHANGED <<readerVars, changes>>
  PROVE  /\ PinInv'
         /\ (reader \in Pinned) => PinnedIds' \subseteq PinnedIds
  <1> USE DEF PinInv
  <1>1. reader' = reader /\ ceiling' = ceiling
    BY DEF readerVars
  <1>2. TableInv' /\ nextId' \in Nat /\ nextId \in Nat /\ nextId <= nextId'
    BY WriterInv, SequenceAdvances DEF TableInv, TableTypeOK
  <1>3. ReaderTypes' /\ CeilingBelow'
    BY <1>1, <1>2 DEF ReaderTypes, CeilingBelow
  <1>4. ASSUME reader \in Pinned
        PROVE  /\ Settled(Target, ceiling)'
               /\ \A r \in rows' \ rows : r.tick.symbol = Target => r.id > ceiling
    <2>1. Settled(Target, ceiling) /\ Target \in Symbol /\ ceiling \in Nat
      BY <1>4, StreamAssumption DEF PinHolds, ReaderTypes
    <2>2. QED
      BY <2>1, SettledKept, <1>1 DEF Settled
  <1>5. PinHolds'
    BY <1>1, <1>4 DEF PinHolds
  <1>6. (reader \in Pinned) => PinnedIds' \subseteq PinnedIds
    <2>1. SUFFICES ASSUME reader \in Pinned,
                          NEW r \in rows', r.tick.symbol = Target, r.id <= ceiling
                   PROVE  r \in rows
      BY <1>1 DEF PinnedIds
    <2>2. ceiling \in Nat /\ r.id \in Nat
      BY <1>2 DEF ReaderTypes, TableInv, TableTypeOK, Row
    <2>3. QED
      BY <1>4, <2>1, <2>2
  <1>7. QED
    BY <1>2, <1>3, <1>5, <1>6

\* The reader's own steps change no row; the pin starts at Settle.
LEMMA ReaderPinInv ==
  ASSUME PinInv, ReaderStep
  PROVE  /\ PinInv'
         /\ (reader \in Pinned) => PinnedIds' \subseteq PinnedIds
  <1> USE DEF PinInv
  <1>1. UNCHANGED tableVars
    BY DEF ReaderStep, ReadCeiling, Settle, SettleTimeout, Count, ReadPage, Yield, Close
  <1>2. TableInv'
    BY <1>1 DEF tableVars, TableInv, TableTypeOK, IdsAllocated, KeysHeld, MissingKeys
  <1>3. CASE ReadCeiling
    <2>1. CASE rows = {} /\ reader' = "done" /\ ceiling' = ceiling
      BY <2>1, <1>2, <1>3 DEF ReadCeiling, ReaderTypes, CeilingBelow, PinHolds, Pinned, Ended
    <2>2. CASE reader' = "settling" /\ \E r \in rows : IsCeiling(r.id) /\ ceiling' = r.id
      <3>1. ceiling' \in Nat /\ ceiling' < nextId
        BY <2>2, CeilingPassed
      <3>2. nextId' = nextId
        BY <1>1 DEF tableVars
      <3>3. QED
        BY <2>2, <3>1, <3>2, <1>2, <1>3
        DEF ReadCeiling, ReaderTypes, CeilingBelow, PinHolds, Pinning, Pinned
    <2>3. QED
      BY <1>3, <2>1, <2>2 DEF ReadCeiling
  <1>4. CASE Settle
    <2>1. Settled(Target, ceiling)
      BY <1>4, FreeKeySettles, StreamAssumption DEF Settle, CeilingBelow, ReaderTypes
    <2>2. ceiling' = ceiling /\ reader' = "counting" /\ reader = "settling"
      BY <1>4 DEF Settle
    <2>3. Settled(Target, ceiling)' /\ CeilingBelow'
      BY <1>1, <2>1, <2>2 DEF tableVars, Settled, CeilingBelow
    <2>4. QED
      BY <1>2, <2>2, <2>3 DEF ReaderTypes, PinHolds, Pinned
  <1>5. CASE SettleTimeout \/ Count \/ ReadPage \/ Yield \/ Close
    <2>1. ceiling' = ceiling
      BY <1>5 DEF SettleTimeout, Count, ReadPage, Yield, Close
    <2>2. reader' \in Pinned \cup Ended /\ (reader' \in Pinned => reader \in Pinned)
      BY <1>5 DEF SettleTimeout, Count, ReadPage, Yield, Close, Pinned, Ended
    <2>3. CeilingBelow' /\ PinHolds'
      BY <1>1, <2>1, <2>2 DEF tableVars, CeilingBelow, PinHolds, Settled, Pinned, Ended
    <2>4. PinnedIds' = PinnedIds
      BY <1>1, <2>1 DEF tableVars, PinnedIds
    <2>5. QED
      BY <1>2, <2>1, <2>2, <2>3, <2>4 DEF ReaderTypes
  <1>6. QED
    BY <1>3, <1>4, <1>5 DEF ReaderStep

\* A delete or an update changes rows that are there.
LEMMA ChangePinInv ==
  ASSUME PinInv, Change
  PROVE  /\ PinInv'
         /\ (reader \in Pinned) => PinnedIds' \subseteq PinnedIds
  <1> USE DEF PinInv
  <1>1. PICK r \in rows : Delete(r) \/ \E t \in Tick : Update(r, t)
    BY DEF Change
  <1>2. /\ UNCHANGED <<nextId, owner, pc, batch, pending, begun, readerVars>>
        /\ \A x \in rows' : \/ x \in rows
                            \/ /\ x \in Row
                               /\ x.id = r.id
                               /\ x.tick.symbol = r.tick.symbol
    <2>1. CASE Delete(r)
      BY <2>1 DEF Delete
    <2>2. CASE \E t \in Tick : Update(r, t)
      <3>1. PICK t \in Tick : Update(r, t)
        BY <2>2
      <3>2. r \in Row
        BY DEF TableInv, TableTypeOK
      <3>3. r.id \in Nat \ {0} /\ r.edition \in Nat
        BY <3>2 DEF Row
      <3>4. [id |-> r.id, tick |-> t, edition |-> r.edition + 1] \in Row
        BY <3>3 DEF Row
      <3>5. QED
        BY <3>1, <3>4 DEF Update
    <2>3. QED
      BY <1>1, <2>1, <2>2
  <1>3. TableInv'
    <2>1. TableTypeOK'
      BY <1>2 DEF TableInv, TableTypeOK
    <2>2. IdsAllocated' /\ KeysHeld'
      BY <1>2 DEF TableInv, IdsAllocated, KeysHeld, MissingKeys
    <2>3. QED
      BY <2>1, <2>2 DEF TableInv
  <1>4. reader' = reader /\ ceiling' = ceiling
    BY <1>2 DEF readerVars
  <1>5. ReaderTypes' /\ CeilingBelow' /\ PinHolds'
    BY <1>2, <1>4 DEF ReaderTypes, CeilingBelow, PinHolds, Settled
  <1>6. PinnedIds' \subseteq PinnedIds
    <2>1. SUFFICES ASSUME NEW x \in rows', x.tick.symbol = Target, x.id <= ceiling
                   PROVE  \E y \in rows : /\ y.tick.symbol = Target
                                          /\ y.id <= ceiling
                                          /\ y.id = x.id
      BY <1>4 DEF PinnedIds
    <2>2. QED
      BY <1>2, <2>1
  <1>7. QED
    BY <1>3, <1>5, <1>6

LEMMA NextPinInv ==
  ASSUME PinInv, [Next]_vars
  PROVE  /\ PinInv'
         /\ (reader \in Pinned) => PinnedIds' \subseteq PinnedIds
  <1>1. CASE \E w \in Writer : WriterStep(w) /\ UNCHANGED <<readerVars, changes>>
    BY <1>1, WriterPinInv
  <1>2. CASE ReaderStep
    BY <1>2, ReaderPinInv
  <1>3. CASE Change
    BY <1>3, ChangePinInv
  <1>4. CASE UNCHANGED vars
    <2>1. UNCHANGED tableVars /\ reader' = reader /\ ceiling' = ceiling
      BY <1>4 DEF vars, readerVars
    <2>2. TableInv'
      BY <2>1 DEF PinInv, tableVars, TableInv, TableTypeOK, IdsAllocated, KeysHeld, MissingKeys
    <2>3. ReaderTypes' /\ CeilingBelow' /\ PinHolds' /\ PinnedIds' = PinnedIds
      BY <2>1 DEF PinInv, tableVars, ReaderTypes, CeilingBelow, PinHolds, Settled, PinnedIds
    <2>4. QED
      BY <2>2, <2>3 DEF PinInv
  <1>5. QED
    BY <1>1, <1>2, <1>3, <1>4 DEF Next

-----------------------------------------------------------------------------
(* What the reader knows of the rows it has read *)

Yielded == {streamed[i] : i \in DOMAIN streamed}
Seen == Yielded \cup page
Reading == {"reading", "closing"}

ReadTypes ==
  /\ expected \subseteq Row /\ page \subseteq Row
  /\ streamed \in Seq(Row)
  /\ changes \in Nat

\* Nothing is read before the settled set is counted.
NothingRead ==
  reader \in Pinning \cup {"counting"} => streamed = <<>> /\ page = {} /\ expected = {}

\* Rows are yielded in order, and a page lies beyond all of them.
InOrder ==
  /\ \A i, j \in DOMAIN streamed : i < j => Before(streamed[i], streamed[j])
  /\ \A i \in DOMAIN streamed, p \in page : Before(streamed[i], p)
  /\ \A p, q \in page : p.id = q.id => p = q

\* A settled row that is still there has been seen or lies ahead.
Covered ==
  /\ reader = "reading" =>
       \A r \in expected \cap rows : r \in Seen \/ \A x \in Seen : Before(x, r)
  /\ reader = "closing" => expected \cap rows \subseteq Yielded

\* A settled row that is gone never comes back: its id is not given again, and
\* an update of it is a later edition.
Gone ==
  reader \in Reading =>
    \A r \in expected :
      /\ r.tick.symbol = Target /\ r.tick.time \in Start .. Stop - 1 /\ r.id <= ceiling
      /\ \A x \in rows : x.id = r.id => x = r \/ x.edition > r.edition
      /\ \A w \in Writer : \A p \in pending[w] : p.id # r.id

\* Appends alone change neither the settled set nor what was read of it.
Untouched ==
  reader \in Reading /\ changes = 0 => expected = SettledSet /\ Seen \subseteq SettledSet

Complete == reader = "done" => Yielded = expected

ReadInv ==
  /\ PinInv /\ IdsDistinct /\ ReadTypes
  /\ NothingRead /\ InOrder /\ Covered /\ Gone /\ Untouched /\ Complete

-----------------------------------------------------------------------------
(* (event_time, id) is a total order of rows with distinct ids *)

LEMMA BeforeTransitive ==
  ASSUME NEW a \in Row, NEW b \in Row, NEW c \in Row, Before(a, b), Before(b, c)
  PROVE  Before(a, c)
  BY TableAssumption DEF Before, Row

LEMMA BeforeTotal ==
  ASSUME NEW a \in Row, NEW b \in Row, a.id # b.id
  PROVE  Before(a, b) \/ Before(b, a)
  BY TableAssumption DEF Before, Row

\* The last row yielded bounds all of them.
LEMMA LastBounds ==
  ASSUME streamed \in Seq(Row), streamed # <<>>, InOrder,
         NEW r \in Row, Before(Last(streamed), r),
         NEW i \in DOMAIN streamed
  PROVE  Before(streamed[i], r)
  <1>1. DOMAIN streamed = 1 .. Len(streamed) /\ Len(streamed) \in Nat /\ Len(streamed) # 0
    BY EmptySeq, LenProperties
  <1>2. Len(streamed) \in DOMAIN streamed /\ Last(streamed) = streamed[Len(streamed)]
    BY <1>1 DEF Last
  <1>3. CASE i = Len(streamed)
    BY <1>2, <1>3
  <1>4. CASE i < Len(streamed)
    <2>1. Before(streamed[i], streamed[Len(streamed)])
      BY <1>2, <1>4 DEF InOrder
    <2>2. streamed[i] \in Row /\ streamed[Len(streamed)] \in Row
      BY <1>1, <1>2, ElementOfSeq
    <2>3. QED
      BY <1>2, <2>1, <2>2, BeforeTransitive
  <1>5. QED
    BY <1>1, <1>3, <1>4

\* A settled row that lies beyond all rows yielded is ahead of the cursor.
LEMMA BeyondIsAhead ==
  ASSUME streamed \in Seq(Row), NEW r \in SettledSet, \A x \in Yielded : Before(x, r)
  PROVE  r \in Ahead
  <1>1. CASE streamed = <<>>
    BY <1>1 DEF Ahead
  <1>2. CASE streamed # <<>>
    <2>1. Last(streamed) \in Yielded
      BY <1>2 DEF Last, Yielded
    <2>2. QED
      BY <2>1 DEF Ahead
  <1>3. QED
    BY <1>1, <1>2

\* As many rows were yielded as there are yielded rows.
LEMMA YieldedCount ==
  ASSUME streamed \in Seq(Row), InOrder
  PROVE  IsFiniteSet(Yielded) /\ Cardinality(Yielded) = Len(streamed)
  <1>1. DOMAIN streamed = 1 .. Len(streamed) /\ Len(streamed) \in Nat
    BY LenProperties
  <1>2. \A i \in 1 .. Len(streamed) : streamed[i] \in Row
    BY ElementOfSeq
  <1>3. \A i, j \in 1 .. Len(streamed) : i < j => streamed[i] # streamed[j]
    <2>1. \A r \in Row : ~Before(r, r)
      BY TableAssumption DEF Before, Row
    <2>2. QED
      BY <1>1, <1>2, <2>1 DEF InOrder
  <1>4. \A i, j \in 1 .. Len(streamed) : streamed[i] = streamed[j] => i = j
    BY <1>1, <1>3
  <1>5. ExistsBijection(1 .. Len(streamed), Yielded)
    <2>1. streamed \in [1 .. Len(streamed) -> Yielded]
      BY <1>1 DEF Yielded
    <2>2. streamed \in Bijection(1 .. Len(streamed), Yielded)
      BY <1>1, <1>4, <2>1 DEF Bijection, Injection, Surjection, IsInjective, Yielded
    <2>3. QED
      BY <2>2 DEF ExistsBijection
  <1>6. QED
    BY <1>1, <1>5, FS_CountingElements, FS_NatBijection

-----------------------------------------------------------------------------
(* Every step keeps what the reader knows *)

LEMMA InitReadInv == Init => ReadInv
  <1> SUFFICES ASSUME Init PROVE ReadInv
    OBVIOUS
  <1>1. PinInv
    BY InitPinInv
  <1>2. IdsDistinct
    BY DEF Init, TableInit, IdsDistinct
  <1>3. ReadTypes /\ NothingRead /\ InOrder
    BY DEF Init, ReadTypes, NothingRead, InOrder
  <1>4. Covered /\ Gone /\ Untouched /\ Complete
    BY DEF Init, Covered, Gone, Untouched, Complete, Reading
  <1>5. QED
    BY <1>1, <1>2, <1>3, <1>4 DEF ReadInv

\* A row a writer commits is none of the settled set, and no edition of one.
LEMMA WriterReadInv ==
  ASSUME ReadInv, NEW w \in Writer, WriterStep(w), UNCHANGED <<readerVars, changes>>
  PROVE  ReadInv'
  <1> USE DEF ReadInv
  <1>1. /\ reader' = reader /\ ceiling' = ceiling /\ expected' = expected
        /\ page' = page /\ streamed' = streamed /\ changes' = changes
    BY DEF readerVars
  <1>2. PinInv' /\ IdsDistinct'
    BY WriterPinInv, WriterIds DEF PinInv
  <1>3. ReadTypes' /\ NothingRead' /\ InOrder' /\ Complete'
    BY <1>1 DEF ReadTypes, NothingRead, InOrder, Before, Complete, Yielded
  <1>4. Seen' = Seen /\ Yielded' = Yielded
    BY <1>1 DEF Seen, Yielded
  <1>5. ASSUME reader \in Reading
        PROVE  /\ rows \subseteq rows'
               /\ \A r \in rows' \ rows : r.tick.symbol = Target => r.id > ceiling
    <2>1. Settled(Target, ceiling) /\ Target \in Symbol /\ ceiling \in Nat
      BY <1>5, StreamAssumption DEF PinInv, PinHolds, ReaderTypes, Reading, Pinned
    <2>2. QED
      BY <2>1, SettledKept DEF PinInv
  <1>6. ASSUME reader \in Reading, NEW r \in expected
        PROVE  /\ \A x \in rows' : x.id = r.id => x \in rows
               /\ \A v \in Writer : \A p \in pending'[v] : p.id # r.id
    <2>1. /\ \A v \in Writer : \A p \in pending[v] : p.id # r.id
          /\ r.id <= ceiling
      BY <1>6 DEF Gone
    <2>2. r.id < nextId
      <3>1. ceiling < nextId /\ ceiling \in Nat
        BY <1>6 DEF PinInv, CeilingBelow, ReaderTypes, Reading, Pinned
      <3>2. r.id \in Nat /\ nextId \in Nat
        BY DEF ReadTypes, Row, PinInv, TableInv, TableTypeOK
      <3>3. QED
        BY <2>1, <3>1, <3>2
    <2>3. nextId # r.id
      BY <2>2 DEF PinInv, TableInv, TableTypeOK
    <2>4. QED
      BY <2>1, <2>3, WriterRows DEF PinInv
  <1>7. Gone'
    BY <1>1, <1>6 DEF Gone
  <1>8. Covered'
    <2>1. reader \in Reading => \A r \in expected \cap rows' : r \in expected \cap rows
      BY <1>6
    <2>2. QED
      BY <1>1, <1>4, <2>1 DEF Covered, Reading, Before
  <1>9. Untouched'
    <2>1. reader \in Reading => SettledSet' = SettledSet
      <3>1. SUFFICES ASSUME reader \in Reading PROVE SettledSet' = SettledSet
        OBVIOUS
      <3>2. \A r \in rows' : r.id \in Nat /\ ceiling \in Nat
        BY <1>2 DEF PinInv, TableInv, TableTypeOK, Row, ReaderTypes
      <3>3. QED
        BY <1>1, <1>5, <3>1, <3>2 DEF SettledSet
    <2>2. QED
      BY <1>1, <1>4, <2>1 DEF Untouched
  <1>10. QED
    BY <1>2, <1>3, <1>7, <1>8, <1>9

\* What a reader's step leaves alone.
LEMMA ReaderFrame ==
  ASSUME ReadInv, ReaderStep
  PROVE  /\ UNCHANGED tableVars
         /\ changes' = changes
         /\ PinInv' /\ IdsDistinct'
  <1>1. UNCHANGED tableVars /\ changes' = changes
    BY DEF ReaderStep, ReadCeiling, Settle, SettleTimeout, Count, ReadPage, Yield, Close
  <1>2. PinInv'
    BY ReaderPinInv DEF ReadInv
  <1>3. IdsDistinct'
    BY <1>1 DEF ReadInv, tableVars, IdsDistinct
  <1>4. QED
    BY <1>1, <1>2, <1>3

LEMMA PinningReadInv ==
  ASSUME ReadInv, ReadCeiling \/ Settle \/ SettleTimeout
  PROVE  ReadInv'
  <1> USE DEF ReadInv
  <1>1. ReaderStep
    BY DEF ReaderStep
  <1>2. PinInv' /\ IdsDistinct' /\ changes' = changes
    BY <1>1, ReaderFrame
  <1>3. /\ expected' = expected /\ page' = page /\ streamed' = streamed
        /\ reader \in Pinning
        /\ reader' \in {"settling", "counting", "done", "failed"}
    BY DEF ReadCeiling, Settle, SettleTimeout, Pinning
  <1>4. ReadTypes' /\ InOrder'
    BY <1>2, <1>3 DEF ReadTypes, InOrder, Before
  <1>5. streamed' = <<>> /\ page' = {} /\ expected' = {}
    BY <1>3 DEF NothingRead
  <1>6. NothingRead' /\ Covered' /\ Gone' /\ Untouched'
    BY <1>3, <1>5 DEF NothingRead, Covered, Gone, Untouched, Reading
  <1>7. Complete'
    BY <1>5 DEF Complete, Yielded
  <1>8. QED
    BY <1>2, <1>4, <1>6, <1>7

LEMMA CountReadInv ==
  ASSUME ReadInv, Count
  PROVE  ReadInv'
  <1> USE DEF ReadInv
  <1>1. ReaderStep
    BY DEF ReaderStep
  <1>2. PinInv' /\ IdsDistinct' /\ changes' = changes /\ UNCHANGED tableVars
    BY <1>1, ReaderFrame
  <1>3. /\ expected' = SettledSet /\ page' = {} /\ streamed' = <<>>
        /\ reader' = "reading" /\ ceiling' = ceiling /\ rows' = rows /\ pending' = pending
    BY <1>2 DEF Count, NothingRead, tableVars
  <1>4. SettledSet \subseteq rows /\ SettledSet' = SettledSet
    BY <1>3 DEF SettledSet
  <1>5. ReadTypes'
    BY <1>2, <1>3, <1>4 DEF ReadTypes, PinInv, TableInv, TableTypeOK
  <1>6. Seen' = {}
    BY <1>3 DEF Seen, Yielded
  <1>7. NothingRead' /\ InOrder' /\ Complete'
    BY <1>3 DEF NothingRead, InOrder, Complete, Pinning
  <1>8. Covered' /\ Untouched'
    BY <1>3, <1>4, <1>6 DEF Covered, Untouched
  <1>9. Gone'
    BY <1>3, <1>4 DEF Gone, IdsDistinct, SettledSet
  <1>10. QED
    BY <1>2, <1>5, <1>7, <1>8, <1>9

\* A page continues the order; a row it leaves out lies beyond the page.
LEMMA ReadPageReadInv ==
  ASSUME ReadInv, ReadPage
  PROVE  ReadInv'
  <1> USE DEF ReadInv
  <1>1. ReaderStep
    BY DEF ReaderStep
  <1>2. PinInv' /\ IdsDistinct' /\ changes' = changes /\ UNCHANGED tableVars
    BY <1>1, ReaderFrame
  <1>3. /\ expected' = expected /\ streamed' = streamed /\ ceiling' = ceiling
        /\ rows' = rows /\ pending' = pending
        /\ reader = "reading" /\ page = {}
        /\ reader' = IF Ahead = {} THEN "closing" ELSE "reading"
    BY <1>2 DEF ReadPage, tableVars
  <1>4. PICK p \in SUBSET Ahead : IsPage(p) /\ page' = p
    BY DEF ReadPage
  <1>5. SettledSet' = SettledSet /\ Ahead \subseteq SettledSet /\ SettledSet \subseteq rows /\ rows \subseteq Row
    BY <1>3 DEF SettledSet, Ahead, PinInv, TableInv, TableTypeOK
  <1>6. ReadTypes'
    BY <1>2, <1>3, <1>4, <1>5 DEF ReadTypes
  <1>7. Yielded' = Yielded /\ Seen = Yielded /\ Seen' = Yielded \cup p
    BY <1>3, <1>4 DEF Yielded, Seen
  <1>8. \A i \in DOMAIN streamed, r \in Ahead : Before(streamed[i], r)
    <2>1. SUFFICES ASSUME NEW i \in DOMAIN streamed, NEW r \in Ahead
                   PROVE  Before(streamed[i], r)
      OBVIOUS
    <2>2. streamed # <<>>
      OBVIOUS
    <2>3. QED
      BY <2>2, <1>5, LastBounds DEF Ahead, ReadTypes
  <1>9. NothingRead' /\ InOrder' /\ Complete'
    <2>1. \A a, b \in p : a.id = b.id => a = b
      BY <1>4, <1>5 DEF IdsDistinct
    <2>2. QED
      BY <2>1, <1>3, <1>4, <1>8 DEF NothingRead, InOrder, Complete, Before, Pinning
  <1>10. Gone'
    BY <1>3 DEF Gone, Reading
  <1>11. Untouched'
    BY <1>2, <1>3, <1>4, <1>5, <1>7 DEF Untouched, Reading
  <1>12. ASSUME NEW r \in expected \cap rows
         PROVE  r \in Yielded \/ r \in p \/ \A x \in Yielded \cup p : Before(x, r)
    <2>1. CASE r \in Yielded \/ r \in p
      BY <2>1
    <2>2. CASE r \notin Yielded /\ r \notin p
      <3>1. \A x \in Yielded : Before(x, r)
        BY <2>2, <1>3, <1>7, <1>12 DEF Covered
      <3>2. r \in SettledSet
        BY <1>3, <1>12 DEF Gone, Reading, SettledSet
      <3>3. r \in Ahead
        BY <3>1, <3>2, BeyondIsAhead DEF ReadTypes
      <3>4. ASSUME NEW x \in p PROVE Before(x, r)
        <4>1. ~Before(r, x)
          BY <3>3, <2>2, <1>4 DEF IsPage
        <4>2. x \in rows /\ x # r
          BY <1>4, <1>5, <2>2
        <4>3. x.id # r.id
          BY <4>2, <1>12 DEF IdsDistinct
        <4>4. QED
          BY <4>1, <4>2, <4>3, <1>5, <1>12, BeforeTotal
      <3>5. QED
        BY <3>1, <3>4
    <2>3. QED
      BY <2>1, <2>2
  <1>13. Covered'
    <2>1. CASE Ahead = {}
      <3>1. p = {} /\ reader' = "closing"
        BY <2>1, <1>3, <1>4
      <3>2. \A r \in expected \cap rows : r \in Yielded
        <4>1. SUFFICES ASSUME NEW r \in expected \cap rows, r \notin Yielded PROVE FALSE
          OBVIOUS
        <4>2. r \in SettledSet
          BY <1>3, <4>1 DEF Gone, Reading, SettledSet
        <4>3. \A x \in Yielded : Before(x, r)
          BY <4>1, <1>12, <3>1
        <4>4. QED
          BY <4>2, <4>3, <2>1, BeyondIsAhead DEF ReadTypes
      <3>3. QED
        BY <3>1, <3>2, <1>3, <1>7 DEF Covered
    <2>2. CASE Ahead # {}
      BY <2>2, <1>3, <1>7, <1>12 DEF Covered, Before
    <2>3. QED
      BY <2>1, <2>2
  <1>14. QED
    BY <1>2, <1>6, <1>9, <1>10, <1>11, <1>13

\* A yield moves the first row of the page to the end of what was yielded.
LEMMA YieldReadInv ==
  ASSUME ReadInv, Yield
  PROVE  ReadInv'
  <1> USE DEF ReadInv
  <1>1. ReaderStep
    BY DEF ReaderStep
  <1>2. PinInv' /\ IdsDistinct' /\ changes' = changes /\ UNCHANGED tableVars
    BY <1>1, ReaderFrame
  <1>3. /\ expected' = expected /\ ceiling' = ceiling
        /\ rows' = rows /\ pending' = pending
        /\ reader = "reading" /\ reader' = "reading"
    BY <1>2 DEF Yield, tableVars
  <1>4. PICK r \in page : /\ \A other \in page \ {r} : ~Before(other, r)
                          /\ streamed' = Append(streamed, r)
                          /\ page' = page \ {r}
    BY DEF Yield
  <1>5. r \in Row /\ page \subseteq Row /\ streamed \in Seq(Row)
    BY DEF ReadTypes
  <1>6. /\ DOMAIN streamed = 1 .. Len(streamed) /\ Len(streamed) \in Nat
        /\ DOMAIN streamed' = 1 .. Len(streamed) + 1
        /\ \A i \in 1 .. Len(streamed) : streamed'[i] = streamed[i]
        /\ streamed'[Len(streamed) + 1] = r
    BY <1>4, <1>5, LenProperties, AppendProperties
  <1>7. ReadTypes'
    BY <1>2, <1>3, <1>4, <1>5, AppendProperties DEF ReadTypes
  <1>8. Yielded' = Yielded \cup {r}
    BY <1>6 DEF Yielded
  <1>9. Seen' = Seen
    BY <1>4, <1>8 DEF Seen
  <1>10. InOrder'
    <2>1. \A i, j \in DOMAIN streamed' : i < j => Before(streamed'[i], streamed'[j])
      <3>1. SUFFICES ASSUME NEW i \in DOMAIN streamed', NEW j \in DOMAIN streamed', i < j
                     PROVE  Before(streamed'[i], streamed'[j])
        OBVIOUS
      <3>2. i \in DOMAIN streamed /\ streamed'[i] = streamed[i]
        BY <1>6, <3>1
      <3>3. CASE j \in DOMAIN streamed
        BY <3>1, <3>2, <3>3, <1>6 DEF InOrder
      <3>4. CASE j \notin DOMAIN streamed
        <4>1. streamed'[j] = r
          BY <1>6, <3>4
        <4>2. Before(streamed[i], r)
          BY <3>2 DEF InOrder
        <4>3. QED
          BY <3>2, <4>1, <4>2
      <3>5. QED
        BY <3>3, <3>4
    <2>2. \A i \in DOMAIN streamed', x \in page' : Before(streamed'[i], x)
      <3>1. SUFFICES ASSUME NEW i \in DOMAIN streamed', NEW x \in page'
                     PROVE  Before(streamed'[i], x)
        OBVIOUS
      <3>2. x \in page /\ x # r
        BY <1>4
      <3>3. CASE i \in DOMAIN streamed
        <4>1. Before(streamed[i], x)
          BY <3>2, <3>3 DEF InOrder
        <4>2. QED
          BY <4>1, <3>3, <1>6
      <3>4. CASE i \notin DOMAIN streamed
        <4>1. streamed'[i] = r
          BY <1>6, <3>4
        <4>2. x.id # r.id /\ ~Before(x, r)
          BY <1>4, <3>2 DEF InOrder
        <4>3. Before(r, x)
          BY <4>2, <1>5, <3>2, BeforeTotal
        <4>4. QED
          BY <4>1, <4>3
      <3>5. QED
        BY <3>3, <3>4
    <2>3. \A x, y \in page' : x.id = y.id => x = y
      BY <1>4 DEF InOrder
    <2>4. QED
      BY <2>1, <2>2, <2>3 DEF InOrder, Before
  <1>11. NothingRead' /\ Complete'
    BY <1>3 DEF NothingRead, Complete, Pinning
  <1>12. Covered' /\ Gone' /\ Untouched'
    <2>1. SettledSet' = SettledSet
      BY <1>3 DEF SettledSet
    <2>2. QED
      BY <2>1, <1>2, <1>3, <1>9 DEF Covered, Gone, Untouched, Reading, Before
  <1>13. QED
    BY <1>2, <1>7, <1>10, <1>11, <1>12

\* The closing check passes only when as many rows were yielded as were settled
\* and all of those are there: then they are the rows yielded.
LEMMA CloseReadInv ==
  ASSUME ReadInv, Close
  PROVE  ReadInv' /\ (changes = 0 => Unchanged)
  <1> USE DEF ReadInv
  <1>1. ReaderStep
    BY DEF ReaderStep
  <1>2. PinInv' /\ IdsDistinct' /\ changes' = changes /\ UNCHANGED tableVars
    BY <1>1, ReaderFrame
  <1>3. /\ expected' = expected /\ ceiling' = ceiling
        /\ page' = page /\ streamed' = streamed
        /\ reader = "closing" /\ reader' \in {"done", "failed"}
        /\ reader' = "done" => Unchanged
    BY DEF Close
  <1>4. Yielded' = Yielded /\ IsFiniteSet(Yielded) /\ Cardinality(Yielded) = Len(streamed)
    BY <1>3, YieldedCount DEF Yielded, ReadTypes
  <1>5. SettledSet = expected => expected \subseteq Yielded
    BY <1>3 DEF Covered, SettledSet
  <1>6. Unchanged => Yielded = expected
    BY <1>4, <1>5, FS_Subset DEF Unchanged
  <1>7. changes = 0 => Unchanged
    <2>1. SUFFICES ASSUME changes = 0 PROVE Unchanged
      OBVIOUS
    <2>2. expected = SettledSet /\ Yielded \subseteq expected
      BY <2>1, <1>3 DEF Untouched, Reading, Seen
    <2>3. Yielded = expected
      BY <2>2, <1>5
    <2>4. QED
      BY <2>2, <2>3, <1>4 DEF Unchanged
  <1>8. ReadTypes' /\ InOrder'
    BY <1>2, <1>3 DEF ReadTypes, InOrder, Before
  <1>9. NothingRead' /\ Covered' /\ Gone' /\ Untouched'
    BY <1>3 DEF NothingRead, Covered, Gone, Untouched, Reading, Pinning
  <1>10. Complete'
    BY <1>3, <1>4, <1>6 DEF Complete
  <1>11. QED
    BY <1>2, <1>7, <1>8, <1>9, <1>10

\* A delete or an update takes rows of the settled set away and puts none back.
LEMMA ChangeReadInv ==
  ASSUME ReadInv, Change
  PROVE  ReadInv'
  <1> USE DEF ReadInv
  <1>1. PICK r \in rows : Delete(r) \/ \E t \in Tick : Update(r, t)
    BY DEF Change
  <1>2. PinInv'
    BY ChangePinInv
  <1>3. /\ UNCHANGED <<pending, readerVars>>
        /\ changes' = changes + 1
        /\ \A x \in rows' : \/ x \in rows \ {r}
                            \/ x.id = r.id /\ x.edition = r.edition + 1
        /\ \A x, y \in rows' \ rows : x = y
        /\ \A x \in rows' \ rows : r \notin rows'
    <2>1. CASE Delete(r)
      BY <2>1 DEF Delete
    <2>2. CASE \E t \in Tick : Update(r, t)
      <3>1. PICK t \in Tick : Update(r, t)
        BY <2>2
      <3>2. PICK new : new = [id |-> r.id, tick |-> t, edition |-> r.edition + 1]
        OBVIOUS
      <3>3. rows' = (rows \ {r}) \cup {new} /\ new.id = r.id /\ new.edition = r.edition + 1
        BY <3>1, <3>2 DEF Update
      <3>4. new # r
        <4>1. r.edition \in Nat
          BY DEF PinInv, TableInv, TableTypeOK, Row
        <4>2. QED
          BY <3>3, <4>1
      <3>5. QED
        BY <3>1, <3>3, <3>4 DEF Update
    <2>3. QED
      BY <1>1, <2>1, <2>2
  <1>4. /\ reader' = reader /\ ceiling' = ceiling /\ expected' = expected
        /\ page' = page /\ streamed' = streamed /\ pending' = pending
    BY <1>3 DEF readerVars
  <1>5. IdsDistinct'
    <2>1. \A x, y \in rows' : x.id = y.id => x = y
      BY <1>3 DEF IdsDistinct
    <2>2. \A w \in Writer : \A p \in pending[w] : \A x \in rows' : x.id # p.id
      BY <1>3 DEF IdsDistinct
    <2>3. QED
      BY <2>1, <2>2, <1>4 DEF IdsDistinct
  <1>6. ReadTypes' /\ NothingRead' /\ InOrder' /\ Complete'
    BY <1>3, <1>4 DEF ReadTypes, NothingRead, InOrder, Before, Complete, Yielded
  <1>7. ASSUME reader \in Reading, NEW e \in expected, NEW x \in rows', x.id = e.id
        PROVE  (x = e /\ e \in rows) \/ x.edition > e.edition
    <2>1. CASE x \in rows \ {r}
      BY <1>7, <2>1 DEF Gone
    <2>2. CASE x.id = r.id /\ x.edition = r.edition + 1
      <3>1. r.edition \in Nat /\ e.edition \in Nat
        BY DEF PinInv, TableInv, TableTypeOK, ReadTypes, Row
      <3>2. r = e \/ r.edition > e.edition
        BY <1>7, <2>2 DEF Gone
      <3>3. QED
        BY <2>2, <3>1, <3>2
    <2>3. QED
      BY <1>3, <2>1, <2>2
  <1>8. Gone'
    BY <1>4, <1>7 DEF Gone
  <1>9. Covered'
    <2>1. reader \in Reading => \A e \in expected \cap rows' : e \in rows
      <3>1. SUFFICES ASSUME reader \in Reading, NEW e \in expected, e \in rows' PROVE e \in rows
        OBVIOUS
      <3>2. e.edition \in Nat
        BY DEF ReadTypes, Row
      <3>3. QED
        BY <3>1, <3>2, <1>7
    <2>2. Seen' = Seen /\ Yielded' = Yielded
      BY <1>4 DEF Seen, Yielded
    <2>3. QED
      BY <1>4, <2>1, <2>2 DEF Covered, Reading, Before
  <1>10. Untouched'
    BY <1>3 DEF Untouched, ReadTypes
  <1>11. QED
    BY <1>2, <1>5, <1>6, <1>8, <1>9, <1>10

LEMMA NextReadInv ==
  ASSUME ReadInv, [Next]_vars
  PROVE  ReadInv' /\ (Close /\ changes = 0 => Unchanged)
  <1>1. ReadInv'
    <2>1. CASE \E w \in Writer : WriterStep(w) /\ UNCHANGED <<readerVars, changes>>
      BY <2>1, WriterReadInv
    <2>2. CASE ReaderStep
      BY <2>2, PinningReadInv, CountReadInv, ReadPageReadInv, YieldReadInv, CloseReadInv DEF ReaderStep
    <2>3. CASE Change
      BY <2>3, ChangeReadInv
    <2>4. CASE UNCHANGED vars
      <3>1. PinInv'
        BY <2>4, NextPinInv DEF ReadInv
      <3>2. IdsDistinct' /\ ReadTypes' /\ NothingRead' /\ InOrder'
        BY <2>4 DEF ReadInv, vars, tableVars, readerVars, IdsDistinct, ReadTypes, NothingRead, InOrder, Before
      <3>3. Covered' /\ Gone' /\ Complete'
        BY <2>4 DEF ReadInv, vars, tableVars, readerVars, Covered, Gone, Complete, Seen, Yielded, Before
      <3>4. Untouched'
        BY <2>4 DEF ReadInv, vars, tableVars, readerVars, Untouched, SettledSet, Seen, Yielded
      <3>5. QED
        BY <3>1, <3>2, <3>3, <3>4 DEF ReadInv
    <2>5. QED
      BY <2>1, <2>2, <2>3, <2>4 DEF Next
  <1>2. Close /\ changes = 0 => Unchanged
    BY CloseReadInv
  <1>3. QED
    BY <1>1, <1>2

LEMMA ReadInvExact == ReadInv => StreamExact
  <1> SUFFICES ASSUME ReadInv PROVE StreamExact
    OBVIOUS
  <1>1. TypeOK
    BY DEF ReadInv, ReadTypes, PinInv, TableInv, ReaderTypes, TypeOK
  <1>2. reader = "done" => {streamed[i] : i \in DOMAIN streamed} = expected
    BY DEF ReadInv, Complete, Yielded
  <1>3. \A i \in 1 .. Len(streamed) - 1 : Before(streamed[i], streamed[i + 1])
    <2>1. DOMAIN streamed = 1 .. Len(streamed) /\ Len(streamed) \in Nat
      BY LenProperties DEF ReadInv, ReadTypes
    <2>2. QED
      BY <2>1 DEF ReadInv, InOrder
  <1>4. QED
    BY <1>1, <1>2, <1>3 DEF StreamExact

-----------------------------------------------------------------------------

\* From the pin on, no open transaction can surface a row of the symbol at or
\* below the ceiling (stream_between, "symbol + id <= ceiling names one settled
\* set").
THEOREM StreamIsPinned == Spec => []PinHolds
  <1>1. PinInv /\ [Next]_vars => PinInv'
    BY NextPinInv
  <1>2. PinInv => PinHolds
    BY DEF PinInv
  <1>3. QED
    BY InitPinInv, <1>1, <1>2, PTL DEF Spec

\* From the pin on, the ids a page can see only ever shrink: no append enters
\* the replay's data set.
THEOREM PagesSeeNothingNew == Spec => PinnedNeverGrows
  <1>1. PinInv /\ [Next]_vars => PinInv'
    BY NextPinInv
  <1>2. PinInv /\ [Next]_vars => [(reader \in Pinned) => PinnedIds' \subseteq PinnedIds]_vars
    BY NextPinInv
  <1>3. QED
    BY InitPinInv, <1>1, <1>2, PTL DEF Spec, PinnedNeverGrows

\* A replay that ends without an error has streamed the settled set, each row
\* once and in (event_time, id) order, whatever writers appended and whoever
\* deleted or updated rows between its pages.
THEOREM StreamIsExact == Spec => []StreamExact
  <1>1. ReadInv /\ [Next]_vars => ReadInv'
    BY NextReadInv
  <1>2. QED
    BY InitReadInv, <1>1, ReadInvExact, PTL DEF Spec

\* The closing check fails no replay whose rows nobody deleted or updated,
\* however many writers appended while it was read.
THEOREM PinIsEnough == Spec => PinSuffices
  <1>1. ReadInv /\ [Next]_vars => ReadInv'
    BY NextReadInv
  <1>2. ReadInv /\ [Next]_vars => [(Close /\ changes = 0) => Unchanged]_vars
    BY NextReadInv
  <1>3. QED
    BY InitReadInv, <1>1, <1>2, PTL DEF Spec, PinSuffices

-----------------------------------------------------------------------------
(* The accounts of a backtest.                                             *)

Sides == {"LONG", "SHORT"}
HeldRecord ==
  [direction: Sides, quantity: Nat \ {0}, entry: Int, stop: Int, target: Int, opened_at: Int]
FillRecord ==
  [ticket: Nat, direction: Sides, price: Int, quantity: Nat \ {0}, opens: BOOLEAN, mid: Int,
   at: Int]

\* A value of each side, and what positions entered at e and the fills of
\* prices c come to at these values.
Value(direction, l, s) == IF direction = "LONG" THEN l ELSE s
HeldValues(p, e, l, s) ==
  [t \in DOMAIN p |-> Ledger!SignedPnl(p[t].direction, e[t], Value(p[t].direction, l, s),
                                       p[t].quantity)]
Flows(f, c, l, s) ==
  [i \in 1 .. Len(f) |-> Ledger!Units(f[i]) * (Value(f[i].direction, l, s) - c[i])]

\* What is settled and what is held come to what the fills come to.
Balances(r, p, e, f, c, l, s) ==
  r + SetTotal(HeldValues(p, e, l, s)) = Summed(Flows(f, c, l, s))

BookTypes(p, e, f, c, l, s) ==
  /\ IsFiniteSet(DOMAIN p) /\ p \in [DOMAIN p -> HeldRecord] /\ e \in [DOMAIN p -> Int]
  /\ f \in Seq(FillRecord) /\ c \in Seq(Int) /\ Len(c) = Len(f)
  /\ l \in Int /\ s \in Int

LEMMA ValueTypes ==
  ASSUME NEW p, NEW e, NEW f, NEW c, NEW l, NEW s, BookTypes(p, e, f, c, l, s)
  PROVE  /\ HeldValues(p, e, l, s) \in [DOMAIN p -> Int]
         /\ Flows(f, c, l, s) \in Seq(Int) /\ Len(Flows(f, c, l, s)) = Len(f)
  <1>1. ASSUME NEW t \in DOMAIN p
        PROVE  HeldValues(p, e, l, s)[t] \in Int
    <2>1. /\ p[t] \in HeldRecord /\ e[t] \in Int /\ l \in Int /\ s \in Int
      BY DEF BookTypes
    <2>2. Value(p[t].direction, l, s) \in Int /\ Ledger!Sign(p[t].direction) \in Int
          /\ p[t].quantity \in Int
      BY <2>1 DEF Value, Ledger!Sign, HeldRecord
    <2> QED
      BY <2>1, <2>2 DEF HeldValues, Ledger!SignedPnl
  <1>2. ASSUME NEW i \in 1 .. Len(f)
        PROVE  Ledger!Units(f[i]) * (Value(f[i].direction, l, s) - c[i]) \in Int
    <2>1. f[i] \in FillRecord /\ c[i] \in Int /\ l \in Int /\ s \in Int
      BY DEF BookTypes
    <2>2. Value(f[i].direction, l, s) \in Int /\ Ledger!Units(f[i]) \in Int
      BY <2>1 DEF Value, Ledger!Units, FillRecord
    <2> QED
      BY <2>1, <2>2
  <1>3. Len(f) \in Nat
    BY DEF BookTypes
  <1> QED
    BY <1>1, <1>2, <1>3 DEF HeldValues, Flows

\* One fill more.
FlowAppends(f, fill, c, x, l, s) ==
  /\ Ledger!Units(fill) * (Value(fill.direction, l, s) - x) \in Int
  /\ Summed(Flows(Append(f, fill), Append(c, x), l, s)) =
       Summed(Flows(f, c, l, s)) + Ledger!Units(fill) * (Value(fill.direction, l, s) - x)

LEMMA FlowAppend ==
  ASSUME NEW p, NEW e, NEW f, NEW c, NEW l, NEW s, BookTypes(p, e, f, c, l, s),
         NEW fill \in FillRecord, NEW x \in Int
  PROVE  FlowAppends(f, fill, c, x, l, s)
  <1> DEFINE n == Len(f)
             flow == Ledger!Units(fill) * (Value(fill.direction, l, s) - x)
  <1>1. /\ n \in Nat /\ Len(c) = n /\ f \in Seq(FillRecord) /\ c \in Seq(Int)
        /\ l \in Int /\ s \in Int
    BY DEF BookTypes
  <1>2. flow \in Int
    BY <1>1 DEF Value, Ledger!Units, FillRecord
  <1>3. /\ Len(Append(f, fill)) = n + 1 /\ Append(f, fill)[n + 1] = fill
        /\ Append(c, x)[n + 1] = x
        /\ \A i \in 1 .. n : Append(f, fill)[i] = f[i] /\ Append(c, x)[i] = c[i]
    BY <1>1
  <1>4. Flows(f, c, l, s) \in Seq(Int) /\ Len(Flows(f, c, l, s)) = n
    BY ValueTypes
  <1>5. Flows(Append(f, fill), Append(c, x), l, s) = Append(Flows(f, c, l, s), flow)
    BY <1>1, <1>3, <1>4 DEF Flows
  <1>6. Summed(Append(Flows(f, c, l, s), flow)) = Summed(Flows(f, c, l, s)) + flow
    BY <1>2, <1>4, SumAppend
  <1> QED
    BY <1>2, <1>5, <1>6 DEF FlowAppends

LEMMA OpeningProduct ==
  \A q, v, x \in Int : 1 * (v - x) * q = q * (v - x) /\ (-1) * (v - x) * q = (-q) * (v - x)
  OBVIOUS

\* A position opened at x by a fill at x.
Opening(p, e, f, c, l, s, t, new, x, fill) ==
  /\ BookTypes(p, e, f, c, l, s)
  /\ t \notin DOMAIN p /\ new \in HeldRecord /\ x \in Int /\ fill \in FillRecord
  /\ fill.direction = new.direction /\ fill.quantity = new.quantity /\ fill.opens
AfterOpening(r, p, e, f, c, l, s, t, new, x, fill) ==
  Balances(r, p, e, f, c, l, s) =>
    Balances(r, Ledger!With(p, t, new), Ledger!With(e, t, x), Append(f, fill), Append(c, x),
             l, s)

LEMMA OpeningBalances ==
  ASSUME NEW r \in Int, NEW p, NEW e, NEW f, NEW c, NEW l, NEW s, NEW t, NEW new, NEW x,
         NEW fill, Opening(p, e, f, c, l, s, t, new, x, fill)
  PROVE  AfterOpening(r, p, e, f, c, l, s, t, new, x, fill)
  <1> DEFINE S == DOMAIN p
             pp == Ledger!With(p, t, new)
             ee == Ledger!With(e, t, x)
             h == HeldValues(p, e, l, s)
             hh == HeldValues(pp, ee, l, s)
             flow == Ledger!Units(fill) * (Value(fill.direction, l, s) - x)
  <1>1. /\ BookTypes(p, e, f, c, l, s) /\ fill \in FillRecord /\ x \in Int /\ t \notin S
        /\ new \in HeldRecord /\ IsFiniteSet(S) /\ l \in Int /\ s \in Int
    BY DEF Opening, BookTypes
  <1>2. /\ DOMAIN pp = S \cup {t} /\ pp[t] = new /\ ee[t] = x
        /\ \A k \in S : pp[k] = p[k] /\ ee[k] = e[k]
    BY <1>1 DEF Ledger!With, Opening, BookTypes
  <1>3. FlowAppends(f, fill, c, x, l, s)
    BY <1>1, FlowAppend
  <1>4. Summed(Flows(Append(f, fill), Append(c, x), l, s)) = Summed(Flows(f, c, l, s)) + flow
        /\ flow \in Int
    BY <1>3 DEF FlowAppends
  <1>5. h \in [S -> Int] /\ Flows(f, c, l, s) \in Seq(Int)
    BY <1>1, ValueTypes
  <1>6. hh[t] = flow
    <2>1. hh[t] = Ledger!SignedPnl(new.direction, x, Value(new.direction, l, s), new.quantity)
      BY <1>2 DEF HeldValues
    <2>2. PICK v \in Int : v = Value(new.direction, l, s)
      BY <1>1 DEF Value
    <2>3. PICK q \in Int : q = new.quantity
      BY <1>1 DEF HeldRecord
    <2>4. /\ new.direction \in Sides
          /\ fill.direction = new.direction /\ fill.quantity = q /\ fill.opens = TRUE
      BY <1>1, <2>3 DEF HeldRecord, Opening
    <2>5. CASE new.direction = "LONG"
      <3>1. hh[t] = 1 * (v - x) * q
        BY <2>1, <2>2, <2>3, <2>5 DEF Ledger!SignedPnl, Ledger!Sign
      <3>2. flow = q * (v - x)
        BY <2>2, <2>4, <2>5 DEF Ledger!Units, Ledger!Bought
      <3> QED
        BY <3>1, <3>2, <2>2, <2>3, <1>1, OpeningProduct
    <2>6. CASE new.direction = "SHORT"
      <3>1. hh[t] = (-1) * (v - x) * q
        BY <2>1, <2>2, <2>3, <2>6 DEF Ledger!SignedPnl, Ledger!Sign
      <3>2. flow = (-q) * (v - x)
        BY <2>2, <2>4, <2>6 DEF Ledger!Units, Ledger!Bought
      <3> QED
        BY <3>1, <3>2, <2>2, <2>3, <1>1, OpeningProduct
    <2> QED
      BY <2>4, <2>5, <2>6 DEF Sides
  <1>7. hh \in [S \cup {t} -> Int] /\ \A k \in S : hh[k] = h[k]
    <2>1. \A k \in S : hh[k] = h[k]
      BY <1>2 DEF HeldValues
    <2>2. \A k \in S \cup {t} : hh[k] \in Int
      BY <1>4, <1>5, <1>6, <2>1
    <2> QED
      BY <1>2, <2>1, <2>2 DEF HeldValues
  <1> HIDE DEF S, pp, ee, h, hh, flow
  <1>8. SetTotal(hh) = SetTotal(h) + hh[t] /\ SetTotal(h) \in Int
    <2>1. KeyAdded(S, t, h, hh)
      BY <1>1, <1>5, <1>7 DEF KeyAdded
    <2> QED
      BY <2>1, TotalWith
  <1>9. Summed(Flows(f, c, l, s)) \in Int
    BY <1>5, SumMonotone
  <1> QED
    BY <1>4, <1>6, <1>8, <1>9 DEF AfterOpening, Balances, hh, h, pp, ee

LEMMA ClosingProduct ==
  \A q, n, v, x, y \in Int :
    /\ 1 * (x - y) * q + 1 * (v - y) * (n - q) - 1 * (v - y) * n = (-q) * (v - x)
    /\ (-1) * (x - y) * q + (-1) * (v - y) * (n - q) - (-1) * (v - y) * n = q * (v - x)
  OBVIOUS

\* A position of which q is closed at x by a fill at x.
Closing(p, e, f, c, l, s, t, q, x, fill) ==
  /\ BookTypes(p, e, f, c, l, s)
  /\ t \in DOMAIN p /\ q \in Nat \ {0} /\ q <= p[t].quantity /\ x \in Int /\ fill \in FillRecord
  /\ fill.direction = p[t].direction /\ fill.quantity = q /\ fill.opens = FALSE

Rest(p, t, q) ==
  IF p[t].quantity = q THEN Ledger!Without(p, {t}) ELSE [p EXCEPT ![t].quantity = @ - q]
RestOwners(e, p, t, q) == IF p[t].quantity = q THEN Ledger!Without(e, {t}) ELSE e

AfterClosing(r, p, e, f, c, l, s, t, q, x, fill) ==
  Balances(r, p, e, f, c, l, s) =>
    Balances(r + Ledger!SignedPnl(p[t].direction, e[t], x, q),
             Rest(p, t, q), RestOwners(e, p, t, q), Append(f, fill), Append(c, x), l, s)

LEMMA ClosingBalances ==
  ASSUME NEW r \in Int, NEW p, NEW e, NEW f, NEW c, NEW l, NEW s, NEW t, NEW q, NEW x,
         NEW fill, Closing(p, e, f, c, l, s, t, q, x, fill)
  PROVE  AfterClosing(r, p, e, f, c, l, s, t, q, x, fill)
  <1> DEFINE S == DOMAIN p
             pp == Rest(p, t, q)
             ee == RestOwners(e, p, t, q)
             h == HeldValues(p, e, l, s)
             hh == HeldValues(pp, ee, l, s)
             flow == Ledger!Units(fill) * (Value(fill.direction, l, s) - x)
             d == p[t].direction
             v == Value(d, l, s)
             n == p[t].quantity
             net == Ledger!SignedPnl(d, e[t], x, q)
             rest == Ledger!SignedPnl(d, e[t], v, n - q)
  <1>1. /\ BookTypes(p, e, f, c, l, s) /\ fill \in FillRecord /\ x \in Int /\ t \in S
        /\ p[t] \in HeldRecord /\ IsFiniteSet(S) /\ l \in Int /\ s \in Int /\ e[t] \in Int
        /\ q \in Int /\ q <= n /\ n \in Int /\ d \in Sides
    BY DEF Closing, BookTypes, HeldRecord
  <1>2. v \in Int
    BY <1>1 DEF Value
  <1>3. FlowAppends(f, fill, c, x, l, s)
    BY <1>1, FlowAppend
  <1>4. Summed(Flows(Append(f, fill), Append(c, x), l, s)) = Summed(Flows(f, c, l, s)) + flow
        /\ flow \in Int
    BY <1>3 DEF FlowAppends
  <1>5. h \in [S -> Int] /\ Flows(f, c, l, s) \in Seq(Int)
    BY <1>1, ValueTypes
  <1>6. h[t] = Ledger!SignedPnl(d, e[t], v, n)
    BY <1>1 DEF HeldValues
  <1>7. flow = net + rest - h[t] /\ net \in Int /\ rest \in Int /\ h[t] \in Int
    <2>1. PICK y \in Int : y = e[t]
      BY <1>1
    <2>2. PICK w \in Int : w = v
      BY <1>2
    <2>3. PICK m \in Int : m = n
      BY <1>1
    <2>4. fill.direction = d /\ fill.quantity = q /\ fill.opens = FALSE
      BY DEF Closing
    <2>5. CASE d = "LONG"
      <3>1. flow = (-q) * (w - x)
        BY <1>1, <2>2, <2>4, <2>5 DEF Ledger!Units, Ledger!Bought
      <3>2. /\ net = 1 * (x - y) * q /\ rest = 1 * (w - y) * (m - q)
            /\ h[t] = 1 * (w - y) * m
        BY <1>6, <2>1, <2>2, <2>3, <2>5 DEF Ledger!SignedPnl, Ledger!Sign
      <3> HIDE DEF net, rest, flow, h, v, n, d
      <3> QED
        BY <1>1, <3>1, <3>2, ClosingProduct
    <2>6. CASE d = "SHORT"
      <3>1. flow = q * (w - x)
        BY <1>1, <2>2, <2>4, <2>6 DEF Ledger!Units, Ledger!Bought
      <3>2. /\ net = (-1) * (x - y) * q /\ rest = (-1) * (w - y) * (m - q)
            /\ h[t] = (-1) * (w - y) * m
        BY <1>6, <2>1, <2>2, <2>3, <2>6 DEF Ledger!SignedPnl, Ledger!Sign
      <3> HIDE DEF net, rest, flow, h, v, n, d
      <3> QED
        BY <1>1, <3>1, <3>2, ClosingProduct
    <2> QED
      BY <1>1, <2>5, <2>6 DEF Sides
  <1>8. SetTotal(hh) = SetTotal(h) + rest - h[t] /\ SetTotal(h) \in Int
    <2>1. CASE n = q
      <3>1. /\ DOMAIN pp = S \ {t}
            /\ \A k \in S \ {t} : pp[k] = p[k] /\ ee[k] = e[k]
        BY <1>1, <2>1 DEF Rest, RestOwners, Ledger!Without, BookTypes
      <3>2. /\ \A k \in S \ {t} : hh[k] = h[k]
            /\ hh \in [S \ {t} -> Int]
        BY <1>5, <3>1 DEF HeldValues
      <3>3. rest = 0
        <4>1. n - q = 0
          BY <1>1, <2>1
        <4>2. PICK y \in Int : y = (v - e[t])
          BY <1>1, <1>2
        <4>3. 1 * y * 0 = 0 /\ (-1) * y * 0 = 0
          BY <4>2
        <4> QED
          BY <4>1, <4>2, <4>3 DEF Ledger!SignedPnl, Ledger!Sign
      <3>4. /\ IsFiniteSet(S \ {t}) /\ t \notin S \ {t} /\ (S \ {t}) \cup {t} = S
            /\ h \in [(S \ {t}) \cup {t} -> Int]
        BY <1>1, <1>5, FS_RemoveElement
      <3> HIDE DEF h, hh, rest
      <3>5. SetTotal(h) = SetTotal(hh) + h[t] /\ SetTotal(hh) \in Int
        <4>1. KeyAdded(S \ {t}, t, hh, h)
          BY <3>2, <3>4 DEF KeyAdded
        <4> QED
          BY <4>1, TotalWith
      <3> QED
        BY <1>7, <3>3, <3>5
    <2>2. CASE n # q
      <3>1. /\ DOMAIN pp = S /\ ee = e
            /\ \A k \in S : k # t => pp[k] = p[k]
            /\ pp[t].direction = d /\ pp[t].quantity = n - q
        BY <1>1, <2>2 DEF Rest, RestOwners, BookTypes, HeldRecord
      <3>2. /\ \A k \in S : k # t => hh[k] = h[k]
            /\ hh[t] = rest
        BY <1>1, <3>1 DEF HeldValues
      <3>3. hh \in [S -> Int]
        <4>1. \A k \in S : hh[k] \in Int
          BY <1>5, <1>7, <3>2
        <4> QED
          BY <3>1, <4>1 DEF HeldValues
      <3> HIDE DEF h, hh, rest
      <3>4. SetTotal(hh) = SetTotal(h) + hh[t] - h[t] /\ SetTotal(h) \in Int
        BY <1>1, <1>5, <3>2, <3>3, TotalChanged
      <3> QED
        BY <3>2, <3>4
    <2> QED
      BY <2>1, <2>2
  <1> HIDE DEF pp, ee, h, hh, flow, net, rest
  <1>9. Summed(Flows(f, c, l, s)) \in Int
    BY <1>5, SumMonotone
  <1>10. Balances(r, p, e, f, c, l, s) =>
           r + net + SetTotal(hh) = Summed(Flows(Append(f, fill), Append(c, x), l, s))
    BY <1>4, <1>7, <1>8, <1>9 DEF Balances, h
  <1> QED
    BY <1>10 DEF AfterClosing, Balances, hh, pp, ee, net

-----------------------------------------------------------------------------
(* The latest of the ticks, and the equity at it.                          *)

TickRecord == [mid: Int, time: Int, known: Int, fills: Nat]

\* i is the latest of the first k ticks, in the order of the broker.
Latest(tk, i, k) ==
  i \in 1 .. k /\ \A j \in 1 .. k : tk[j].time < tk[i].time \/ (tk[j].time = tk[i].time /\ j <= i)
LatestAt(tk, k) ==
  CHOOSE i \in 1 .. k : \A j \in 1 .. k :
    tk[j].time < tk[i].time \/ (tk[j].time = tk[i].time /\ j <= i)
HasLatest(tk) == \A k \in 1 .. Len(tk) : \E i \in 1 .. k : Latest(tk, i, k)

\* The equity of n fills at the latest of k ticks.
CashAt(f, tk, n, k) ==
  LET price(direction) == Ledger!ClosePrice(direction, tk[LatestAt(tk, k)])
  IN InitialEquity
     + Summed([i \in 1 .. n |-> Ledger!Units(f[i]) * (price(f[i].direction) - f[i].price)])

LEMMA LatestUnique ==
  ASSUME NEW tk \in Seq(TickRecord), NEW k \in 1 .. Len(tk), NEW i, Latest(tk, i, k)
  PROVE  LatestAt(tk, k) = i
  <1>0. /\ \A a \in 1 .. Len(tk) : tk[a] \in TickRecord
        /\ \A a \in 1 .. k : a \in 1 .. Len(tk)
    OBVIOUS
  <1>1. \A a \in 1 .. k : tk[a].time \in Int
    BY <1>0 DEF TickRecord
  <1>2. LatestAt(tk, k) \in 1 .. k /\ Latest(tk, LatestAt(tk, k), k)
    <2>1. i \in 1 .. k /\ \A j \in 1 .. k :
            tk[j].time < tk[i].time \/ (tk[j].time = tk[i].time /\ j <= i)
      BY DEF Latest
    <2> QED
      BY <2>1, Zenon DEF LatestAt, Latest
  <1>3. PICK a : a = LatestAt(tk, k)
    OBVIOUS
  <1>4. Latest(tk, a, k) /\ a \in 1 .. k /\ i \in 1 .. k
    BY <1>2, <1>3 DEF Latest
  <1>5. /\ tk[a].time < tk[i].time \/ (tk[a].time = tk[i].time /\ a <= i)
        /\ tk[i].time < tk[a].time \/ (tk[i].time = tk[a].time /\ i <= a)
    BY <1>4 DEF Latest
  <1>6. a = i
    BY <1>1, <1>4, <1>5
  <1> QED
    BY <1>3, <1>6

\* What came before stays what it was.
Continues(f, ff, tk, tt) ==
  /\ f \in Seq(FillRecord) /\ ff \in Seq(FillRecord)
  /\ tk \in Seq(TickRecord) /\ tt \in Seq(TickRecord)
  /\ Len(f) <= Len(ff) /\ Len(tk) <= Len(tt)
  /\ \A i \in 1 .. Len(f) : ff[i] = f[i]
  /\ \A i \in 1 .. Len(tk) : tt[i].time = tk[i].time /\ tt[i].mid = tk[i].mid
  /\ HasLatest(tk)

SameLatest(tk, tt, k) ==
  \E i \in 1 .. k : LatestAt(tk, k) = i /\ LatestAt(tt, k) = i

LEMMA LatestStays ==
  ASSUME NEW f, NEW ff, NEW tk, NEW tt, Continues(f, ff, tk, tt), NEW k \in 1 .. Len(tk)
  PROVE  SameLatest(tk, tt, k)
  <1>1. PICK i \in 1 .. k : Latest(tk, i, k)
    BY DEF Continues, HasLatest
  <1>2. /\ tk \in Seq(TickRecord) /\ tt \in Seq(TickRecord) /\ k \in 1 .. Len(tt)
        /\ \A j \in 1 .. k : tt[j].time = tk[j].time
    BY DEF Continues
  <1>3. Latest(tt, i, k)
    BY <1>1, <1>2 DEF Latest
  <1>4. LatestAt(tk, k) = i
    BY <1>1, <1>2, LatestUnique
  <1>5. LatestAt(tt, k) = i
    BY <1>2, <1>3, LatestUnique
  <1> QED
    BY <1>4, <1>5 DEF SameLatest

CashStayed(f, ff, tk, tt, n, k) == CashAt(ff, tt, n, k) = CashAt(f, tk, n, k)

LEMMA CashStays ==
  ASSUME NEW f, NEW ff, NEW tk, NEW tt, Continues(f, ff, tk, tt),
         NEW n \in Nat, n <= Len(f), NEW k \in 1 .. Len(tk)
  PROVE  CashStayed(f, ff, tk, tt, n, k)
  <1>0. SameLatest(tk, tt, k)
    BY LatestStays
  <1>1. PICK i \in 1 .. k : LatestAt(tk, k) = i /\ LatestAt(tt, k) = i
    BY <1>0 DEF SameLatest
  <1>2. tt[i].mid = tk[i].mid /\ \A j \in 1 .. n : ff[j] = f[j]
    <2>1. i \in 1 .. Len(tk) /\ Len(f) \in Nat
      BY <1>1 DEF Continues
    <2>2. tt[i].mid = tk[i].mid
      BY <2>1 DEF Continues
    <2>3. \A j \in 1 .. Len(f) : ff[j] = f[j]
      BY DEF Continues
    <2> QED
      BY <2>1, <2>2, <2>3
  <1>3. \A direction : Ledger!ClosePrice(direction, tt[i]) = Ledger!ClosePrice(direction, tk[i])
    BY <1>2 DEF Ledger!ClosePrice
  <1>4. [j \in 1 .. n |-> Ledger!Units(ff[j])
                            * (Ledger!ClosePrice(ff[j].direction, tt[i]) - ff[j].price)]
        = [j \in 1 .. n |-> Ledger!Units(f[j])
                              * (Ledger!ClosePrice(f[j].direction, tk[i]) - f[j].price)]
    BY <1>2, <1>3
  <1> QED
    BY <1>1, <1>4 DEF CashStayed, CashAt

-----------------------------------------------------------------------------
(* The drawdown of a curve.                                                *)

\* pk is the highest value, dd the deepest fall.
CurveOf(E, at, pk, dd) ==
  /\ \A i \in E : at[i] <= pk
  /\ \E i \in E : at[i] = pk
  /\ \A i \in E, j \in E : i <= j => at[i] - at[j] <= dd
  /\ dd >= 0
  /\ dd # 0 => \E i \in E, j \in E : i <= j /\ at[i] - at[j] = dd

\* One point more, the last.
CurveGrows(E, at, pk, dd, n, bt) ==
  /\ CurveOf(E, at, pk, dd)
  /\ E \in SUBSET Nat /\ at \in [E -> Int] /\ pk \in Int /\ dd \in Int
  /\ n \in Nat /\ \A i \in E : i < n
  /\ bt \in [E \cup {n} -> Int] /\ \A i \in E : bt[i] = at[i]
CurveGrown(E, pk, dd, n, bt) ==
  LET top == Ledger!Greater(pk, bt[n])
  IN CurveOf(E \cup {n}, bt, top, Ledger!Greater(dd, top - bt[n]))

LEMMA CurvePoint ==
  ASSUME NEW E, NEW at, NEW pk, NEW dd, NEW n, NEW bt, CurveGrows(E, at, pk, dd, n, bt)
  PROVE  CurveGrown(E, pk, dd, n, bt)
  <1>0. PICK v \in Int : v = bt[n]
    BY DEF CurveGrows
  <1>1. PICK top \in Int : top = IF pk > v THEN pk ELSE v
    BY DEF CurveGrows
  <1>2. PICK low \in Int : low = IF dd > top - v THEN dd ELSE top - v
    BY <1>0, <1>1 DEF CurveGrows
  <1>3. /\ E \in SUBSET Nat /\ pk \in Int /\ dd \in Int /\ n \in Nat
        /\ \A i \in E : i < n /\ bt[i] = at[i] /\ bt[i] \in Int
        /\ dd >= 0
    BY DEF CurveGrows, CurveOf
  <1>4. /\ \A i \in E : bt[i] <= pk
        /\ \A i \in E, j \in E : i <= j => bt[i] - bt[j] <= dd
    BY <1>3 DEF CurveGrows, CurveOf
  <1>5. PICK a \in E : bt[a] = pk
    BY <1>3 DEF CurveGrows, CurveOf
  <1>6. dd # 0 => \E i \in E, j \in E : i <= j /\ bt[i] - bt[j] = dd
    BY <1>3 DEF CurveGrows, CurveOf
  <1>7. \A i \in E \cup {n} : bt[i] <= top
    BY <1>0, <1>1, <1>3, <1>4
  <1>8. PICK b \in E \cup {n} : bt[b] = top /\ b <= n
    BY <1>0, <1>1, <1>3, <1>5
  <1>9. ASSUME NEW i \in E \cup {n}, NEW j \in E \cup {n}, i <= j
        PROVE  bt[i] - bt[j] <= low
    <2>1. CASE j = n
      BY <1>0, <1>1, <1>2, <1>3, <1>7, <2>1
    <2>2. CASE j # n
      BY <1>2, <1>3, <1>4, <1>9, <2>2
    <2> QED
      BY <2>1, <2>2
  <1>10. low >= 0
    BY <1>2, <1>3
  <1>11. low # 0 => \E i \in E \cup {n}, j \in E \cup {n} : i <= j /\ bt[i] - bt[j] = low
    <2>1. CASE low = dd
      BY <1>6, <2>1
    <2>2. CASE low = top - v
      BY <1>0, <1>8, <2>2
    <2> QED
      BY <1>2, <2>1, <2>2
  <1>12. CurveOf(E \cup {n}, bt, top, low)
    BY <1>7, <1>8, <1>9, <1>10, <1>11 DEF CurveOf
  <1>13. Ledger!Greater(pk, bt[n]) = top /\ Ledger!Greater(dd, top - bt[n]) = low
    BY <1>0, <1>1, <1>2 DEF Ledger!Greater
  <1> QED
    BY <1>12, <1>13 DEF CurveGrown

-----------------------------------------------------------------------------
(* What the fills cost.                                                    *)

PricesOf(f) == [i \in 1 .. Len(f) |-> f[i].price]
MidsOf(f) == [i \in 1 .. Len(f) |-> f[i].mid]
NothingOf(f) == [i \in 1 .. Len(f) |-> 0]
Costs(f) == [i \in 1 .. Len(f) |-> Ledger!Units(f[i]) * (f[i].price - f[i].mid)]

LEMMA CostProduct ==
  \A u, m, a, b, h \in Int :
    /\ u * (m - b) = u * ((m - h) - a) + (u * (a - b) + u * (h - 0))
    /\ u * (m - b) = u * ((m + h) - a) + (u * (a - b) + u * ((-h) - 0))
  OBVIOUS

\* The units of a fill, with the sign of its side, are a number.
LEMMA UnitsTyped ==
  ASSUME NEW r \in FillRecord
  PROVE  Ledger!Units(r) \in Int
  <1>1. r.quantity \in Int
    BY DEF FillRecord
  <1>. QED
    BY <1>1 DEF Ledger!Units

\* At the mid the fills come to what they come to at the prices of the sides,
\* and what they cost, and the spread of what they left open.
CostsSplit(f, m, h) ==
  /\ Summed(Flows(f, MidsOf(f), m, m)) =
       Summed(Flows(f, PricesOf(f), m - h, m + h))
         + (Summed(Costs(f)) + Summed(Flows(f, NothingOf(f), h, -h)))
  /\ Summed(Flows(f, MidsOf(f), m, m)) \in Int
  /\ Summed(Flows(f, PricesOf(f), m - h, m + h)) \in Int
  /\ Summed(Costs(f)) \in Int /\ Summed(Flows(f, NothingOf(f), h, -h)) \in Int

LEMMA SplitCosts ==
  ASSUME NEW f \in Seq(FillRecord), NEW m \in Int, NEW h \in Int
  PROVE  CostsSplit(f, m, h)
  <1> DEFINE n == Len(f)
             A == Flows(f, MidsOf(f), m, m)
             B == Flows(f, PricesOf(f), m - h, m + h)
             C == Costs(f)
             D == Flows(f, NothingOf(f), h, -h)
             cd == [i \in 1 .. n |-> C[i] + D[i]]
  <1>0. n \in Nat
    OBVIOUS
  <1>1. ASSUME NEW i \in 1 .. n
        PROVE  /\ A[i] \in Int /\ B[i] \in Int /\ C[i] \in Int /\ D[i] \in Int
               /\ A[i] = B[i] + (C[i] + D[i])
    <2>1. f[i] \in FillRecord
      OBVIOUS
    <2>e. Ledger!Units(f[i]) \in Int
      BY <2>1, UnitsTyped
    <2>2. PICK u \in Int : u = Ledger!Units(f[i])
      BY <2>e
    <2>3. PICK a \in Int : a = f[i].price
      BY <2>1 DEF FillRecord
    <2>4. PICK b \in Int : b = f[i].mid
      BY <2>1 DEF FillRecord
    <2>5. /\ A[i] = u * (Value(f[i].direction, m, m) - b)
          /\ B[i] = u * (Value(f[i].direction, m - h, m + h) - a)
          /\ C[i] = u * (a - b)
          /\ D[i] = u * (Value(f[i].direction, h, -h) - 0)
      BY <1>0, <2>2, <2>3, <2>4, Zenon DEF Flows, Costs, MidsOf, PricesOf, NothingOf
    <2>6. CASE f[i].direction = "LONG"
      <3>1. /\ A[i] = u * (m - b) /\ B[i] = u * ((m - h) - a)
            /\ C[i] = u * (a - b) /\ D[i] = u * (h - 0)
        BY <2>5, <2>6 DEF Value
      <3> HIDE DEF A, B, C, D
      <3> QED
        BY <3>1, CostProduct
    <2>7. CASE f[i].direction # "LONG"
      <3>1. /\ A[i] = u * (m - b) /\ B[i] = u * ((m + h) - a)
            /\ C[i] = u * (a - b) /\ D[i] = u * ((-h) - 0)
        BY <2>5, <2>7 DEF Value
      <3> HIDE DEF A, B, C, D
      <3> QED
        BY <3>1, CostProduct
    <2> QED
      BY <2>6, <2>7
  <1>2. /\ DOMAIN A = 1 .. n /\ DOMAIN B = 1 .. n /\ DOMAIN C = 1 .. n /\ DOMAIN D = 1 .. n
        /\ A = [i \in 1 .. n |-> A[i]] /\ B = [i \in 1 .. n |-> B[i]]
        /\ C = [i \in 1 .. n |-> C[i]] /\ D = [i \in 1 .. n |-> D[i]]
    BY DEF Flows, Costs
  <1> HIDE DEF A, B, C, D
  <1>3. /\ A \in Seq(Int) /\ Len(A) = n /\ B \in Seq(Int) /\ Len(B) = n
        /\ C \in Seq(Int) /\ Len(C) = n /\ D \in Seq(Int) /\ Len(D) = n
    BY <1>0, <1>1, <1>2
  <1>4. cd \in Seq(Int) /\ Len(cd) = n /\ \A i \in 1 .. n : cd[i] = C[i] + D[i]
    BY <1>0, <1>1
  <1> HIDE DEF cd, n
  <1>5. Summed(cd) = Summed(C) + Summed(D)
    <2>1. /\ C \in Seq(Int) /\ D \in Seq(Int) /\ cd \in Seq(Int)
          /\ Len(C) = Len(cd) /\ Len(D) = Len(cd)
          /\ \A i \in 1 .. Len(cd) : cd[i] = C[i] + D[i]
      BY <1>3, <1>4
    <2> QED
      BY <2>1, SumAdded
  <1>6. Summed(A) = Summed(B) + Summed(cd)
    <2>1. \A i \in 1 .. n : A[i] = B[i] + cd[i]
      BY <1>1, <1>4
    <2>2. /\ B \in Seq(Int) /\ cd \in Seq(Int) /\ A \in Seq(Int)
          /\ Len(B) = Len(A) /\ Len(cd) = Len(A)
          /\ \A i \in 1 .. Len(A) : A[i] = B[i] + cd[i]
      BY <1>3, <1>4, <2>1
    <2> QED
      BY <2>2, SumAdded
  <1>7. Summed(A) \in Int /\ Summed(B) \in Int /\ Summed(C) \in Int /\ Summed(D) \in Int
    <2>1. ASSUME NEW q \in Seq(Int) PROVE Summed(q) \in Int
      BY SumMonotone
    <2> QED
      BY <1>3, <2>1
  <1> QED
    BY <1>5, <1>6, <1>7 DEF CostsSplit, A, B, C, D

\* No fill is better than the mid: what the fills cost is no gain.
LEMMA CostsAdverse ==
  ASSUME NEW f \in Seq(FillRecord),
         \A i \in 1 .. Len(f) : Ledger!Units(f[i]) * (f[i].price - f[i].mid) >= 0
  PROVE  Summed(Costs(f)) >= 0
  <1> DEFINE zeros == [i \in 1 .. Len(f) |-> 0]
             C == Costs(f)
  <1>0. Len(f) \in Nat
    OBVIOUS
  <1>1. \A i \in 1 .. Len(f) : C[i] \in Int /\ C[i] >= 0
    <2>1. ASSUME NEW i \in 1 .. Len(f)
          PROVE  Ledger!Units(f[i]) * (f[i].price - f[i].mid) \in Int
      <3>1. f[i] \in FillRecord
        OBVIOUS
      <3>2. Ledger!Units(f[i]) \in Int
        BY <3>1, UnitsTyped
      <3>3. f[i].price \in Int
        BY <3>1 DEF FillRecord
      <3>4. f[i].mid \in Int
        BY <3>1 DEF FillRecord
      <3> QED
        BY <3>2, <3>3, <3>4
    <2> QED
      BY <2>1 DEF Costs
  <1>2. zeros \in Seq(Int) /\ Len(zeros) = Len(f) /\ \A i \in 1 .. Len(zeros) : zeros[i] = 0
    BY <1>0
  <1>3. C \in Seq(Int) /\ Len(C) = Len(f)
    BY <1>0, <1>1 DEF Costs
  <1> HIDE DEF zeros, C
  <1>4. \A i \in 1 .. Len(zeros) : zeros[i] <= C[i]
    BY <1>1, <1>2
  <1>5. Summed(zeros) = 0 /\ Summed(zeros) <= Summed(C) /\ Summed(C) \in Int
    BY <1>2, <1>3, <1>4, SumZero, SumMonotone
  <1> QED
    BY <1>5 DEF C

-----------------------------------------------------------------------------
(* The results of days.                                                    *)

TradeRecord == [ticket: Nat, quantity: Nat, net: Int, at: Int]

\* The days from lo to hi, in the dictionary and in the trades.
Window(dates, lo, hi) == {d \in DOMAIN dates : lo <= d /\ d <= hi}
DayTotals(dates, lo, hi) == [at \in Window(dates, lo, hi) |-> dates[at]]
DayNets(tr, n, lo, hi) ==
  [i \in 1 .. n |-> IF lo <= tr[i].at /\ tr[i].at <= hi THEN tr[i].net ELSE 0]
DaysAgree(dates, tr, lo, hi) ==
  SetTotal(DayTotals(dates, lo, hi)) = Summed(DayNets(tr, Len(tr), lo, hi))

DatesType(dates) ==
  /\ DOMAIN dates \in SUBSET Int /\ IsFiniteSet(DOMAIN dates)
  /\ dates \in [DOMAIN dates -> Int]

Settles(dates, ee, tr, trade, lo, hi) ==
  /\ DatesType(dates) /\ tr \in Seq(TradeRecord) /\ trade \in TradeRecord
  /\ lo \in Int /\ hi \in Int
  /\ ee = Ledger!With(dates, trade.at,
                      trade.net + IF trade.at \in DOMAIN dates THEN dates[trade.at] ELSE 0)
DaysSettled(dates, ee, tr, trade, lo, hi) ==
  /\ DatesType(ee)
  /\ DaysAgree(dates, tr, lo, hi) => DaysAgree(ee, Append(tr, trade), lo, hi)

LEMMA DaySettles ==
  ASSUME NEW dates, NEW ee, NEW tr, NEW trade, NEW lo, NEW hi,
         Settles(dates, ee, tr, trade, lo, hi)
  PROVE  DaysSettled(dates, ee, tr, trade, lo, hi)
  <1> DEFINE n == Len(tr)
             longer == Append(tr, trade)
             here == lo <= trade.at /\ trade.at <= hi
             more == IF here THEN trade.net ELSE 0
             R == Window(dates, lo, hi)
             f == DayTotals(dates, lo, hi)
             g == DayTotals(ee, lo, hi)
             nets == DayNets(tr, n, lo, hi)
  <1>1. /\ tr \in Seq(TradeRecord) /\ n \in Nat /\ lo \in Int /\ hi \in Int
        /\ trade.at \in Int /\ trade.net \in Int /\ trade \in TradeRecord
        /\ DOMAIN dates \in SUBSET Int /\ IsFiniteSet(DOMAIN dates)
        /\ dates \in [DOMAIN dates -> Int]
    BY DEF Settles, DatesType, TradeRecord
  <1>2. /\ DOMAIN ee = DOMAIN dates \cup {trade.at}
        /\ ee[trade.at] =
             trade.net + IF trade.at \in DOMAIN dates THEN dates[trade.at] ELSE 0
        /\ \A d \in DOMAIN dates : d # trade.at => ee[d] = dates[d]
        /\ ee = [d \in DOMAIN ee |-> ee[d]]
    BY DEF Settles, Ledger!With
  <1>3. DatesType(ee)
    <2>1. IsFiniteSet(DOMAIN ee) /\ DOMAIN ee \in SUBSET Int
      BY <1>1, <1>2, FS_AddElement
    <2>2. \A d \in DOMAIN ee : ee[d] \in Int
      BY <1>1, <1>2
    <2> QED
      BY <1>2, <2>1, <2>2 DEF DatesType
  <1>4. nets \in Seq(Int) /\ Len(nets) = n /\ more \in Int
    <2>1. ASSUME NEW i \in 1 .. n PROVE tr[i].net \in Int
      <3>1. tr[i] \in TradeRecord
        BY <1>1
      <3> QED
        BY <3>1 DEF TradeRecord
    <2> QED
      BY <1>1, <2>1 DEF DayNets
  <1>5. DayNets(longer, Len(longer), lo, hi) = Append(nets, more)
    <2>1. /\ Len(longer) = n + 1 /\ longer[n + 1] = trade
          /\ \A i \in 1 .. n : longer[i] = tr[i]
      BY <1>1
    <2> QED
      BY <1>1, <1>4, <2>1 DEF DayNets
  <1>6. Summed(DayNets(longer, Len(longer), lo, hi)) = Summed(nets) + more
        /\ Summed(nets) \in Int
    <2>1. Summed(Append(nets, more)) = Summed(nets) + more
      BY <1>4, SumAppend
    <2>2. Summed(nets) \in Int
      BY <1>4, SumMonotone
    <2> QED
      BY <1>5, <2>1, <2>2
  <1>7. /\ IsFiniteSet(R) /\ f \in [R -> Int] /\ R \in SUBSET DOMAIN dates
        /\ \A d \in R : f[d] = dates[d]
    <2>1. R \in SUBSET DOMAIN dates
      BY DEF Window
    <2>2. IsFiniteSet(R)
      BY <1>1, <2>1, FS_Subset
    <2> QED
      BY <1>1, <2>1, <2>2 DEF DayTotals
  <1>8. /\ Window(ee, lo, hi) = IF here THEN R \cup {trade.at} ELSE R
        /\ \A d \in Window(ee, lo, hi) : g[d] = ee[d]
        /\ g \in [Window(ee, lo, hi) -> Int]
    <2>1. Window(ee, lo, hi) = IF here THEN R \cup {trade.at} ELSE R
      BY <1>2 DEF Window
    <2>2. \A d \in Window(ee, lo, hi) : ee[d] \in Int
      BY <1>3 DEF DatesType, Window
    <2> QED
      BY <2>1, <2>2 DEF DayTotals
  <1>9. SetTotal(g) = SetTotal(f) + more /\ SetTotal(f) \in Int
    <2>1. CASE ~here
      <3>1. Window(ee, lo, hi) = R /\ \A d \in R : d # trade.at
        BY <1>8, <2>1 DEF Window
      <3>2. g = f
        BY <1>2, <1>7, <1>8, <3>1
      <3>3. SetTotal(f) \in Int
        BY <1>7, SetEnumerated, TotalOf
      <3> QED
        BY <2>1, <3>2, <3>3
    <2>2. CASE here /\ trade.at \in DOMAIN dates
      <3>1. Window(ee, lo, hi) = R /\ trade.at \in R /\ more = trade.net
        BY <1>8, <2>2 DEF Window
      <3>2. /\ IsFiniteSet(R) /\ trade.at \in R /\ f \in [R -> Int] /\ g \in [R -> Int]
            /\ \A d \in R : d # trade.at => g[d] = f[d]
        BY <1>2, <1>7, <1>8, <3>1
      <3>3. g[trade.at] = trade.net + f[trade.at] /\ f[trade.at] \in Int
        BY <1>2, <1>7, <1>8, <2>2, <3>1
      <3> HIDE DEF f, g, R, more, here
      <3>4. SetTotal(g) = SetTotal(f) + g[trade.at] - f[trade.at] /\ SetTotal(f) \in Int
        BY <3>2, TotalChanged
      <3> QED
        BY <1>1, <3>1, <3>3, <3>4
    <2>3. CASE here /\ trade.at \notin DOMAIN dates
      <3>1. /\ Window(ee, lo, hi) = R \cup {trade.at} /\ trade.at \notin R
            /\ more = trade.net
        BY <1>8, <2>3 DEF Window
      <3>2. /\ IsFiniteSet(R) /\ trade.at \notin R /\ f \in [R -> Int]
            /\ g \in [R \cup {trade.at} -> Int] /\ \A d \in R : g[d] = f[d]
        BY <1>2, <1>7, <1>8, <3>1
      <3>3. g[trade.at] = trade.net
        BY <1>1, <1>2, <1>8, <2>3, <3>1
      <3> HIDE DEF f, g, R, more, here
      <3>4. SetTotal(g) = SetTotal(f) + g[trade.at] /\ SetTotal(f) \in Int
        <4>1. KeyAdded(R, trade.at, f, g)
          BY <3>2 DEF KeyAdded
        <4> QED
          BY <4>1, TotalWith
      <3> QED
        BY <1>1, <3>1, <3>3, <3>4
    <2> QED
      BY <2>1, <2>2, <2>3
  <1> HIDE DEF f, g, nets, more, n, longer
  <1>10. DaysAgree(dates, tr, lo, hi) => DaysAgree(ee, longer, lo, hi)
    BY <1>6, <1>9 DEF DaysAgree, f, g, nets, n
  <1> QED
    BY <1>3, <1>10 DEF DaysSettled, longer

\* How many fills open, or close, a position.
OpenOrClose(f, b) == {i \in 1 .. Len(f) : f[i].opens = b}
CountOf(f, b) == Cardinality(OpenOrClose(f, b))
Counts(f, fill, b) ==
  /\ CountOf(f, b) \in Nat
  /\ CountOf(Append(f, fill), b) = CountOf(f, b) + IF fill.opens = b THEN 1 ELSE 0

LEMMA CountAppend ==
  ASSUME NEW f \in Seq(FillRecord), NEW fill \in FillRecord, NEW b \in BOOLEAN
  PROVE  Counts(f, fill, b)
  <1> DEFINE n == Len(f)
             A == OpenOrClose(f, b)
             B == OpenOrClose(Append(f, fill), b)
  <1>1. n \in Nat /\ Len(Append(f, fill)) = n + 1 /\ Append(f, fill)[n + 1] = fill
        /\ \A i \in 1 .. n : Append(f, fill)[i] = f[i]
    OBVIOUS
  <1>2. IsFiniteSet(A) /\ n + 1 \notin A
    <2>1. IsFiniteSet(1 .. n)
      BY <1>1, FS_Interval
    <2> QED
      BY <1>1, <2>1, FS_Subset DEF OpenOrClose
  <1>3. B = IF fill.opens = b THEN A \cup {n + 1} ELSE A
    BY <1>1 DEF OpenOrClose
  <1>4. Cardinality(A) \in Nat
    BY <1>2, FS_CardinalityType
  <1>5. Cardinality(A \cup {n + 1}) = Cardinality(A) + 1
    BY <1>2, FS_AddElement
  <1> QED
    BY <1>3, <1>4, <1>5 DEF Counts, CountOf

OpeningsIn(f) == CountOf(f, TRUE)
ClosingsIn(f) == CountOf(f, FALSE)
Counted(f, fill) ==
  /\ OpeningsIn(f) \in Nat /\ ClosingsIn(f) \in Nat
  /\ fill.opens = TRUE =>
       /\ OpeningsIn(Append(f, fill)) = OpeningsIn(f) + 1
       /\ ClosingsIn(Append(f, fill)) = ClosingsIn(f)
  /\ fill.opens = FALSE =>
       /\ OpeningsIn(Append(f, fill)) = OpeningsIn(f)
       /\ ClosingsIn(Append(f, fill)) = ClosingsIn(f) + 1

LEMMA CountFills ==
  ASSUME NEW f \in Seq(FillRecord), NEW fill \in FillRecord
  PROVE  Counted(f, fill)
  <1>1. PICK yes \in BOOLEAN : yes = TRUE
    OBVIOUS
  <1>2. PICK no \in BOOLEAN : no = FALSE
    OBVIOUS
  <1>3. OpeningsIn(f) = CountOf(f, yes) /\ ClosingsIn(f) = CountOf(f, no)
    BY <1>1, <1>2, Zenon DEF OpeningsIn, ClosingsIn
  <1>4. /\ OpeningsIn(Append(f, fill)) = CountOf(Append(f, fill), yes)
        /\ ClosingsIn(Append(f, fill)) = CountOf(Append(f, fill), no)
    BY <1>1, <1>2, Zenon DEF OpeningsIn, ClosingsIn
  <1>5. Counts(f, fill, yes) /\ Counts(f, fill, no)
    BY CountAppend
  <1>6. /\ CountOf(f, yes) \in Nat /\ CountOf(f, no) \in Nat
        /\ fill.opens = yes =>
             /\ CountOf(Append(f, fill), yes) = CountOf(f, yes) + 1
             /\ CountOf(Append(f, fill), no) = CountOf(f, no) + 0
        /\ fill.opens = no =>
             /\ CountOf(Append(f, fill), yes) = CountOf(f, yes) + 0
             /\ CountOf(Append(f, fill), no) = CountOf(f, no) + 1
    BY <1>1, <1>2, <1>5 DEF Counts
  <1>7. /\ OpeningsIn(f) \in Nat /\ ClosingsIn(f) \in Nat
        /\ fill.opens = TRUE =>
             /\ OpeningsIn(Append(f, fill)) = OpeningsIn(f) + 1
             /\ ClosingsIn(Append(f, fill)) = ClosingsIn(f) + 0
        /\ fill.opens = FALSE =>
             /\ OpeningsIn(Append(f, fill)) = OpeningsIn(f) + 0
             /\ ClosingsIn(Append(f, fill)) = ClosingsIn(f) + 1
    BY <1>1, <1>2, <1>3, <1>4, <1>6
  <1> QED
    BY <1>7 DEF Counted

-----------------------------------------------------------------------------
(* The invariant of the accounts.                                          *)

OwnerRecord == [price: Int, mid: Int]
SnapshotRecord ==
  [at: Int, balance: Int, equity: Int, day: Int, drawdown: Int, fills: Nat, ticks: Nat]

\* What is held and what was filled.
HoldingTypes ==
  /\ IsFiniteSet(DOMAIN positions) /\ positions \in [DOMAIN positions -> HeldRecord]
  /\ owners \in [DOMAIN positions -> OwnerRecord]
  /\ fills \in Seq(FillRecord)
  /\ realized \in Int /\ grossMid \in Int

\* A position is entered where it is owned, and its ticket is not given again.
Owned ==
  \A t \in DOMAIN positions :
    owners[t].price = positions[t].entry /\ t \in Nat /\ t < Ledger!NextTicket

Entries(p) == [t \in DOMAIN p |-> p[t].entry]
EntryMids(p, o) == [t \in DOMAIN p |-> o[t].mid]
Nothing(p) == [t \in DOMAIN p |-> 0]

CashHolds(l, s) ==
  Balances(realized, positions, Entries(positions), fills, PricesOf(fills), l, s)
MidsHold(m) ==
  Balances(grossMid, positions, EntryMids(positions, owners), fills, MidsOf(fills), m, m)
OpenHolds(l, s) == Balances(0, positions, Nothing(positions), fills, NothingOf(fills), l, s)

Adverse == \A i \in 1 .. Len(fills) : Ledger!Units(fills[i]) * (fills[i].price - fills[i].mid) >= 0

HoldingInv ==
  /\ HoldingTypes /\ Owned /\ Adverse
  /\ \A l, s \in Int : CashHolds(l, s)
  /\ \A m \in Int : MidsHold(m)
  /\ \A l, s \in Int : OpenHolds(l, s)

\* The days and the closings are those of the trades.
TradesInv ==
  /\ fills \in Seq(FillRecord) /\ trades \in Seq(TradeRecord) /\ DatesType(byDate)
  /\ \A lo, hi \in Int : DaysAgree(byDate, trades, lo, hi)
  /\ realized = Summed([i \in DOMAIN trades |-> trades[i].net])
  /\ ClosingsIn(fills) = Len(trades)

\* The mark is the latest of the ticks.
TicksInv ==
  /\ instant \in Int /\ ticks \in Seq(TickRecord) /\ HasLatest(ticks)
  /\ ticks # <<>> => Latest(ticks, mark, Len(ticks))
  /\ ticks = <<>> => phase = "idle" /\ mark = 0
  /\ phase # "idle" => ticks[Len(ticks)].known = instant
  /\ \A i \in 1 .. Len(ticks) : ticks[i].fills <= Len(fills)

\* The points of the drawdown: the ticks handled since the warm-up.
Handled == IF phase = "idle" THEN Len(ticks) ELSE Len(ticks) - 1
Points == {i \in 1 .. Handled : ticks[i].known >= EvaluateFrom} \cup {0}
Equities ==
  [i \in Points |-> IF i = 0 THEN InitialEquity ELSE CashAt(fills, ticks, ticks[i].fills, i)]
DrawdownInv ==
  /\ peak \in Int /\ drawdown \in Int
  /\ CurveOf(Points, Equities, peak, drawdown)

\* The last snapshot had the equity of its fills and the result of its day.
NetsOf(tr, n, t) == DayNets(tr, n, Ledger!JstStart(t), t)
ClosingsOf(f, n) == Cardinality({i \in 1 .. n : ~f[i].opens})
SnapshotInv ==
  /\ snapshots \in Seq(SnapshotRecord) /\ snapshots # <<>>
  /\ Len(snapshots) > 1 =>
       LET s == snapshots[Len(snapshots)]
       IN /\ s.fills <= Len(fills) /\ s.ticks \in 1 .. Len(ticks)
          /\ s.equity = CashAt(fills, ticks, s.fills, s.ticks)
          /\ s.day = Summed(NetsOf(trades, ClosingsOf(fills, s.fills), s.at))

\* Nothing follows the result, and it is exact.
ResultInv ==
  /\ curve \in Seq([at: Int, equity: Int])
  /\ result # <<>> =>
       /\ phase = "idle" /\ ticks # <<>>
       /\ result[1].equity = CashAt(fills, ticks, Len(fills), Len(ticks))
       /\ result[1].cost = Ledger!CashCost /\ result[1].cost >= 0
       /\ result[1].drawdown = drawdown
       /\ curve # <<>> => curve[Len(curve)] = [at |-> instant, equity |-> result[1].equity]

LedgerInv ==
  /\ HoldingInv /\ TradesInv /\ TicksInv /\ DrawdownInv /\ SnapshotInv /\ ResultInv

\* The sums of ReplayLedger are those of FoldTheorems.
LEMMA LedgerSums ==
  /\ \A s : Ledger!Summed(s) = Summed(s)
  /\ \A f : Ledger!Total(f) = SetTotal(f)
  /\ \A S : Ledger!Cardinality(S) = Cardinality(S)
  <1>0. \A S : Ledger!Cardinality(S) = Cardinality(S)
    BY Zenon DEF Ledger!Cardinality, Cardinality
  <1>1. \A s : Ledger!Summed(s) = Summed(s)
    BY Zenon DEF Ledger!Summed, Summed, Ledger!FoldLeft, FoldLeft, Ledger!MapThenFoldSet,
                 MapThenFoldSet, Ledger!Max, Max
  <1>2. \A S : Ledger!SetToSeq(S) = SetToSeq(S)
    BY <1>0, Zenon DEF Ledger!SetToSeq, SetToSeq, Ledger!IsInjective, IsInjective
  <1> QED
    BY <1>0, <1>1, <1>2, Zenon DEF Ledger!Total, SetTotal

LEMMA LedgerCash ==
  \A n, k : Ledger!CashEquity(n, k) = CashAt(fills, ticks, n, k)
  BY LedgerSums, Zenon DEF Ledger!CashEquity, Ledger!LatestOf, CashAt, LatestAt

-----------------------------------------------------------------------------
(* A fill.                                                                 *)

\* The columns of the fills, and those of the positions.
ColumnTypes(f) ==
  /\ PricesOf(f) \in Seq(Int) /\ Len(PricesOf(f)) = Len(f)
  /\ MidsOf(f) \in Seq(Int) /\ Len(MidsOf(f)) = Len(f)
  /\ NothingOf(f) \in Seq(Int) /\ Len(NothingOf(f)) = Len(f)
ColumnsAppend(f, fill) ==
  /\ PricesOf(Append(f, fill)) = Append(PricesOf(f), fill.price)
  /\ MidsOf(Append(f, fill)) = Append(MidsOf(f), fill.mid)
  /\ NothingOf(Append(f, fill)) = Append(NothingOf(f), 0)

LEMMA FillColumns ==
  ASSUME NEW f \in Seq(FillRecord)
  PROVE  ColumnTypes(f) /\ \A fill \in FillRecord : ColumnsAppend(f, fill)
  <1>1. Len(f) \in Nat /\ \A i \in 1 .. Len(f) : f[i] \in FillRecord
    OBVIOUS
  <1>2. \A i \in 1 .. Len(f) : f[i].price \in Int /\ f[i].mid \in Int
    BY <1>1 DEF FillRecord
  <1>3. ColumnTypes(f)
    BY <1>1, <1>2 DEF ColumnTypes, PricesOf, MidsOf, NothingOf
  <1>4. ASSUME NEW fill \in FillRecord
        PROVE  ColumnsAppend(f, fill)
    <2>1. /\ Len(Append(f, fill)) = Len(f) + 1 /\ Append(f, fill)[Len(f) + 1] = fill
          /\ \A i \in 1 .. Len(f) : Append(f, fill)[i] = f[i]
      BY <1>1
    <2>2. PricesOf(Append(f, fill)) = Append(PricesOf(f), fill.price)
      BY <1>1, <1>3, <2>1 DEF ColumnTypes, PricesOf
    <2>3. MidsOf(Append(f, fill)) = Append(MidsOf(f), fill.mid)
      BY <1>1, <1>3, <2>1 DEF ColumnTypes, MidsOf
    <2>4. NothingOf(Append(f, fill)) = Append(NothingOf(f), 0)
      BY <1>1, <1>3, <2>1 DEF ColumnTypes, NothingOf
    <2> QED
      BY <2>2, <2>3, <2>4 DEF ColumnsAppend
  <1> QED
    BY <1>3, <1>4

LEMMA HeldColumns ==
  ASSUME HoldingTypes
  PROVE  /\ Entries(positions) \in [DOMAIN positions -> Int]
         /\ EntryMids(positions, owners) \in [DOMAIN positions -> Int]
         /\ Nothing(positions) \in [DOMAIN positions -> Int]
         /\ \A l, s \in Int :
              /\ BookTypes(positions, Entries(positions), fills, PricesOf(fills), l, s)
              /\ BookTypes(positions, EntryMids(positions, owners), fills, MidsOf(fills), l, s)
              /\ BookTypes(positions, Nothing(positions), fills, NothingOf(fills), l, s)
  <1>1. \A t \in DOMAIN positions : positions[t].entry \in Int /\ owners[t].mid \in Int
    <2>1. ASSUME NEW t \in DOMAIN positions
          PROVE  positions[t] \in HeldRecord /\ owners[t] \in OwnerRecord
      BY DEF HoldingTypes
    <2> QED
      BY <2>1 DEF HeldRecord, OwnerRecord
  <1>2. /\ Entries(positions) \in [DOMAIN positions -> Int]
        /\ EntryMids(positions, owners) \in [DOMAIN positions -> Int]
        /\ Nothing(positions) \in [DOMAIN positions -> Int]
    BY <1>1 DEF Entries, EntryMids, Nothing
  <1>3. fills \in Seq(FillRecord)
    BY DEF HoldingTypes
  <1>4. ColumnTypes(fills)
    BY <1>3, FillColumns
  <1> QED
    BY <1>2, <1>3, <1>4 DEF HoldingTypes, BookTypes, ColumnTypes

\* The next ticket counts the openings.
TicketOf(f) == Ledger!Cardinality({i \in DOMAIN f : f[i].opens}) + 1
TicketCounts(f) == TicketOf(f) = OpeningsIn(f) + 1 /\ OpeningsIn(f) \in Nat

LEMMA TicketFacts ==
  ASSUME NEW f \in Seq(FillRecord)
  PROVE  TicketCounts(f)
  <1>0. PICK yes \in BOOLEAN : yes = TRUE
    OBVIOUS
  <1>1. \A i \in 1 .. Len(f) : f[i].opens \in BOOLEAN
    <2>1. \A i \in 1 .. Len(f) : f[i] \in FillRecord
      OBVIOUS
    <2> QED
      BY <2>1 DEF FillRecord
  <1>2. {i \in DOMAIN f : f[i].opens} = OpenOrClose(f, yes)
    <2>1. DOMAIN f = 1 .. Len(f)
      OBVIOUS
    <2>2. \A i \in 1 .. Len(f) : (f[i].opens = yes) <=> f[i].opens
      BY <1>0, <1>1, Zenon
    <2> QED
      BY <2>1, <2>2, Zenon DEF OpenOrClose
  <1>3. IsFiniteSet(OpenOrClose(f, yes))
    BY FS_Interval, FS_Subset DEF OpenOrClose
  <1>4. TicketOf(f) = CountOf(f, yes) + 1 /\ CountOf(f, yes) \in Nat
    BY <1>2, <1>3, LedgerSums, FS_CardinalityType DEF TicketOf, CountOf
  <1>5. OpeningsIn(f) = CountOf(f, yes)
    BY <1>0, Zenon DEF OpeningsIn
  <1> QED
    BY <1>4, <1>5 DEF TicketCounts

LEMMA NextTicketIs == Ledger!NextTicket = TicketOf(fills)
  BY DEF Ledger!NextTicket, TicketOf

LEMMA NextTicketWas == Ledger!NextTicket' = TicketOf(fills')
  BY DEF Ledger!NextTicket, TicketOf

LEMMA AdverseProduct ==
  \A q, a \in Nat : q * a >= 0 /\ (-q) * (-a) >= 0
  OBVIOUS

\* Where the spread and the slippage are no gain, so is a fill.
LEMMA FillAdverse ==
  ASSUME NEW fill \in FillRecord, NEW a \in Nat,
         fill.price - fill.mid = IF Ledger!Bought(fill) THEN a ELSE -a
  PROVE  Ledger!Units(fill) * (fill.price - fill.mid) >= 0
  <1>1. PICK q \in Nat : q = fill.quantity
    BY DEF FillRecord
  <1>2. \/ Ledger!Units(fill) = q /\ fill.price - fill.mid = a
        \/ Ledger!Units(fill) = -q /\ fill.price - fill.mid = -a
    BY <1>1 DEF Ledger!Units
  <1>3. PICK u \in Int : u = Ledger!Units(fill)
    BY <1>1, <1>2
  <1>4. PICK g \in Int : g = fill.price - fill.mid
    BY <1>2
  <1> QED
    BY <1>2, <1>3, <1>4, AdverseProduct

\* A fill is a record, at the tick that is handled.
LEMMA TickFacts ==
  ASSUME TicksInv, phase # "idle"
  PROVE  /\ Len(ticks) \in Nat \ {0} /\ ticks[Len(ticks)] \in TickRecord
         /\ Ledger!Current = ticks[Len(ticks)]
         /\ Ledger!Current.mid \in Int /\ Ledger!Current.time \in Int
  <1>1. ticks \in Seq(TickRecord) /\ ticks # <<>>
    BY DEF TicksInv
  <1>2. Len(ticks) \in Nat \ {0} /\ ticks[Len(ticks)] \in TickRecord
    BY <1>1
  <1> QED
    BY <1>2 DEF Ledger!Current, TickRecord

SpreadOf == HalfSpread * Multiplier

LEMMA SpreadFacts ==
  /\ SpreadOf \in Nat
  /\ \A t : /\ Ledger!OpenPrice("LONG", t) = t.mid + 1 * SpreadOf
            /\ Ledger!OpenPrice("SHORT", t) = t.mid + (-1) * SpreadOf
            /\ Ledger!ClosePrice("LONG", t) = t.mid - 1 * SpreadOf
            /\ Ledger!ClosePrice("SHORT", t) = t.mid - (-1) * SpreadOf
  <1>1. HalfSpread \in Nat /\ Multiplier \in Nat
    BY LedgerAssumption
  <1>2. /\ SpreadOf \in Nat
        /\ 1 * HalfSpread * Multiplier = 1 * SpreadOf
        /\ (-1) * HalfSpread * Multiplier = (-1) * SpreadOf
    BY <1>1 DEF SpreadOf
  <1> QED
    BY <1>2 DEF Ledger!OpenPrice, Ledger!ClosePrice, Ledger!Sign

\* The entry of a position.
EntryPrice(direction, slippage) ==
  Ledger!OpenPrice(direction, Ledger!Current) + Ledger!Sign(direction) * slippage
EntryRecord(direction, quantity, price) ==
  [direction |-> direction, quantity |-> quantity, entry |-> price,
   stop |-> price - Ledger!Sign(direction) * StopDistance,
   target |-> price + Ledger!Sign(direction) * StopDistance,
   opened_at |-> Ledger!Current.time]

EntryGood(direction, slippage, quantity) ==
  LET price == EntryPrice(direction, slippage)
      fill == Ledger!Fill(Ledger!NextTicket, direction, price, quantity, TRUE)
  IN /\ price \in Int /\ EntryRecord(direction, quantity, price) \in HeldRecord
     /\ fill \in FillRecord /\ fill.direction = direction /\ fill.quantity = quantity
     /\ fill.opens = TRUE /\ fill.price = price /\ fill.mid = Ledger!Current.mid
     /\ Ledger!Units(fill) * (fill.price - fill.mid) >= 0

LEMMA EntryFacts ==
  ASSUME HoldingInv, TicksInv, phase # "idle", NEW direction \in Sides, NEW slippage \in Nat,
         NEW quantity \in Nat \ {0}
  PROVE  EntryGood(direction, slippage, quantity)
  <1> DEFINE price == EntryPrice(direction, slippage)
             fill == Ledger!Fill(Ledger!NextTicket, direction, price, quantity, TRUE)
  <1>1. Ledger!Current.mid \in Int /\ Ledger!Current.time \in Int /\ StopDistance \in Int
    BY TickFacts, LedgerAssumption
  <1>2. PICK a \in Nat : a = SpreadOf + slippage
    BY SpreadFacts
  <1>3. price = Ledger!Current.mid + IF direction = "LONG" THEN a ELSE -a
    <2>1. CASE direction = "LONG"
      BY <1>1, <1>2, <2>1, SpreadFacts DEF EntryPrice, Ledger!Sign
    <2>2. CASE direction = "SHORT"
      BY <1>1, <1>2, <2>2, SpreadFacts DEF EntryPrice, Ledger!Sign
    <2> QED
      BY <2>1, <2>2 DEF Sides
  <1>4. price \in Int
    BY <1>1, <1>2, <1>3
  <1>5. Ledger!NextTicket \in Nat
    <2>1. fills \in Seq(FillRecord)
      BY DEF HoldingInv, HoldingTypes
    <2>2. TicketCounts(fills)
      BY <2>1, TicketFacts
    <2> QED
      BY <2>2, NextTicketIs DEF TicketCounts
  <1> HIDE DEF price
  <1>6. EntryRecord(direction, quantity, price) \in HeldRecord
    BY <1>1, <1>4 DEF EntryRecord, HeldRecord, Ledger!Sign
  <1>7. /\ fill \in FillRecord /\ fill.direction = direction /\ fill.quantity = quantity
        /\ fill.opens = TRUE /\ fill.price = price /\ fill.mid = Ledger!Current.mid
    BY <1>1, <1>4, <1>5 DEF Ledger!Fill, FillRecord
  <1> HIDE DEF fill
  <1>8. fill.price - fill.mid = IF Ledger!Bought(fill) THEN a ELSE -a
    <2>1. Ledger!Bought(fill) <=> direction = "LONG"
      BY <1>7 DEF Ledger!Bought
    <2> QED
      BY <1>1, <1>2, <1>3, <1>7, <2>1
  <1>9. Ledger!Units(fill) * (fill.price - fill.mid) >= 0
    BY <1>7, <1>8, FillAdverse
  <1> QED
    BY <1>4, <1>6, <1>7, <1>9 DEF price, fill, EntryGood

LEMMA EntryStep ==
  ASSUME HoldingInv, TicksInv, phase # "idle", NEW direction \in Sides, NEW slippage \in Nat,
         NEW quantity \in Nat \ {0}, Ledger!FillEntry(direction, slippage, quantity)
  PROVE  HoldingInv'
  <1>1. PICK fresh : fresh = Ledger!NextTicket
    OBVIOUS
  <1>2. PICK price : price = EntryPrice(direction, slippage)
    OBVIOUS
  <1>3. PICK new : new = EntryRecord(direction, quantity, price)
    OBVIOUS
  <1>4. PICK fill : fill = Ledger!Fill(fresh, direction, price, quantity, TRUE)
    OBVIOUS
  <1>5. PICK mid : mid = Ledger!Current.mid
    OBVIOUS
  <1>6. /\ price \in Int /\ new \in HeldRecord /\ mid \in Int
        /\ fill \in FillRecord /\ fill.direction = direction /\ fill.quantity = quantity
        /\ fill.opens = TRUE /\ fill.price = price /\ fill.mid = mid
        /\ Ledger!Units(fill) * (price - mid) >= 0
    <2>1. EntryGood(direction, slippage, quantity)
      BY EntryFacts
    <2>2. Ledger!Current.mid \in Int
      BY TickFacts
    <2> QED
      BY <1>1, <1>2, <1>3, <1>4, <1>5, <2>1, <2>2 DEF EntryGood
  <1>7. /\ new.direction = direction /\ new.quantity = quantity /\ new.entry = price
    BY <1>3 DEF EntryRecord
  <1>8. /\ positions' = Ledger!With(positions, fresh, new)
        /\ owners' = Ledger!With(owners, fresh, [price |-> price, mid |-> mid])
        /\ fills' = Append(fills, fill)
        /\ realized' = realized /\ grossMid' = grossMid
    BY <1>1, <1>2, <1>3, <1>4, <1>5 DEF Ledger!FillEntry, EntryPrice, EntryRecord
  <1>9. HoldingTypes /\ fills \in Seq(FillRecord) /\ Owned
    BY DEF HoldingInv, HoldingTypes
  <1>10. /\ fresh = OpeningsIn(fills) + 1 /\ fresh \in Nat /\ fresh \notin DOMAIN positions
         /\ \A t \in DOMAIN positions : t \in Nat /\ t < fresh
    <2>1. TicketCounts(fills)
      BY <1>9, TicketFacts
    <2>2. fresh = OpeningsIn(fills) + 1 /\ fresh \in Nat
      BY <1>1, <2>1, NextTicketIs DEF TicketCounts
    <2>3. \A t \in DOMAIN positions : t \in Nat /\ t < fresh
      BY <1>1, <1>9 DEF Owned
    <2> QED
      BY <2>2, <2>3
  <1>11. /\ DOMAIN positions' = DOMAIN positions \cup {fresh} /\ positions'[fresh] = new
         /\ \A t \in DOMAIN positions : positions'[t] = positions[t]
         /\ positions' = [t \in DOMAIN positions' |-> positions'[t]]
    BY <1>8, <1>10 DEF Ledger!With
  <1>12. /\ DOMAIN owners' = DOMAIN positions \cup {fresh}
         /\ owners'[fresh] = [price |-> price, mid |-> mid]
         /\ \A t \in DOMAIN positions : owners'[t] = owners[t]
         /\ owners' = [t \in DOMAIN owners' |-> owners'[t]]
    <2>1. DOMAIN owners = DOMAIN positions
      BY <1>9 DEF HoldingTypes
    <2> QED
      BY <1>8, <1>10, <2>1 DEF Ledger!With
  <1>13. HoldingTypes'
    <2>1. IsFiniteSet(DOMAIN positions')
      BY <1>9, <1>11, FS_AddElement DEF HoldingTypes
    <2>2. \A t \in DOMAIN positions' : positions'[t] \in HeldRecord
      BY <1>6, <1>9, <1>11 DEF HoldingTypes
    <2>3. \A t \in DOMAIN owners' : owners'[t] \in OwnerRecord
      BY <1>6, <1>9, <1>12 DEF HoldingTypes, OwnerRecord
    <2>4. positions' \in [DOMAIN positions' -> HeldRecord]
      BY <1>11, <2>2
    <2>5. owners' \in [DOMAIN positions' -> OwnerRecord]
      BY <1>11, <1>12, <2>3
    <2>6. fills' \in Seq(FillRecord) /\ realized' \in Int /\ grossMid' \in Int
      BY <1>6, <1>8, <1>9 DEF HoldingTypes
    <2> QED
      BY <2>1, <2>4, <2>5, <2>6 DEF HoldingTypes
  <1>14. Owned'
    <2>1. Ledger!NextTicket' = fresh + 1
      <3>1. Counted(fills, fill)
        BY <1>6, <1>9, CountFills
      <3>2. OpeningsIn(fills') = fresh
        BY <1>6, <1>8, <1>10, <3>1 DEF Counted
      <3>3. fills' \in Seq(FillRecord)
        BY <1>6, <1>8, <1>9
      <3>4. TicketCounts(fills')
        BY <3>3, TicketFacts
      <3> QED
        BY <3>2, <3>4, NextTicketWas DEF TicketCounts
    <2> QED
      <3>1. ASSUME NEW t \in DOMAIN positions'
            PROVE  owners'[t].price = positions'[t].entry /\ t \in Nat /\ t < fresh + 1
        <4>1. CASE t = fresh
          BY <1>7, <1>10, <1>11, <1>12, <4>1
        <4>2. CASE t \in DOMAIN positions
          BY <1>9, <1>10, <1>11, <1>12, <4>2 DEF Owned
        <4> QED
          BY <1>11, <4>1, <4>2
      <3> QED
        BY <2>1, <3>1 DEF Owned
  <1>15. /\ ColumnsAppend(fills, fill)
         /\ Entries(positions') = Ledger!With(Entries(positions), fresh, price)
         /\ EntryMids(positions', owners') = Ledger!With(EntryMids(positions, owners), fresh, mid)
         /\ Nothing(positions') = Ledger!With(Nothing(positions), fresh, 0)
    <2>1. ColumnsAppend(fills, fill)
      BY <1>6, <1>9, FillColumns
    <2>2. Entries(positions') = Ledger!With(Entries(positions), fresh, price)
      BY <1>7, <1>10, <1>11 DEF Entries, Ledger!With
    <2>3. EntryMids(positions', owners') = Ledger!With(EntryMids(positions, owners), fresh, mid)
      BY <1>10, <1>11, <1>12 DEF EntryMids, Ledger!With
    <2>4. Nothing(positions') = Ledger!With(Nothing(positions), fresh, 0)
      BY <1>10, <1>11 DEF Nothing, Ledger!With
    <2> QED
      BY <2>1, <2>2, <2>3, <2>4
  <1>16. ASSUME NEW r \in Int, NEW e, NEW c, NEW l \in Int, NEW s \in Int, NEW x \in Int,
                BookTypes(positions, e, fills, c, l, s), Balances(r, positions, e, fills, c, l, s)
         PROVE  Balances(r, positions', Ledger!With(e, fresh, x), fills', Append(c, x), l, s)
    <2>1. Opening(positions, e, fills, c, l, s, fresh, new, x, fill)
      BY <1>6, <1>7, <1>10, <1>16 DEF Opening
    <2>2. AfterOpening(r, positions, e, fills, c, l, s, fresh, new, x, fill)
      BY <2>1, OpeningBalances
    <2> QED
      BY <1>8, <1>16, <2>2 DEF AfterOpening
  <1>17. ASSUME NEW l \in Int, NEW s \in Int
         PROVE  CashHolds(l, s)' /\ OpenHolds(l, s)'
    <2>1. /\ BookTypes(positions, Entries(positions), fills, PricesOf(fills), l, s)
          /\ BookTypes(positions, Nothing(positions), fills, NothingOf(fills), l, s)
      BY <1>9, HeldColumns
    <2>2. CashHolds(l, s) /\ OpenHolds(l, s) /\ realized \in Int
      BY <1>9 DEF HoldingInv, HoldingTypes
    <2>3. Balances(realized, positions', Ledger!With(Entries(positions), fresh, price), fills',
                   Append(PricesOf(fills), price), l, s)
      BY <1>6, <1>16, <2>1, <2>2 DEF CashHolds
    <2>4. Balances(0, positions', Ledger!With(Nothing(positions), fresh, 0), fills',
                   Append(NothingOf(fills), 0), l, s)
      BY <1>16, <2>1, <2>2 DEF OpenHolds
    <2> QED
      BY <1>6, <1>8, <1>15, <2>3, <2>4 DEF CashHolds, OpenHolds, ColumnsAppend
  <1>18. ASSUME NEW m \in Int
         PROVE  MidsHold(m)'
    <2>1. BookTypes(positions, EntryMids(positions, owners), fills, MidsOf(fills), m, m)
      BY <1>9, HeldColumns
    <2>2. MidsHold(m) /\ grossMid \in Int
      BY <1>9 DEF HoldingInv, HoldingTypes
    <2>3. Balances(grossMid, positions', Ledger!With(EntryMids(positions, owners), fresh, mid),
                   fills', Append(MidsOf(fills), mid), m, m)
      BY <1>6, <1>16, <2>1, <2>2 DEF MidsHold
    <2> QED
      BY <1>6, <1>8, <1>15, <2>3 DEF MidsHold, ColumnsAppend
  <1>19. Adverse'
    <2>1. /\ Len(fills) \in Nat /\ Len(fills') = Len(fills) + 1
          /\ fills'[Len(fills) + 1] = fill /\ \A i \in 1 .. Len(fills) : fills'[i] = fills[i]
      BY <1>6, <1>8, <1>9
    <2>2. ASSUME NEW i \in 1 .. Len(fills')
          PROVE  Ledger!Units(fills'[i]) * (fills'[i].price - fills'[i].mid) >= 0
      <3>1. CASE i = Len(fills) + 1
        BY <1>6, <2>1, <3>1
      <3>2. CASE i \in 1 .. Len(fills)
        <4>1. fills'[i] = fills[i]
          BY <2>1, <3>2
        <4> QED
          BY <3>2, <4>1 DEF HoldingInv, Adverse
      <3> QED
        BY <2>1, <3>1, <3>2
    <2> QED
      BY <2>2 DEF Adverse
  <1> QED
    BY <1>13, <1>14, <1>17, <1>18, <1>19 DEF HoldingInv

\* A position is closed at no better than the mid.
Closable(t, q, price) ==
  /\ phase # "idle" /\ t \in DOMAIN positions /\ q \in Nat \ {0} /\ q <= positions[t].quantity
  /\ \E a \in Nat : price = Ledger!Current.mid
                              + IF positions[t].direction = "LONG" THEN -a ELSE a

ClosingFill(t, q, price) == Ledger!Fill(t, positions[t].direction, price, q, FALSE)
ClosingGood(t, q, price) ==
  LET fill == ClosingFill(t, q, price)
  IN /\ price \in Int /\ fill \in FillRecord /\ fill.direction = positions[t].direction
     /\ fill.quantity = q /\ fill.opens = FALSE
     /\ fill.price = price /\ fill.mid = Ledger!Current.mid
     /\ Ledger!Units(fill) * (fill.price - fill.mid) >= 0

LEMMA ClosingFacts ==
  ASSUME HoldingInv, TicksInv, NEW t, NEW q, NEW price, Closable(t, q, price)
  PROVE  ClosingGood(t, q, price)
  <1> DEFINE fill == ClosingFill(t, q, price)
             d == positions[t].direction
  <1>1. Ledger!Current.mid \in Int /\ Ledger!Current.time \in Int
    BY TickFacts DEF Closable
  <1>2. PICK a \in Nat : price = Ledger!Current.mid + IF d = "LONG" THEN -a ELSE a
    BY DEF Closable
  <1>3. t \in Nat /\ positions[t] \in HeldRecord /\ q \in Nat \ {0}
    BY DEF Closable, HoldingInv, Owned, HoldingTypes
  <1>4. d \in Sides
    BY <1>3 DEF HeldRecord
  <1>5. price \in Int
    BY <1>1, <1>2
  <1> HIDE DEF d
  <1>6. fill = [ticket |-> t, direction |-> d, price |-> price, quantity |-> q,
                opens |-> FALSE, mid |-> Ledger!Current.mid, at |-> Ledger!Current.time]
    BY DEF ClosingFill, Ledger!Fill, d
  <1> HIDE DEF fill
  <1>7. /\ fill \in FillRecord /\ fill.direction = d /\ fill.quantity = q
        /\ fill.opens = FALSE /\ fill.price = price /\ fill.mid = Ledger!Current.mid
    BY <1>1, <1>3, <1>4, <1>5, <1>6 DEF FillRecord
  <1>8. fill.price - fill.mid = IF Ledger!Bought(fill) THEN a ELSE -a
    <2>1. Ledger!Bought(fill) <=> d # "LONG"
      BY <1>7 DEF Ledger!Bought
    <2> QED
      BY <1>1, <1>2, <1>7, <2>1 DEF d
  <1>9. Ledger!Units(fill) * (fill.price - fill.mid) >= 0
    BY <1>7, <1>8, FillAdverse
  <1> QED
    BY <1>5, <1>7, <1>9 DEF ClosingGood, fill, d

LEMMA CloseHolding ==
  ASSUME HoldingInv, TicksInv, NEW t, NEW q, NEW price, Closable(t, q, price),
         Ledger!SettleClose(t, q, price)
  PROVE  HoldingInv'
  <1>1. PICK fill : fill = ClosingFill(t, q, price)
    OBVIOUS
  <1>2. PICK mid : mid = Ledger!Current.mid
    OBVIOUS
  <1>3. PICK d : d = positions[t].direction
    OBVIOUS
  <1>4. /\ price \in Int /\ mid \in Int /\ fill \in FillRecord /\ fill.direction = d
        /\ fill.quantity = q /\ fill.opens = FALSE /\ fill.price = price /\ fill.mid = mid
        /\ Ledger!Units(fill) * (price - mid) >= 0
    <2>1. ClosingGood(t, q, price)
      BY ClosingFacts
    <2>2. Ledger!Current.mid \in Int
      BY TickFacts DEF Closable
    <2> QED
      BY <1>1, <1>2, <1>3, <2>1, <2>2 DEF ClosingGood
  <1>5. HoldingTypes /\ fills \in Seq(FillRecord) /\ Owned
    BY DEF HoldingInv, HoldingTypes
  <1>6. /\ t \in DOMAIN positions /\ q \in Nat \ {0} /\ q <= positions[t].quantity
        /\ positions[t].quantity \in Nat /\ owners[t].mid \in Int
        /\ owners[t].price = positions[t].entry /\ positions[t].entry \in Int
        /\ positions[t] \in HeldRecord
    <2>1. t \in DOMAIN positions /\ positions[t] \in HeldRecord /\ owners[t] \in OwnerRecord
      BY <1>5 DEF Closable, HoldingTypes
    <2> QED
      BY <1>5, <2>1 DEF Closable, Owned, HeldRecord, OwnerRecord
  <1>7. /\ fills' = Append(fills, fill)
        /\ realized' = realized + Ledger!SignedPnl(d, owners[t].price, price, q)
        /\ grossMid' = grossMid + Ledger!SignedPnl(d, owners[t].mid, mid, q)
    BY <1>1, <1>2, <1>3 DEF Ledger!SettleClose, ClosingFill
  <1>8. /\ positions' = Rest(positions, t, q)
        /\ owners' = RestOwners(owners, positions, t, q)
    <2>1. /\ positions' = IF positions[t].quantity - q = 0
                          THEN Ledger!Without(positions, {t})
                          ELSE [positions EXCEPT ![t].quantity = positions[t].quantity - q]
          /\ owners' = IF positions[t].quantity - q = 0 THEN Ledger!Without(owners, {t})
                       ELSE owners
      BY DEF Ledger!SettleClose
    <2>2. positions[t].quantity - q = 0 <=> positions[t].quantity = q
      BY <1>6
    <2> QED
      BY <2>1, <2>2 DEF Rest, RestOwners
  <1>9. /\ DOMAIN positions' \in SUBSET DOMAIN positions /\ DOMAIN owners' = DOMAIN positions'
        /\ \A k \in DOMAIN positions' :
             /\ k # t => positions'[k] = positions[k]
             /\ positions'[k].entry = positions[k].entry
             /\ positions'[k].direction = positions[k].direction
             /\ positions'[k] \in HeldRecord
             /\ owners'[k] = owners[k]
        /\ positions' = [k \in DOMAIN positions' |-> positions'[k]]
        /\ owners' = [k \in DOMAIN owners' |-> owners'[k]]
    <2>1. CASE positions[t].quantity = q
      <3>1. /\ positions' = [k \in DOMAIN positions \ {t} |-> positions[k]]
            /\ owners' = [k \in DOMAIN owners \ {t} |-> owners[k]]
        BY <1>8, <2>1 DEF Rest, RestOwners, Ledger!Without
      <3>2. /\ DOMAIN owners = DOMAIN positions
            /\ \A k \in DOMAIN positions : positions[k] \in HeldRecord
        BY <1>5 DEF HoldingTypes
      <3> QED
        BY <3>1, <3>2
    <2>2. CASE positions[t].quantity # q
      <3>1. /\ positions' = [positions EXCEPT ![t].quantity = @ - q]
            /\ owners' = owners
        BY <1>8, <2>2 DEF Rest, RestOwners
      <3>2. /\ DOMAIN owners = DOMAIN positions
            /\ positions \in [DOMAIN positions -> HeldRecord]
            /\ owners = [k \in DOMAIN owners |-> owners[k]]
        BY <1>5 DEF HoldingTypes
      <3>3. /\ DOMAIN positions' = DOMAIN positions
            /\ \A k \in DOMAIN positions : k # t => positions'[k] = positions[k]
            /\ positions'[t] = [positions[t] EXCEPT !.quantity = @ - q]
            /\ positions' = [k \in DOMAIN positions' |-> positions'[k]]
        BY <1>6, <3>1, <3>2
      <3>4. /\ positions'[t].entry = positions[t].entry
            /\ positions'[t].direction = positions[t].direction
            /\ positions'[t] \in HeldRecord
        <4>1. positions[t].quantity - q \in Nat \ {0}
          BY <1>6, <2>2
        <4> QED
          BY <1>6, <3>3, <4>1 DEF HeldRecord
      <3> QED
        BY <3>1, <3>2, <3>3, <3>4
    <2> QED
      BY <2>1, <2>2
  <1>10. HoldingTypes'
    <2>1. IsFiniteSet(DOMAIN positions')
      BY <1>5, <1>9, FS_Subset DEF HoldingTypes
    <2>2. positions' \in [DOMAIN positions' -> HeldRecord]
      BY <1>9
    <2>3. owners' \in [DOMAIN positions' -> OwnerRecord]
      <3>1. \A k \in DOMAIN positions' : owners'[k] \in OwnerRecord
        BY <1>5, <1>9 DEF HoldingTypes
      <3> QED
        BY <1>9, <3>1
    <2>4. fills' \in Seq(FillRecord)
      BY <1>4, <1>5, <1>7
    <2>5. realized' \in Int /\ grossMid' \in Int
      <3>1. realized \in Int /\ grossMid \in Int /\ d \in Sides
        BY <1>3, <1>5, <1>6 DEF HoldingTypes, HeldRecord
      <3>2. /\ Ledger!SignedPnl(d, owners[t].price, price, q) \in Int
            /\ Ledger!SignedPnl(d, owners[t].mid, mid, q) \in Int
        BY <1>4, <1>6 DEF Ledger!SignedPnl, Ledger!Sign
      <3> QED
        BY <1>7, <3>1, <3>2
    <2> QED
      BY <2>1, <2>2, <2>3, <2>4, <2>5 DEF HoldingTypes
  <1>11. Owned'
    <2>1. Ledger!NextTicket' = Ledger!NextTicket
      <3>1. Counted(fills, fill)
        BY <1>4, <1>5, CountFills
      <3>2. OpeningsIn(fills') = OpeningsIn(fills)
        BY <1>4, <1>7, <3>1 DEF Counted
      <3>3. fills' \in Seq(FillRecord)
        BY <1>4, <1>5, <1>7
      <3>4. TicketCounts(fills) /\ TicketCounts(fills')
        BY <1>5, <3>3, TicketFacts
      <3> QED
        BY <3>2, <3>4, NextTicketIs, NextTicketWas DEF TicketCounts
    <2>2. ASSUME NEW k \in DOMAIN positions'
          PROVE  owners'[k].price = positions'[k].entry /\ k \in Nat /\ k < Ledger!NextTicket
      BY <1>5, <1>9 DEF Owned
    <2> QED
      BY <2>1, <2>2 DEF Owned
  <1>12. /\ ColumnsAppend(fills, fill)
         /\ Entries(positions') = RestOwners(Entries(positions), positions, t, q)
         /\ EntryMids(positions', owners') =
              RestOwners(EntryMids(positions, owners), positions, t, q)
         /\ Nothing(positions') = RestOwners(Nothing(positions), positions, t, q)
    <2>1. ColumnsAppend(fills, fill)
      BY <1>4, <1>5, FillColumns
    <2>2. DOMAIN positions' = IF positions[t].quantity = q THEN DOMAIN positions \ {t}
                              ELSE DOMAIN positions
      BY <1>8 DEF Rest, Ledger!Without
    <2>3. Entries(positions') = RestOwners(Entries(positions), positions, t, q)
      BY <1>9, <2>2 DEF Entries, RestOwners, Ledger!Without
    <2>4. EntryMids(positions', owners') =
            RestOwners(EntryMids(positions, owners), positions, t, q)
      BY <1>9, <2>2 DEF EntryMids, RestOwners, Ledger!Without
    <2>5. Nothing(positions') = RestOwners(Nothing(positions), positions, t, q)
      BY <1>9, <2>2 DEF Nothing, RestOwners, Ledger!Without
    <2> QED
      BY <2>1, <2>3, <2>4, <2>5
  <1>13. ASSUME NEW r \in Int, NEW e, NEW c, NEW l \in Int, NEW s \in Int, NEW x \in Int,
                BookTypes(positions, e, fills, c, l, s), Balances(r, positions, e, fills, c, l, s)
         PROVE  Balances(r + Ledger!SignedPnl(d, e[t], x, q), positions',
                         RestOwners(e, positions, t, q), fills', Append(c, x), l, s)
    <2>1. Closing(positions, e, fills, c, l, s, t, q, x, fill)
      BY <1>3, <1>4, <1>6, <1>13 DEF Closing
    <2>2. AfterClosing(r, positions, e, fills, c, l, s, t, q, x, fill)
      BY <2>1, ClosingBalances
    <2> QED
      BY <1>3, <1>7, <1>8, <1>13, <2>2 DEF AfterClosing
  <1>14. ASSUME NEW l \in Int, NEW s \in Int
         PROVE  CashHolds(l, s)' /\ OpenHolds(l, s)'
    <2>1. /\ BookTypes(positions, Entries(positions), fills, PricesOf(fills), l, s)
          /\ BookTypes(positions, Nothing(positions), fills, NothingOf(fills), l, s)
      BY <1>5, HeldColumns
    <2>2. CashHolds(l, s) /\ OpenHolds(l, s) /\ realized \in Int
      BY <1>5 DEF HoldingInv, HoldingTypes
    <2>3. Entries(positions)[t] = owners[t].price /\ Nothing(positions)[t] = 0
      BY <1>6 DEF Entries, Nothing
    <2>4. Balances(realized + Ledger!SignedPnl(d, owners[t].price, price, q), positions',
                   RestOwners(Entries(positions), positions, t, q), fills',
                   Append(PricesOf(fills), price), l, s)
      <3>1. Balances(realized + Ledger!SignedPnl(d, Entries(positions)[t], price, q), positions',
                     RestOwners(Entries(positions), positions, t, q), fills',
                     Append(PricesOf(fills), price), l, s)
        BY <1>4, <1>13, <2>1, <2>2 DEF CashHolds
      <3> QED
        BY <2>3, <3>1
    <2>5. Balances(0, positions', RestOwners(Nothing(positions), positions, t, q), fills',
                   Append(NothingOf(fills), 0), l, s)
      <3>1. Balances(0 + Ledger!SignedPnl(d, Nothing(positions)[t], 0, q), positions',
                     RestOwners(Nothing(positions), positions, t, q), fills',
                     Append(NothingOf(fills), 0), l, s)
        BY <1>13, <2>1, <2>2 DEF OpenHolds
      <3>2. 0 + Ledger!SignedPnl(d, 0, 0, q) = 0
        <4>1. 1 * 0 * q = 0 /\ (-1) * 0 * q = 0 /\ 0 - 0 = 0
          BY <1>6
        <4> QED
          BY <4>1 DEF Ledger!SignedPnl, Ledger!Sign
      <3> QED
        BY <2>3, <3>1, <3>2
    <2> QED
      BY <1>4, <1>7, <1>12, <2>4, <2>5 DEF CashHolds, OpenHolds, ColumnsAppend
  <1>15. ASSUME NEW m \in Int
         PROVE  MidsHold(m)'
    <2>1. BookTypes(positions, EntryMids(positions, owners), fills, MidsOf(fills), m, m)
      BY <1>5, HeldColumns
    <2>2. MidsHold(m) /\ grossMid \in Int
      BY <1>5 DEF HoldingInv, HoldingTypes
    <2>3. EntryMids(positions, owners)[t] = owners[t].mid
      BY <1>6 DEF EntryMids
    <2>4. Balances(grossMid + Ledger!SignedPnl(d, EntryMids(positions, owners)[t], mid, q),
                   positions', RestOwners(EntryMids(positions, owners), positions, t, q),
                   fills', Append(MidsOf(fills), mid), m, m)
      BY <1>4, <1>13, <2>1, <2>2 DEF MidsHold
    <2> QED
      BY <1>4, <1>7, <1>12, <2>3, <2>4 DEF MidsHold, ColumnsAppend
  <1>16. Adverse'
    <2>1. /\ Len(fills) \in Nat /\ Len(fills') = Len(fills) + 1
          /\ fills'[Len(fills) + 1] = fill /\ \A i \in 1 .. Len(fills) : fills'[i] = fills[i]
      BY <1>4, <1>5, <1>7
    <2>2. ASSUME NEW i \in 1 .. Len(fills')
          PROVE  Ledger!Units(fills'[i]) * (fills'[i].price - fills'[i].mid) >= 0
      <3>1. CASE i = Len(fills) + 1
        BY <1>4, <2>1, <3>1
      <3>2. CASE i \in 1 .. Len(fills)
        <4>1. fills'[i] = fills[i]
          BY <2>1, <3>2
        <4> QED
          BY <3>2, <4>1 DEF HoldingInv, Adverse
      <3> QED
        BY <2>1, <3>1, <3>2
    <2> QED
      BY <2>2 DEF Adverse
  <1> QED
    BY <1>10, <1>11, <1>14, <1>15, <1>16 DEF HoldingInv

LEMMA EntryTrades ==
  ASSUME TradesInv, NEW fill \in FillRecord, fill.opens = TRUE, fills' = Append(fills, fill),
         UNCHANGED <<trades, byDate, realized>>
  PROVE  TradesInv'
  <1>1. Counted(fills, fill)
    BY CountFills DEF TradesInv
  <1>2. ClosingsIn(fills') = ClosingsIn(fills)
    BY <1>1 DEF Counted
  <1>3. fills' \in Seq(FillRecord)
    BY DEF TradesInv
  <1> QED
    BY <1>2, <1>3 DEF TradesInv

LEMMA CloseTrades ==
  ASSUME HoldingInv, TradesInv, TicksInv, NEW t, NEW q, NEW price, Closable(t, q, price),
         Ledger!SettleClose(t, q, price)
  PROVE  TradesInv'
  <1>1. PICK net : net = Ledger!SignedPnl(positions[t].direction, owners[t].price, price, q)
    OBVIOUS
  <1>2. PICK time : time = Ledger!Current.time
    OBVIOUS
  <1>3. PICK fill : fill = ClosingFill(t, q, price)
    OBVIOUS
  <1>4. PICK trade : trade = [ticket |-> t, quantity |-> q, net |-> net, at |-> time]
    OBVIOUS
  <1>5. /\ fills' = Append(fills, fill) /\ trades' = Append(trades, trade)
        /\ realized' = realized + net
        /\ byDate' = Ledger!With(byDate, time,
                                 net + IF time \in DOMAIN byDate THEN byDate[time] ELSE 0)
    BY <1>1, <1>2, <1>3, <1>4 DEF Ledger!SettleClose, ClosingFill
  <1>6. fill \in FillRecord /\ fill.opens = FALSE /\ price \in Int
    <2>1. ClosingGood(t, q, price)
      BY ClosingFacts
    <2> QED
      BY <1>3, <2>1 DEF ClosingGood
  <1>7. time \in Int
    BY <1>2, TickFacts DEF Closable
  <1>8. net \in Int /\ t \in Nat /\ q \in Nat
    <2>1. /\ t \in DOMAIN positions /\ q \in Nat
          /\ positions[t] \in HeldRecord /\ owners[t] \in OwnerRecord /\ t \in Nat
      BY DEF Closable, HoldingInv, HoldingTypes, Owned
    <2>2. owners[t].price \in Int
      BY <2>1 DEF OwnerRecord
    <2> QED
      BY <1>1, <1>6, <2>1, <2>2 DEF Ledger!SignedPnl, Ledger!Sign
  <1>9. trade \in TradeRecord /\ trade.at = time /\ trade.net = net
    BY <1>4, <1>7, <1>8 DEF TradeRecord
  <1>10. /\ trades \in Seq(TradeRecord) /\ DatesType(byDate) /\ fills \in Seq(FillRecord)
         /\ \A i \in 1 .. Len(trades) : trades[i] \in TradeRecord
    BY DEF TradesInv
  <1>11. ASSUME NEW lo \in Int, NEW hi \in Int
         PROVE  DaysAgree(byDate', trades', lo, hi) /\ DatesType(byDate')
    <2>1. Settles(byDate, byDate', trades, trade, lo, hi)
      BY <1>5, <1>9, <1>10 DEF Settles
    <2>2. DaysSettled(byDate, byDate', trades, trade, lo, hi)
      BY <2>1, DaySettles
    <2>3. DaysAgree(byDate, trades, lo, hi)
      BY DEF TradesInv
    <2> QED
      BY <1>5, <2>2, <2>3 DEF DaysSettled
  <1>12. realized' = Summed([i \in DOMAIN trades' |-> trades'[i].net])
    <2> DEFINE nets == [i \in DOMAIN trades |-> trades[i].net]
    <2>1. nets \in Seq(Int)
      <3>1. \A i \in 1 .. Len(trades) : trades[i].net \in Int
        BY <1>10 DEF TradeRecord
      <3> QED
        BY <1>10, <3>1
    <2>2. [i \in DOMAIN trades' |-> trades'[i].net] = Append(nets, net)
      <3>1. /\ Len(trades') = Len(trades) + 1 /\ trades'[Len(trades) + 1] = trade
            /\ \A i \in 1 .. Len(trades) : trades'[i] = trades[i]
            /\ DOMAIN trades' = 1 .. Len(trades) + 1 /\ DOMAIN trades = 1 .. Len(trades)
            /\ Len(trades) \in Nat
        BY <1>5, <1>9, <1>10
      <3>2. Len(nets) = Len(trades)
        BY <2>1, <3>1
      <3> QED
        BY <1>9, <2>1, <3>1, <3>2
    <2>3. Summed(Append(nets, net)) = Summed(nets) + net
      BY <1>8, <2>1, SumAppend
    <2> QED
      BY <1>5, <2>2, <2>3 DEF TradesInv
  <1>13. ClosingsIn(fills') = Len(trades')
    <2>1. Counted(fills, fill)
      BY <1>6, <1>10, CountFills
    <2>2. ClosingsIn(fills') = ClosingsIn(fills) + 1
      BY <1>5, <1>6, <2>1 DEF Counted
    <2> QED
      BY <1>5, <1>9, <1>10, <2>2 DEF TradesInv
  <1>14. fills' \in Seq(FillRecord) /\ trades' \in Seq(TradeRecord)
    BY <1>5, <1>6, <1>9, <1>10
  <1>15. DatesType(byDate') /\ \A lo, hi \in Int : DaysAgree(byDate', trades', lo, hi)
    <2>1. 0 \in Int
      OBVIOUS
    <2> QED
      BY <1>11, <2>1
  <1> QED
    BY <1>12, <1>13, <1>14, <1>15 DEF TradesInv

-----------------------------------------------------------------------------
(* The account at a price.                                                 *)

\* A book of positions that balances, and the latest of the ticks.
Marked(r, p, f, tk, m) ==
  /\ IsFiniteSet(DOMAIN p) /\ p \in [DOMAIN p -> HeldRecord] /\ f \in Seq(FillRecord)
  /\ r \in Int /\ tk \in Seq(TickRecord) /\ tk # <<>> /\ Latest(tk, m, Len(tk))
  /\ \A l, s \in Int : Balances(r, p, Entries(p), f, PricesOf(f), l, s)
MarkedEquity(r, p, f, tk, m) ==
  /\ InitialEquity + r + Ledger!Unrealized(p, tk[m]) = CashAt(f, tk, Len(f), Len(tk))
  /\ InitialEquity + r + Ledger!Unrealized(p, tk[m]) \in Int
  /\ r + Ledger!Unrealized(p, tk[m]) =
       Summed(Flows(f, PricesOf(f), tk[m].mid - SpreadOf, tk[m].mid + SpreadOf))
  /\ Ledger!Unrealized(p, tk[m]) \in Int

\* The equity is that of n fills at a mid.
CashFlows(f, n, price) ==
  [i \in 1 .. n |->
     Ledger!Units(f[i])
       * (Value(f[i].direction, price - SpreadOf, price + SpreadOf) - f[i].price)]
Priced(f, tk, n, k, m, price) ==
  /\ f \in Seq(FillRecord) /\ n \in Nat /\ n <= Len(f)
  /\ LatestAt(tk, k) = m /\ price \in Int /\ tk[m].mid = price
CashPriced(f, tk, n, k, price) ==
  /\ CashAt(f, tk, n, k) = InitialEquity + Summed(CashFlows(f, n, price))
  /\ CashAt(f, tk, n, k) \in Int

LEMMA CashIs ==
  ASSUME NEW f, NEW tk, NEW n, NEW k, NEW m, NEW price, Priced(f, tk, n, k, m, price)
  PROVE  CashPriced(f, tk, n, k, price)
  <1>0. /\ f \in Seq(FillRecord) /\ n \in Nat /\ n <= Len(f)
        /\ LatestAt(tk, k) = m /\ price \in Int /\ tk[m].mid = price
    BY DEF Priced
  <1> DEFINE old == [i \in 1 .. n |-> Ledger!Units(f[i])
                                        * (Ledger!ClosePrice(f[i].direction, tk[m]) - f[i].price)]
             fresh == CashFlows(f, n, price)
  <1>1. \A i \in 1 .. n : f[i] \in FillRecord
    BY <1>0
  <1>2. SpreadOf \in Nat
    BY SpreadFacts
  <1>3. ASSUME NEW i \in 1 .. n
        PROVE  /\ Ledger!ClosePrice(f[i].direction, tk[m]) =
                    Value(f[i].direction, price - SpreadOf, price + SpreadOf)
               /\ fresh[i] \in Int
    <2>0. f[i] \in FillRecord
      BY <1>1
    <2>1. f[i].direction \in Sides /\ f[i].price \in Int /\ Ledger!Units(f[i]) \in Int
      BY <2>0 DEF FillRecord, Ledger!Units
    <2>2. Value(f[i].direction, price - SpreadOf, price + SpreadOf) \in Int
      BY <1>0, <1>2 DEF Value
    <2>3. fresh[i] \in Int
      BY <2>1, <2>2 DEF CashFlows
    <2>4. CASE f[i].direction = "LONG"
      BY <1>0, <1>2, <2>3, <2>4, SpreadFacts DEF Value
    <2>5. CASE f[i].direction = "SHORT"
      BY <1>0, <1>2, <2>3, <2>5, SpreadFacts DEF Value
    <2> QED
      BY <2>1, <2>4, <2>5 DEF Sides
  <1>4. old = fresh
    BY <1>3 DEF CashFlows
  <1>5. CashAt(f, tk, n, k) = InitialEquity + Summed(old)
    BY <1>0, Zenon DEF CashAt
  <1>6. fresh \in Seq(Int)
    BY <1>0, <1>3 DEF CashFlows
  <1> HIDE DEF fresh, old
  <1>7. Summed(fresh) \in Int
    <2>1. ASSUME NEW s \in Seq(Int) PROVE Summed(s) \in Int
      BY SumMonotone
    <2> QED
      BY <1>6, <2>1
  <1> QED
    BY <1>4, <1>5, <1>7, LedgerAssumption DEF fresh, CashPriced

LEMMA EquityIsCash ==
  ASSUME NEW r, NEW p, NEW f, NEW tk, NEW m, Marked(r, p, f, tk, m)
  PROVE  MarkedEquity(r, p, f, tk, m)
  <1>1. /\ IsFiniteSet(DOMAIN p) /\ p \in [DOMAIN p -> HeldRecord] /\ f \in Seq(FillRecord)
        /\ r \in Int /\ tk \in Seq(TickRecord) /\ tk # <<>>
    BY DEF Marked
  <1>2. m \in 1 .. Len(tk) /\ Len(tk) \in 1 .. Len(tk) /\ Latest(tk, m, Len(tk))
    BY <1>1 DEF Marked, Latest
  <1>3. LatestAt(tk, Len(tk)) = m
    BY <1>1, <1>2, LatestUnique
  <1>4. PICK price \in Int : tk[m].mid = price
    <2>1. tk[m] \in TickRecord
      BY <1>1, <1>2
    <2> QED
      BY <2>1 DEF TickRecord
  <1>5. SpreadOf \in Nat /\ price - SpreadOf \in Int /\ price + SpreadOf \in Int
    BY SpreadFacts
  <1> DEFINE low == price - SpreadOf
             high == price + SpreadOf
             h == HeldValues(p, Entries(p), low, high)
             flows == Flows(f, PricesOf(f), low, high)
  <1>6. r + SetTotal(h) = Summed(flows)
    BY <1>5 DEF Marked, Balances
  <1>7. Ledger!Unrealized(p, tk[m]) = SetTotal(h)
    <2>1. ASSUME NEW t \in DOMAIN p
          PROVE  Ledger!ClosePrice(p[t].direction, tk[m]) = Value(p[t].direction, low, high)
      <3>1. p[t].direction \in Sides
        BY <1>1 DEF HeldRecord
      <3>2. CASE p[t].direction = "LONG"
        BY <1>4, <1>5, <3>2, SpreadFacts DEF Value
      <3>3. CASE p[t].direction = "SHORT"
        BY <1>4, <1>5, <3>3, SpreadFacts DEF Value
      <3> QED
        BY <3>1, <3>2, <3>3 DEF Sides
    <2>2. [t \in DOMAIN p |-> Ledger!SignedPnl(p[t].direction, p[t].entry,
                                               Ledger!ClosePrice(p[t].direction, tk[m]),
                                               p[t].quantity)] = h
      BY <2>1 DEF HeldValues, Entries
    <2> QED
      BY <2>2, LedgerSums, Zenon DEF Ledger!Unrealized
  <1>8. BookTypes(p, Entries(p), f, PricesOf(f), low, high)
    <2>1. ColumnTypes(f)
      BY <1>1, FillColumns
    <2>2. Entries(p) \in [DOMAIN p -> Int]
      BY <1>1 DEF Entries, HeldRecord
    <2> QED
      BY <1>1, <1>5, <2>1, <2>2 DEF BookTypes, ColumnTypes
  <1>9. SetTotal(h) \in Int
    <2>1. h \in [DOMAIN p -> Int]
      BY <1>8, ValueTypes
    <2> HIDE DEF h
    <2> QED
      BY <1>1, <2>1, SetEnumerated, TotalOf
  <1>10. CashAt(f, tk, Len(f), Len(tk)) = InitialEquity + Summed(flows)
    <2>1. Priced(f, tk, Len(f), Len(tk), m, price)
      BY <1>1, <1>3, <1>4 DEF Priced
    <2>2. CashPriced(f, tk, Len(f), Len(tk), price)
      BY <2>1, CashIs
    <2>3. CashFlows(f, Len(f), price) = flows
      BY <1>1 DEF Flows, PricesOf, CashFlows
    <2> QED
      BY <2>2, <2>3 DEF CashPriced
  <1> HIDE DEF h, flows
  <1>11. InitialEquity \in Int
    BY LedgerAssumption
  <1> QED
    BY <1>1, <1>4, <1>6, <1>7, <1>9, <1>10, <1>11 DEF MarkedEquity, flows

-----------------------------------------------------------------------------
(* The ticks, as they come.                                                *)

\* One tick more; it is the latest unless it is late.
TickAppended(tk, m, new, mm) ==
  /\ tk \in Seq(TickRecord) /\ HasLatest(tk) /\ new \in TickRecord
  /\ tk # <<>> => Latest(tk, m, Len(tk))
  /\ tk = <<>> => m = 0
  /\ mm = IF m = 0 \/ new.time >= tk[m].time THEN Len(tk) + 1 ELSE m
TicksAfter(tk, new, mm) ==
  /\ Append(tk, new) \in Seq(TickRecord) /\ HasLatest(Append(tk, new))
  /\ Latest(Append(tk, new), mm, Len(tk) + 1)

LEMMA TickAppends ==
  ASSUME NEW tk, NEW m, NEW new, NEW mm, TickAppended(tk, m, new, mm)
  PROVE  TicksAfter(tk, new, mm)
  <1> DEFINE n == Len(tk)
             tt == Append(tk, new)
  <1>1. /\ tk \in Seq(TickRecord) /\ new \in TickRecord /\ n \in Nat
        /\ \A i \in 1 .. n : tk[i].time \in Int
        /\ new.time \in Int
    <2>1. \A i \in 1 .. n : tk[i] \in TickRecord
      BY DEF TickAppended
    <2> QED
      BY <2>1 DEF TickAppended, TickRecord
  <1>2. tt \in Seq(TickRecord) /\ Len(tt) = n + 1 /\ tt[n + 1] = new
        /\ \A i \in 1 .. n : tt[i] = tk[i]
    BY <1>1
  <1> HIDE DEF tt
  <1>3. Latest(tt, mm, n + 1)
    <2>1. CASE n = 0
      <3>1. mm = 1
        BY <1>1, <2>1 DEF TickAppended
      <3> QED
        BY <1>2, <2>1, <3>1 DEF Latest
    <2>2. CASE n # 0
      <3>1. Latest(tk, m, n) /\ m \in 1 .. n
        BY <1>1, <2>2 DEF TickAppended, Latest
      <3>2. \A j \in 1 .. n : tk[j].time < tk[m].time \/ (tk[j].time = tk[m].time /\ j <= m)
        BY <3>1 DEF Latest
      <3>3. \A j \in 1 .. n + 1 : j = n + 1 \/ j \in 1 .. n
        BY <1>1
      <3>4. CASE new.time >= tk[m].time
        <4>1. mm = n + 1
          BY <3>4 DEF TickAppended
        <4>2. \A j \in 1 .. n : tt[j].time <= tt[n + 1].time /\ tt[j].time \in Int
          BY <1>1, <1>2, <3>1, <3>2, <3>4
        <4>3. \A j \in 1 .. n + 1 : tt[j].time < tt[n + 1].time
                                     \/ (tt[j].time = tt[n + 1].time /\ j <= n + 1)
          BY <1>1, <1>2, <3>3, <4>2
        <4> QED
          BY <1>1, <4>1, <4>3 DEF Latest
      <3>5. CASE ~(new.time >= tk[m].time)
        <4>1. mm = m
          BY <1>1, <3>1, <3>5 DEF TickAppended
        <4>2. tt[n + 1].time < tt[m].time
          BY <1>1, <1>2, <3>1, <3>5
        <4>3. \A j \in 1 .. n + 1 : tt[j].time < tt[m].time
                                     \/ (tt[j].time = tt[m].time /\ j <= m)
          BY <1>2, <3>1, <3>2, <3>3, <4>2
        <4> QED
          BY <1>1, <3>1, <4>1, <4>3 DEF Latest
      <3> QED
        BY <3>4, <3>5
    <2> QED
      BY <2>1, <2>2
  <1>4. ASSUME NEW k \in 1 .. Len(tt)
        PROVE  \E i \in 1 .. k : Latest(tt, i, k)
    <2>1. CASE k = n + 1
      BY <1>3, <2>1 DEF Latest
    <2>2. CASE k \in 1 .. n
      <3>1. PICK i \in 1 .. k : Latest(tk, i, k)
        BY <2>2 DEF TickAppended, HasLatest
      <3>2. \A j \in 1 .. k : tt[j] = tk[j]
        BY <1>1, <1>2, <2>2
      <3>3. Latest(tt, i, k)
        BY <3>1, <3>2 DEF Latest
      <3> QED
        BY <3>3
    <2> QED
      BY <1>1, <1>2, <1>4, <2>1, <2>2
  <1> QED
    BY <1>2, <1>3, <1>4 DEF TicksAfter, HasLatest, tt

LEMMA ArriveTicks ==
  ASSUME TicksInv, fills \in Seq(FillRecord), NEW offer \in [mid: Int, skew: Int, later: Nat],
         Ledger!Arrive(offer)
  PROVE  /\ TicksInv' /\ ticks' # <<>> /\ Len(ticks') = Len(ticks) + 1
         /\ Continues(fills, fills', ticks, ticks')
         /\ \A i \in 1 .. Len(ticks) : ticks'[i] = ticks[i]
         /\ instant' \in Int /\ phase = "idle" /\ phase' = "fills"
  <1>1. instant \in Int /\ instant' = instant + offer.later /\ instant' \in Int
    BY DEF TicksInv, Ledger!Arrive
  <1>2. PICK new : new = [mid |-> offer.mid, time |-> instant' + offer.skew, known |-> instant',
                          fills |-> Len(fills)]
    OBVIOUS
  <1>3. Len(fills) \in Nat /\ new \in TickRecord /\ new.known = instant'
        /\ new.fills = Len(fills)
    BY <1>1, <1>2 DEF TickRecord
  <1>4. /\ ticks \in Seq(TickRecord) /\ HasLatest(ticks)
        /\ ticks # <<>> => Latest(ticks, mark, Len(ticks))
        /\ ticks = <<>> => mark = 0
        /\ \A i \in 1 .. Len(ticks) : ticks[i].fills <= Len(fills)
    BY DEF TicksInv
  <1>5. ticks' = Append(ticks, new) /\ phase = "idle" /\ phase' = "fills" /\ fills' = fills
    BY <1>2 DEF Ledger!Arrive, Ledger!account
  <1>6. /\ Len(ticks') = Len(ticks) + 1 /\ ticks'[Len(ticks')] = new /\ ticks' # <<>>
        /\ ticks'[Len(ticks) + 1] = new
        /\ \A i \in 1 .. Len(ticks) : ticks'[i] = ticks[i]
    BY <1>3, <1>4, <1>5
  <1>7. mark' = IF mark = 0 \/ new.time >= ticks[mark].time THEN Len(ticks) + 1 ELSE mark
    <2>1. mark' = IF Ledger!Marks(ticks'[Len(ticks')]) THEN Len(ticks') ELSE mark
      BY DEF Ledger!Arrive
    <2> QED
      BY <1>6, <2>1 DEF Ledger!Marks
  <1>8. TickAppended(ticks, mark, new, mark')
    BY <1>3, <1>4, <1>7 DEF TickAppended
  <1>9. TicksAfter(ticks, new, mark')
    BY <1>8, TickAppends
  <1>10. Continues(fills, fills', ticks, ticks')
    BY <1>4, <1>5, <1>6, <1>9 DEF Continues, TicksAfter
  <1>11. \A i \in 1 .. Len(ticks') : ticks'[i].fills <= Len(fills')
    BY <1>3, <1>4, <1>5, <1>6
  <1>12. TicksInv'
    BY <1>1, <1>3, <1>5, <1>6, <1>9, <1>11 DEF TicksInv, TicksAfter
  <1> QED
    BY <1>1, <1>5, <1>6, <1>10, <1>12

\* The ticks when only fills come, or nothing does.
LEMMA SameTicksInv ==
  ASSUME TicksInv, fills \in Seq(FillRecord), fills' \in Seq(FillRecord),
         UNCHANGED <<ticks, mark, instant>>, Len(fills) <= Len(fills'),
         \A i \in 1 .. Len(fills) : fills'[i] = fills[i],
         phase' = "idle" <=> phase = "idle"
  PROVE  TicksInv' /\ Continues(fills, fills', ticks, ticks')
  <1>1. ticks \in Seq(TickRecord) /\ HasLatest(ticks)
    BY DEF TicksInv
  <1>2. Continues(fills, fills', ticks, ticks')
    BY <1>1 DEF Continues
  <1>3. \A i \in 1 .. Len(ticks) : ticks[i].fills <= Len(fills')
    <2>1. \A i \in 1 .. Len(ticks) : ticks[i] \in TickRecord /\ ticks[i].fills <= Len(fills)
      BY <1>1 DEF TicksInv
    <2>2. \A i \in 1 .. Len(ticks) : ticks[i].fills \in Nat
      BY <2>1 DEF TickRecord
    <2> QED
      BY <2>1, <2>2
  <1> QED
    BY <1>1, <1>2, <1>3 DEF TicksInv

LEMMA EndTicks ==
  ASSUME TicksInv, fills \in Seq(FillRecord), phase # "idle", phase' = "idle",
         UNCHANGED <<fills, mark, instant>>,
         ticks' = [ticks EXCEPT ![Len(ticks)].fills = Len(fills)]
  PROVE  /\ TicksInv' /\ Continues(fills, fills', ticks, ticks')
         /\ Len(ticks') = Len(ticks) /\ ticks'[Len(ticks)].fills = Len(fills)
         /\ ticks'[Len(ticks)].known = instant
         /\ \A i \in 1 .. Len(ticks) - 1 : ticks'[i] = ticks[i]
  <1>1. ticks \in Seq(TickRecord) /\ HasLatest(ticks) /\ ticks # <<>> /\ Len(fills) \in Nat
    BY DEF TicksInv
  <1>2. PICK n \in Nat \ {0} : n = Len(ticks)
    BY <1>1
  <1>3. /\ ticks \in [1 .. n -> TickRecord] /\ ticks[n] \in TickRecord
    BY <1>1, <1>2
  <1>4. PICK new : new = [ticks[n] EXCEPT !.fills = Len(fills)]
    OBVIOUS
  <1>5. /\ new \in TickRecord /\ new.fills = Len(fills) /\ new.time = ticks[n].time
        /\ new.mid = ticks[n].mid /\ new.known = ticks[n].known
    BY <1>1, <1>3, <1>4 DEF TickRecord
  <1>6. ticks' = [ticks EXCEPT ![n] = new]
    BY <1>2, <1>3, <1>4
  <1>7. /\ ticks' \in [1 .. n -> TickRecord] /\ ticks'[n] = new
        /\ \A i \in 1 .. n : i # n => ticks'[i] = ticks[i]
    BY <1>2, <1>3, <1>5, <1>6
  <1>8. ticks' \in Seq(TickRecord) /\ Len(ticks') = n /\ ticks' # <<>>
    <2>1. ticks' \in [1 .. n -> TickRecord] /\ n \in Nat /\ n # 0
      BY <1>2, <1>7
    <2>2. ticks' \in Seq(TickRecord) /\ Len(ticks') = n
      <3>1. PICK tt : tt = ticks'
        OBVIOUS
      <3>2. tt \in [1 .. n -> TickRecord]
        BY <2>1, <3>1
      <3>3. tt \in Seq(TickRecord) /\ Len(tt) = n
        BY <2>1, <3>2
      <3> QED
        BY <3>1, <3>3
    <2> QED
      BY <2>1, <2>2
  <1>9. \A i \in 1 .. n : ticks'[i].time = ticks[i].time /\ ticks'[i].mid = ticks[i].mid
    BY <1>5, <1>7
  <1>10. HasLatest(ticks') /\ Latest(ticks', mark, n)
    <2>1. \A i, k : k \in 1 .. n /\ Latest(ticks, i, k) => Latest(ticks', i, k)
      BY <1>2, <1>9 DEF Latest
    <2>2. \A k \in 1 .. n : \E i \in 1 .. k : Latest(ticks, i, k)
      BY <1>1, <1>2 DEF HasLatest
    <2>3. Latest(ticks, mark, n)
      BY <1>1, <1>2 DEF TicksInv
    <2>4. Latest(ticks', mark, n)
      <3>1. n \in 1 .. n
        BY <1>2
      <3> QED
        BY <2>1, <2>3, <3>1, Zenon
    <2>5. \A k \in 1 .. Len(ticks') : \E i \in 1 .. k : Latest(ticks', i, k)
      BY <1>8, <2>1, <2>2
    <2> QED
      BY <2>4, <2>5 DEF HasLatest
  <1>11. Continues(fills, fills', ticks, ticks')
    BY <1>1, <1>2, <1>8, <1>9 DEF Continues
  <1>12. \A i \in 1 .. n : ticks'[i].fills <= Len(fills)
    BY <1>1, <1>2, <1>5, <1>7 DEF TicksInv
  <1>13. ticks'[n].known = instant
    BY <1>2, <1>5, <1>7 DEF TicksInv
  <1>14. TicksInv'
    BY <1>2, <1>8, <1>10, <1>12 DEF TicksInv
  <1> QED
    BY <1>2, <1>5, <1>7, <1>8, <1>11, <1>13, <1>14

-----------------------------------------------------------------------------
(* The drawdown and the snapshots, as the accounts go on.                  *)

\* The equity at a tick that was handled does not change afterwards.
LEMMA DrawdownStays ==
  ASSUME DrawdownInv, TicksInv, Continues(fills, fills', ticks, ticks'), Handled' = Handled,
         \A i \in 1 .. Handled : ticks'[i] = ticks[i], UNCHANGED <<peak, drawdown>>
  PROVE  DrawdownInv'
  <1>1. Handled \in Nat \/ Handled = -1
    BY DEF TicksInv, Handled
  <1>2. Points' = Points
    BY DEF Points
  <1>3. ASSUME NEW i \in Points, i # 0
        PROVE  CashAt(fills', ticks', ticks'[i].fills, i) = CashAt(fills, ticks, ticks[i].fills, i)
    <2>1. i \in 1 .. Len(ticks) /\ ticks'[i] = ticks[i]
      BY <1>3 DEF Points, Handled, TicksInv
    <2>2. ticks[i] \in TickRecord /\ ticks[i].fills <= Len(fills)
      BY <2>1 DEF TicksInv
    <2>3. PICK n \in Nat : n = ticks[i].fills
      BY <2>2 DEF TickRecord
    <2>4. CashStayed(fills, fills', ticks, ticks', n, i)
      BY <2>1, <2>2, <2>3, CashStays
    <2> QED
      BY <2>1, <2>3, <2>4 DEF CashStayed
  <1>4. Equities' = Equities
    BY <1>2, <1>3 DEF Equities
  <1> QED
    BY <1>2, <1>4 DEF DrawdownInv

LEMMA EquitiesType ==
  ASSUME TicksInv, fills \in Seq(FillRecord)
  PROVE  /\ Points \in SUBSET Nat /\ Equities \in [Points -> Int]
         /\ \A i \in Points : i = 0 \/ i \in 1 .. Handled
  <1>1. Points \in SUBSET Nat /\ \A i \in Points : i = 0 \/ i \in 1 .. Handled
    BY DEF Points, Handled, TicksInv
  <1>2. ASSUME NEW i \in Points, i # 0
        PROVE  CashAt(fills, ticks, ticks[i].fills, i) \in Int
    <2>1. i \in 1 .. Len(ticks)
      BY <1>1, <1>2 DEF Handled, TicksInv
    <2>2. PICK m \in 1 .. i : Latest(ticks, m, i)
      BY <2>1 DEF TicksInv, HasLatest
    <2>3. LatestAt(ticks, i) = m /\ m \in 1 .. Len(ticks)
      BY <2>1, <2>2, LatestUnique DEF TicksInv
    <2>4. ticks[i] \in TickRecord /\ ticks[m] \in TickRecord /\ ticks[i].fills <= Len(fills)
      BY <2>1, <2>3 DEF TicksInv
    <2>5. PICK n \in Nat : n = ticks[i].fills
      BY <2>4 DEF TickRecord
    <2>6. PICK price \in Int : price = ticks[m].mid
      BY <2>4 DEF TickRecord
    <2>7. Priced(fills, ticks, n, i, m, price)
      BY <2>3, <2>4, <2>5, <2>6 DEF Priced
    <2>8. CashPriced(fills, ticks, n, i, price)
      BY <2>7, CashIs
    <2> QED
      BY <2>5, <2>8 DEF CashPriced
  <1>3. InitialEquity \in Int
    BY LedgerAssumption
  <1> QED
    BY <1>1, <1>2, <1>3 DEF Equities

\* The book of positions balances at the mark.
LEMMA LedgerMarked ==
  ASSUME HoldingInv, TicksInv, ticks # <<>>
  PROVE  /\ MarkedEquity(realized, positions, fills, ticks, mark)
         /\ Ledger!Equity = CashAt(fills, ticks, Len(fills), Len(ticks))
         /\ Ledger!Equity \in Int
  <1>1. Marked(realized, positions, fills, ticks, mark)
    BY DEF HoldingInv, HoldingTypes, TicksInv, CashHolds, Marked
  <1>2. MarkedEquity(realized, positions, fills, ticks, mark)
    BY <1>1, EquityIsCash
  <1> QED
    BY <1>2 DEF MarkedEquity, Ledger!Equity

\* One tick handled is one point of the drawdown.
LEMMA EndDrawdown ==
  ASSUME HoldingInv, TicksInv, DrawdownInv, phase # "idle", phase' = "idle",
         TicksInv', fills' = fills, Continues(fills, fills', ticks, ticks'),
         Len(ticks') = Len(ticks), ticks'[Len(ticks)].fills = Len(fills),
         ticks'[Len(ticks)].known = instant,
         \A i \in 1 .. Len(ticks) - 1 : ticks'[i] = ticks[i],
         IF Ledger!Evaluating(instant)
         THEN /\ peak' = Ledger!Greater(peak, Ledger!Equity)
              /\ drawdown' = Ledger!Greater(drawdown, peak' - Ledger!Equity)
         ELSE UNCHANGED <<peak, drawdown>>
  PROVE  DrawdownInv'
  <1>0. ticks # <<>> /\ ticks \in Seq(TickRecord) /\ fills \in Seq(FillRecord) /\ instant \in Int
    BY DEF TicksInv, HoldingInv, HoldingTypes
  <1>1. PICK n \in Nat \ {0} : n = Len(ticks)
    BY <1>0
  <1>2. Handled = n - 1 /\ Handled' = n
    BY <1>1 DEF Handled
  <1>3. \A i \in 1 .. n - 1 : ticks'[i] = ticks[i]
    BY <1>1
  <1>4. Points' = Points \cup (IF instant >= EvaluateFrom THEN {n} ELSE {})
    <2>1. \A i \in 1 .. n : i = n \/ i \in 1 .. n - 1
      BY <1>1
    <2>2. n \in 1 .. n /\ 1 .. n - 1 \in SUBSET (1 .. n) /\ ticks'[n].known = instant
      BY <1>1
    <2> QED
      BY <1>2, <1>3, <2>1, <2>2 DEF Points
  <1>5. /\ Points \in SUBSET Nat /\ Equities \in [Points -> Int]
        /\ \A i \in Points : i = 0 \/ i \in 1 .. n - 1
    BY <1>0, <1>2, EquitiesType
  <1>6. Ledger!Equity = CashAt(fills, ticks, Len(fills), n) /\ Ledger!Equity \in Int
    BY <1>0, <1>1, LedgerMarked
  <1>7. CashAt(fills', ticks', Len(fills), n) = Ledger!Equity
    <2>1. n \in 1 .. Len(ticks) /\ Len(fills) \in Nat /\ Len(fills) <= Len(fills)
      BY <1>0, <1>1
    <2>2. CashStayed(fills, fills', ticks, ticks', Len(fills), n)
      BY <2>1, CashStays
    <2> QED
      BY <1>6, <2>2 DEF CashStayed
  <1>8. ASSUME NEW i \in Points, i # 0
        PROVE  CashAt(fills', ticks', ticks'[i].fills, i) = CashAt(fills, ticks, ticks[i].fills, i)
    <2>1. i \in 1 .. Len(ticks) /\ ticks'[i] = ticks[i]
      BY <1>1, <1>3, <1>5, <1>8
    <2>2. ticks[i] \in TickRecord /\ ticks[i].fills <= Len(fills)
      BY <2>1 DEF TicksInv
    <2>3. PICK k \in Nat : k = ticks[i].fills
      BY <2>2 DEF TickRecord
    <2>4. CashStayed(fills, fills', ticks, ticks', k, i)
      BY <2>1, <2>2, <2>3, CashStays
    <2> QED
      BY <2>1, <2>3, <2>4 DEF CashStayed
  <1>9. /\ DOMAIN Equities' = Points' /\ \A i \in Points : Equities'[i] = Equities[i]
    <2>1. \A i \in Points : i \in Points'
      BY <1>4
    <2> QED
      BY <1>8, <2>1 DEF Equities
  <1>10. CASE ~(instant >= EvaluateFrom)
    <2>1. Points' = Points /\ peak' = peak /\ drawdown' = drawdown
      BY <1>4, <1>10 DEF Ledger!Evaluating
    <2>2. Equities' = Equities
      <3>1. Equities' = [i \in Points' |-> Equities'[i]]
        BY DEF Equities
      <3>2. Equities = [i \in Points |-> Equities[i]]
        BY DEF Equities
      <3> QED
        BY <1>9, <2>1, <3>1, <3>2
    <2> QED
      BY <2>1, <2>2 DEF DrawdownInv
  <1>11. CASE instant >= EvaluateFrom
    <2>1. PICK E : E = Points
      OBVIOUS
    <2>2. PICK at : at = Equities
      OBVIOUS
    <2>3. PICK bt : bt = Equities'
      OBVIOUS
    <2>4. PICK v : v = Ledger!Equity
      OBVIOUS
    <2>5. Points' = E \cup {n} /\ n \in Points'
      BY <1>4, <1>11, <2>1
    <2>6. bt[n] = v /\ v \in Int
      <3>1. n # 0 /\ ticks'[n].fills = Len(fills)
        BY <1>1
      <3>2. Equities'[n] = CashAt(fills', ticks', Len(fills), n)
        BY <2>5, <3>1 DEF Equities
      <3> QED
        BY <1>6, <1>7, <2>3, <2>4, <3>2
    <2>7. bt \in [E \cup {n} -> Int] /\ \A i \in E : bt[i] = at[i]
      <3>1. Equities' = [i \in Points' |-> Equities'[i]]
        BY DEF Equities
      <3>2. \A i \in E : bt[i] = at[i] /\ at[i] \in Int
        BY <1>5, <1>9, <2>1, <2>2, <2>3
      <3>3. \A i \in E \cup {n} : bt[i] \in Int
        BY <2>6, <3>2
      <3> QED
        BY <2>3, <2>5, <3>1, <3>2, <3>3
    <2>8. CurveGrows(E, at, peak, drawdown, n, bt)
      <3>1. \A i \in E : i < n
        BY <1>1, <1>5, <2>1
      <3>2. CurveOf(E, at, peak, drawdown) /\ peak \in Int /\ drawdown \in Int
        BY <2>1, <2>2 DEF DrawdownInv
      <3> QED
        BY <1>1, <1>5, <2>1, <2>2, <2>7, <3>1, <3>2 DEF CurveGrows
    <2>9. CurveGrown(E, peak, drawdown, n, bt)
      BY <2>8, CurvePoint
    <2>10. peak' = Ledger!Greater(peak, v) /\ drawdown' = Ledger!Greater(drawdown, peak' - v)
      BY <1>11, <2>4 DEF Ledger!Evaluating
    <2>11. CurveOf(Points', Equities', peak', drawdown')
      BY <2>3, <2>5, <2>6, <2>9, <2>10 DEF CurveGrown
    <2>12. peak' \in Int /\ drawdown' \in Int
      BY <2>6, <2>10 DEF Ledger!Greater, DrawdownInv
    <2> QED
      BY <2>11, <2>12 DEF DrawdownInv
  <1> QED
    BY <1>10, <1>11

\* The trades go on as the fills do.
TradesContinue ==
  /\ trades' \in Seq(TradeRecord) /\ Len(trades) <= Len(trades')
  /\ \A i \in 1 .. Len(trades) : trades'[i] = trades[i]

\* The closings of the first fills are no more than the trades.
LEMMA ClosingsBelow ==
  ASSUME TradesInv, NEW n \in Nat, n <= Len(fills)
  PROVE  ClosingsOf(fills, n) \in Nat /\ ClosingsOf(fills, n) <= Len(trades)
  <1>1. fills \in Seq(FillRecord) /\ \A i \in 1 .. Len(fills) : fills[i].opens \in BOOLEAN
    <2>1. \A i \in 1 .. Len(fills) : fills[i] \in FillRecord
      BY DEF TradesInv
    <2> QED
      BY <2>1 DEF TradesInv, FillRecord
  <1>2. PICK no \in BOOLEAN : no = FALSE
    OBVIOUS
  <1>3. ClosingsIn(fills) = Cardinality(OpenOrClose(fills, no)) /\ ClosingsIn(fills) = Len(trades)
    BY <1>2, Zenon DEF ClosingsIn, CountOf, TradesInv
  <1>4. \A i \in 1 .. Len(fills) : (fills[i].opens = no) <=> ~fills[i].opens
    BY <1>1, <1>2, Zenon
  <1>5. {i \in 1 .. n : ~fills[i].opens} \in SUBSET OpenOrClose(fills, no)
    <2>1. \A i \in 1 .. n : i \in 1 .. Len(fills)
      BY <1>1
    <2> QED
      BY <1>4, <2>1, Zenon DEF OpenOrClose
  <1>6. IsFiniteSet(OpenOrClose(fills, no))
    <2>1. IsFiniteSet(1 .. Len(fills))
      BY <1>1, FS_Interval
    <2> QED
      BY <2>1, FS_Subset DEF OpenOrClose
  <1>7. IsFiniteSet({i \in 1 .. n : ~fills[i].opens})
    BY <1>5, <1>6, FS_Subset
  <1>8. Cardinality({i \in 1 .. n : ~fills[i].opens}) <= Cardinality(OpenOrClose(fills, no))
    BY <1>5, <1>6, FS_Subset
  <1> QED
    BY <1>3, <1>7, <1>8, FS_CardinalityType DEF ClosingsOf

\* All closings are trades.
AllClosings(f, tr) == ClosingsOf(f, Len(f)) = Len(tr)

LEMMA ClosingsAll ==
  ASSUME NEW f \in Seq(FillRecord), NEW tr, ClosingsIn(f) = Len(tr)
  PROVE  AllClosings(f, tr)
  <1>1. \A i \in 1 .. Len(f) : f[i].opens \in BOOLEAN
    <2>1. \A i \in 1 .. Len(f) : f[i] \in FillRecord
      OBVIOUS
    <2> QED
      BY <2>1 DEF FillRecord
  <1>2. PICK no \in BOOLEAN : no = FALSE
    OBVIOUS
  <1>3. ClosingsIn(f) = Cardinality(OpenOrClose(f, no))
    BY <1>2, Zenon DEF ClosingsIn, CountOf
  <1>4. \A i \in 1 .. Len(f) : (f[i].opens = no) <=> ~f[i].opens
    BY <1>1, <1>2, Zenon
  <1>5. {i \in 1 .. Len(f) : ~f[i].opens} = OpenOrClose(f, no)
    BY <1>4, Zenon DEF OpenOrClose
  <1> QED
    BY <1>3, <1>5 DEF ClosingsOf, AllClosings

\* A snapshot stays exact.
LEMMA SnapshotStays ==
  ASSUME SnapshotInv, TradesInv, TicksInv, Continues(fills, fills', ticks, ticks'),
         TradesContinue, snapshots' = snapshots
  PROVE  SnapshotInv'
  <1>1. CASE ~(Len(snapshots) > 1)
    BY <1>1 DEF SnapshotInv
  <1>2. CASE Len(snapshots) > 1
    <2>1. PICK s : s = snapshots[Len(snapshots)]
      OBVIOUS
    <2>2. s \in SnapshotRecord
      BY <1>2, <2>1 DEF SnapshotInv
    <2>3. PICK n \in Nat : n = s.fills
      BY <2>2 DEF SnapshotRecord
    <2>4. PICK k : k = s.ticks
      OBVIOUS
    <2>5. PICK at \in Int : at = s.at
      BY <2>2 DEF SnapshotRecord
    <2>6. /\ n <= Len(fills) /\ k \in 1 .. Len(ticks)
          /\ s.equity = CashAt(fills, ticks, n, k)
          /\ s.day = Summed(NetsOf(trades, ClosingsOf(fills, n), at))
      BY <1>2, <2>1, <2>3, <2>4, <2>5 DEF SnapshotInv
    <2>7. CashStayed(fills, fills', ticks, ticks', n, k)
      BY <2>6, CashStays
    <2>8. PICK c \in Nat : c = ClosingsOf(fills, n) /\ c <= Len(trades)
      BY <2>6, ClosingsBelow
    <2>9. ClosingsOf(fills', n) = c
      <3>1. \A i \in 1 .. n : fills'[i] = fills[i]
        <4>1. \A i \in 1 .. n : i \in 1 .. Len(fills)
          BY <2>6 DEF TradesInv
        <4> QED
          BY <4>1 DEF Continues
      <3>2. {i \in 1 .. n : ~fills'[i].opens} = {i \in 1 .. n : ~fills[i].opens}
        BY <3>1
      <3> QED
        BY <2>8, <3>2 DEF ClosingsOf
    <2>10. NetsOf(trades', c, at) = NetsOf(trades, c, at)
      <3>1. \A i \in 1 .. c : trades'[i] = trades[i]
        <4>1. \A i \in 1 .. c : i \in 1 .. Len(trades)
          BY <2>8 DEF TradesInv
        <4> QED
          BY <4>1 DEF TradesContinue
      <3> QED
        BY <3>1 DEF NetsOf, DayNets
    <2>11. n <= Len(fills') /\ k \in 1 .. Len(ticks')
      <3>1. /\ Len(fills) \in Nat /\ Len(fills') \in Nat /\ Len(ticks) \in Nat
            /\ Len(ticks') \in Nat /\ Len(fills) <= Len(fills') /\ Len(ticks) <= Len(ticks')
        BY DEF Continues
      <3> QED
        BY <2>6, <3>1
    <2>12. /\ s.equity = CashAt(fills', ticks', s.fills, s.ticks)
           /\ s.day = Summed(NetsOf(trades', ClosingsOf(fills', s.fills), s.at))
      BY <2>3, <2>4, <2>5, <2>6, <2>7, <2>8, <2>9, <2>10 DEF CashStayed
    <2>13. snapshots'[Len(snapshots')] = s
      BY <2>1
    <2> QED
      BY <2>3, <2>4, <2>11, <2>12, <2>13 DEF SnapshotInv
  <1> QED
    BY <1>1, <1>2

LEMMA DayStart ==
  ASSUME NEW t \in Int
  PROVE  Ledger!JstStart(t) \in Int
  <1>1. JstShift \in Int /\ DayLength \in Nat \ {0}
    BY LedgerAssumption
  <1>2. (t + JstShift) \div DayLength \in Int
    BY <1>1
  <1> QED
    BY <1>1, <1>2 DEF Ledger!JstStart

\* A snapshot is exact when it is taken.
LEMMA SnapshotTaken ==
  ASSUME SnapshotInv, HoldingInv', TradesInv', TicksInv', ticks' # <<>>, peak \in Int,
         snapshots' = Append(snapshots, Ledger!Snapshot)
  PROVE  SnapshotInv'
  <1>1. PICK s : s = Ledger!Snapshot
    OBVIOUS
  <1>2. Marked(realized', positions', fills', ticks', mark')
    BY DEF HoldingInv, HoldingTypes, TicksInv, CashHolds, Marked
  <1>3. MarkedEquity(realized', positions', fills', ticks', mark')
    BY <1>2, EquityIsCash
  <1>4. PICK u : u = Ledger!Unrealized(positions', ticks'[mark'])
    OBVIOUS
  <1>5. PICK e : e = InitialEquity + realized' + u
    OBVIOUS
  <1>6. e = CashAt(fills', ticks', Len(fills'), Len(ticks')) /\ e \in Int
    BY <1>3, <1>4, <1>5 DEF MarkedEquity
  <1>7. instant' \in Int /\ Ledger!JstStart(instant') \in Int
    BY DayStart DEF TicksInv
  <1>8. PICK day : day = Ledger!RealizedDay(byDate', instant')
    OBVIOUS
  <1>9. day = Summed(NetsOf(trades', Len(trades'), instant')) /\ day \in Int
    <2>1. DaysAgree(byDate', trades', Ledger!JstStart(instant'), instant')
      BY <1>7 DEF TradesInv
    <2>2. PICK lo \in Int : lo = Ledger!JstStart(instant')
      BY <1>7
    <2>3. PICK hi \in Int : hi = instant'
      BY <1>7
    <2>4. day = SetTotal(DayTotals(byDate', lo, hi))
      BY <1>8, <2>2, <2>3, LedgerSums, Zenon DEF Ledger!RealizedDay, DayTotals, Window
    <2>5. NetsOf(trades', Len(trades'), instant') = DayNets(trades', Len(trades'), lo, hi)
      BY <2>2, <2>3 DEF NetsOf
    <2>6. DayNets(trades', Len(trades'), lo, hi) \in Seq(Int)
      <3>1. \A i \in 1 .. Len(trades') : trades'[i] \in TradeRecord
        BY DEF TradesInv
      <3>2. \A i \in 1 .. Len(trades') : trades'[i].net \in Int
        BY <3>1 DEF TradeRecord
      <3>3. Len(trades') \in Nat
        BY DEF TradesInv
      <3> QED
        BY <3>2, <3>3 DEF DayNets
    <2>7. ASSUME NEW q \in Seq(Int) PROVE Summed(q) \in Int
      BY SumMonotone
    <2> QED
      BY <2>1, <2>2, <2>3, <2>4, <2>5, <2>6, <2>7 DEF DaysAgree
  <1>10. AllClosings(fills', trades')
    BY ClosingsAll DEF TradesInv
  <1>11. InitialEquity \in Int /\ realized' \in Int
    BY LedgerAssumption DEF HoldingInv, HoldingTypes
  <1>12. PICK top \in Int : top = Ledger!Greater(peak, e)
    BY <1>6 DEF Ledger!Greater
  <1>13. s = [at |-> instant', balance |-> InitialEquity + realized', equity |-> e, day |-> day,
              drawdown |-> top - e, fills |-> Len(fills'), ticks |-> Len(ticks')]
    BY <1>1, <1>4, <1>5, <1>8, <1>12, Zenon DEF Ledger!Snapshot
  <1>14. Len(fills') \in Nat /\ Len(ticks') \in Nat /\ Len(ticks') \in 1 .. Len(ticks')
    BY DEF TicksInv, TradesInv
  <1>15. s \in SnapshotRecord
    <2>1. PICK a \in Int : a = instant'
      BY <1>7
    <2>2. PICK b \in Int : b = InitialEquity + realized'
      <3>1. PICK r \in Int : r = realized'
        BY <1>11
      <3>2. InitialEquity + r \in Int
        BY <1>11
      <3> QED
        BY <3>1, <3>2
    <2>3. PICK f \in Nat : f = Len(fills')
      BY <1>14
    <2>4. PICK k \in Nat : k = Len(ticks')
      BY <1>14
    <2>5. PICK d \in Int : d = top - e
      BY <1>6, <1>12
    <2>6. s = [at |-> a, balance |-> b, equity |-> e, day |-> day, drawdown |-> d, fills |-> f,
               ticks |-> k]
      BY <1>13, <2>1, <2>2, <2>3, <2>4, <2>5, Zenon
    <2> QED
      BY <1>6, <1>9, <2>6, Zenon DEF SnapshotRecord
  <1>16. /\ snapshots' \in Seq(SnapshotRecord) /\ snapshots' # <<>>
         /\ snapshots'[Len(snapshots')] = s
    BY <1>1, <1>15 DEF SnapshotInv
  <1>17. /\ s.fills <= Len(fills') /\ s.ticks \in 1 .. Len(ticks')
         /\ s.equity = CashAt(fills', ticks', s.fills, s.ticks)
    BY <1>6, <1>13, <1>14
  <1>18. s.day = Summed(NetsOf(trades', ClosingsOf(fills', s.fills), s.at))
    <2>1. s.day = day /\ s.fills = Len(fills') /\ s.at = instant'
      BY <1>13
    <2>2. ClosingsOf(fills', Len(fills')) = Len(trades')
      BY <1>10 DEF AllClosings
    <2> QED
      BY <1>9, <2>1, <2>2
  <1> QED
    BY <1>16, <1>17, <1>18 DEF SnapshotInv

-----------------------------------------------------------------------------
(* The result of a replay.                                                 *)

LEMMA SpreadProduct ==
  \A q, a, b \in Nat :
    /\ 1 * ((a * b) - 0) * q = q * a * b
    /\ (-1) * ((-(a * b)) - 0) * q = q * a * b
    /\ q * a * b \in Nat
  <1>1. ASSUME NEW q \in Nat, NEW a \in Nat, NEW b \in Nat
        PROVE  /\ 1 * ((a * b) - 0) * q = q * a * b
               /\ (-1) * ((-(a * b)) - 0) * q = q * a * b
               /\ q * a * b \in Nat
    <2>1. PICK c \in Nat : c = a * b
      BY <1>1
    <2>2. 1 * (c - 0) * q = c * q /\ (-1) * ((-c) - 0) * q = c * q
      BY <1>1, <2>1
    <2>3. q * a * b = c * q /\ c * q \in Nat
      BY <1>1, <2>1
    <2> QED
      BY <2>1, <2>2, <2>3
  <1> QED
    BY <1>1

\* The spread of what is held, and the value at the mid of what is held.
SpreadHeld == [t \in DOMAIN positions |-> positions[t].quantity * HalfSpread * Multiplier]
MidHeld(m) ==
  [t \in DOMAIN owners |-> Ledger!SignedPnl(positions[t].direction, owners[t].mid, m,
                                            positions[t].quantity)]

LEMMA HeldSpread ==
  ASSUME HoldingTypes
  PROVE  /\ HeldValues(positions, Nothing(positions), SpreadOf, -SpreadOf) = SpreadHeld
         /\ SpreadHeld \in [DOMAIN positions -> Nat]
  <1>1. ASSUME NEW t \in DOMAIN positions
        PROVE  /\ HeldValues(positions, Nothing(positions), SpreadOf, -SpreadOf)[t]
                    = SpreadHeld[t]
               /\ SpreadHeld[t] \in Nat
    <2>1. positions[t] \in HeldRecord
      BY <1>1 DEF HoldingTypes
    <2>2. positions[t].direction \in Sides /\ positions[t].quantity \in Nat
      BY <2>1 DEF HeldRecord
    <2>3. PICK q \in Nat : q = positions[t].quantity
      BY <2>2
    <2>4. HalfSpread \in Nat /\ Multiplier \in Nat
      BY LedgerAssumption
    <2>5. /\ 1 * (SpreadOf - 0) * q = q * HalfSpread * Multiplier
          /\ (-1) * ((-SpreadOf) - 0) * q = q * HalfSpread * Multiplier
          /\ q * HalfSpread * Multiplier \in Nat
      BY <2>4, SpreadProduct, Zenon DEF SpreadOf
    <2>6. SpreadHeld[t] = q * HalfSpread * Multiplier
      BY <1>1, <2>3 DEF SpreadHeld
    <2>7. HeldValues(positions, Nothing(positions), SpreadOf, -SpreadOf)[t]
            = Ledger!SignedPnl(positions[t].direction, 0,
                               Value(positions[t].direction, SpreadOf, -SpreadOf), q)
      BY <1>1, <2>3 DEF HeldValues, Nothing
    <2>8. CASE positions[t].direction = "LONG"
      <3>1. Value(positions[t].direction, SpreadOf, -SpreadOf) = SpreadOf
        BY <2>8 DEF Value
      <3>2. Ledger!Sign(positions[t].direction) = 1
        BY <2>8 DEF Ledger!Sign
      <3> QED
        BY <2>5, <2>6, <2>7, <3>1, <3>2 DEF Ledger!SignedPnl
    <2>9. CASE positions[t].direction = "SHORT"
      <3>1. Value(positions[t].direction, SpreadOf, -SpreadOf) = -SpreadOf
        BY <2>9 DEF Value
      <3>2. Ledger!Sign(positions[t].direction) = -1
        BY <2>9 DEF Ledger!Sign
      <3> QED
        BY <2>5, <2>6, <2>7, <3>1, <3>2 DEF Ledger!SignedPnl
    <2> QED
      BY <2>2, <2>8, <2>9 DEF Sides
  <1> QED
    BY <1>1 DEF HeldValues, SpreadHeld

LEMMA HeldMid ==
  ASSUME HoldingTypes, NEW m
  PROVE  HeldValues(positions, EntryMids(positions, owners), m, m) = MidHeld(m)
  <1>1. DOMAIN owners = DOMAIN positions
    BY DEF HoldingTypes
  <1>2. \A t \in DOMAIN positions :
          HeldValues(positions, EntryMids(positions, owners), m, m)[t] = MidHeld(m)[t]
    BY <1>1 DEF HeldValues, EntryMids, MidHeld, Value
  <1> QED
    BY <1>1, <1>2 DEF HeldValues, MidHeld

\* What the result calls cost is what the fills gave away.
MidNet == grossMid + Ledger!OpenMid
SideNet == realized + Ledger!Unrealized(positions, ticks[mark])
CostFair ==
  \E x, y \in Int : /\ x = MidNet /\ y = SideNet
                    /\ Ledger!CashCost = x - y /\ x - y >= 0

LEMMA LedgerCost ==
  ASSUME HoldingInv, TicksInv, ticks # <<>>
  PROVE  CostFair
  <1>1. mark \in 1 .. Len(ticks) /\ ticks[mark] \in TickRecord
    BY DEF TicksInv, Latest
  <1>2. PICK m \in Int : m = ticks[mark].mid
    BY <1>1 DEF TickRecord
  <1>3. PICK h \in Int : h = SpreadOf
    BY SpreadFacts
  <1>4. MarkedEquity(realized, positions, fills, ticks, mark)
    BY LedgerMarked
  <1>5. realized + Ledger!Unrealized(positions, ticks[mark])
          = Summed(Flows(fills, PricesOf(fills), m - h, m + h))
    BY <1>2, <1>3, <1>4, Zenon DEF MarkedEquity
  <1>6. grossMid + SetTotal(MidHeld(m)) = Summed(Flows(fills, MidsOf(fills), m, m))
    <2>1. MidsHold(m)
      BY DEF HoldingInv
    <2>2. HeldValues(positions, EntryMids(positions, owners), m, m) = MidHeld(m)
      BY HeldMid DEF HoldingInv
    <2> QED
      BY <2>1, <2>2, Zenon DEF MidsHold, Balances
  <1>7. HeldValues(positions, Nothing(positions), h, -h) = SpreadHeld
    BY <1>3, HeldSpread, Zenon DEF HoldingInv
  <1>8. 0 + SetTotal(SpreadHeld) = Summed(Flows(fills, NothingOf(fills), h, -h))
    <2>1. OpenHolds(h, -h)
      BY DEF HoldingInv
    <2> QED
      BY <1>7, <2>1, Zenon DEF OpenHolds, Balances
  <1>9. CostsSplit(fills, m, h)
    BY SplitCosts DEF HoldingInv, HoldingTypes
  <1>10. SetTotal(SpreadHeld) \in Int /\ SetTotal(SpreadHeld) >= 0
    BY HeldSpread, TotalNatural DEF HoldingInv, HoldingTypes
  <1>11. Summed(Costs(fills)) >= 0
    BY CostsAdverse DEF HoldingInv, HoldingTypes, Adverse
  <1>12. Ledger!CashCost = Summed(Costs(fills)) + SetTotal(SpreadHeld)
    BY LedgerSums, Zenon DEF Ledger!CashCost, Costs, SpreadHeld
  <1>13. Summed(Costs(fills)) \in Int
    BY <1>9 DEF CostsSplit
  <1>14. PICK a \in Int : a = Summed(Flows(fills, PricesOf(fills), m - h, m + h))
    BY <1>9 DEF CostsSplit
  <1>15. PICK c \in Int : c = Summed(Costs(fills))
    BY <1>13
  <1>16. PICK d \in Int : d = SetTotal(SpreadHeld)
    BY <1>10
  <1>17. Summed(Flows(fills, NothingOf(fills), h, -h)) = d
    BY <1>8, <1>16
  <1>18. grossMid + SetTotal(MidHeld(m)) = a + (c + d)
    BY <1>6, <1>9, <1>14, <1>15, <1>17, Zenon DEF CostsSplit
  <1>19. Ledger!OpenMid = SetTotal(MidHeld(m))
    BY <1>2, LedgerSums, Zenon DEF MidHeld, Ledger!OpenMid
  <1>20. Ledger!CashCost = c + d /\ c >= 0 /\ d >= 0
    BY <1>10, <1>11, <1>12, <1>15, <1>16
  <1>21. MidNet = a + (c + d)
    BY <1>18, <1>19, Zenon DEF MidNet
  <1>22. SideNet = a
    BY <1>5, <1>14, Zenon DEF SideNet
  <1>23. PICK x \in Int : x = a + (c + d)
    OBVIOUS
  <1>24. Ledger!CashCost = x - a /\ x - a >= 0
    BY <1>20, <1>23
  <1> QED
    BY <1>14, <1>21, <1>22, <1>23, <1>24, Zenon DEF CostFair

LEMMA FinishResult ==
  ASSUME HoldingInv, TicksInv, ResultInv, Ledger!Finish
  PROVE  ResultInv'
  <1>1. /\ UNCHANGED <<instant, phase, ticks, positions, owners, mark, realized, grossMid, fills,
                      drawdown>>
        /\ phase = "idle" /\ ticks # <<>>
    BY DEF Ledger!Finish, Ledger!account
  <1>2. /\ MarkedEquity(realized, positions, fills, ticks, mark)
        /\ Ledger!Equity = CashAt(fills, ticks, Len(fills), Len(ticks))
        /\ Ledger!Equity \in Int
    BY <1>1, LedgerMarked
  <1>3. PICK e \in Int : e = CashAt(fills, ticks, Len(fills), Len(ticks))
    BY <1>2
  <1>4. PICK u \in Int : u = Ledger!Unrealized(positions, ticks[mark])
    BY <1>2 DEF MarkedEquity
  <1>5. PICK g \in Int, n \in Int : /\ g = MidNet /\ n = SideNet
                                   /\ Ledger!CashCost = g - n /\ g - n >= 0
    BY <1>1, LedgerCost, Zenon DEF CostFair
  <1>7. g - n = Ledger!CashCost /\ Ledger!CashCost >= 0
    BY <1>5
  <1>8. result' = <<[net |-> n, gross |-> g, cost |-> g - n, equity |-> InitialEquity + n,
                     drawdown |-> drawdown]>>
    <2>1. result' = <<[net |-> SideNet, gross |-> MidNet, cost |-> MidNet - SideNet,
                       equity |-> InitialEquity + SideNet, drawdown |-> drawdown]>>
      BY DEF Ledger!Finish, MidNet, SideNet
    <2> QED
      BY <1>5, <2>1, Zenon
  <1>9. InitialEquity + n = e
    <2>1. InitialEquity + realized + u = e
      BY <1>2, <1>3, <1>4, Zenon DEF MarkedEquity
    <2>2. PICK i \in Int, r \in Int : i = InitialEquity /\ r = realized
      BY LedgerAssumption, Zenon DEF HoldingInv, HoldingTypes
    <2>3. n = r + u /\ i + r + u = e
      BY <1>4, <1>5, <2>1, <2>2, Zenon DEF SideNet
    <2>4. i + n = e
      BY <2>3
    <2> QED
      BY <2>2, <2>4
  <1>10. /\ result' # <<>> /\ result'[1].equity = e /\ result'[1].cost = Ledger!CashCost
         /\ result'[1].drawdown = drawdown
    <2>1. PICK cost : cost = Ledger!CashCost
      OBVIOUS
    <2>2. result' = <<[net |-> n, gross |-> g, cost |-> cost, equity |-> e,
                       drawdown |-> drawdown]>>
      BY <1>7, <1>8, <1>9, <2>1, Zenon
    <2> QED
      BY <2>1, <2>2
  <1>11. Ledger!CashCost' = Ledger!CashCost
    BY <1>1 DEF Ledger!CashCost, Ledger!Units, Ledger!Bought
  <1>12. CashAt(fills', ticks', Len(fills'), Len(ticks')) = e
    BY <1>1, <1>3
  <1>13. PICK closing : closing = [at |-> instant, equity |-> e]
    OBVIOUS
  <1>14. closing \in [at: Int, equity: Int]
    BY <1>3, <1>13 DEF TicksInv
  <1>15. curve' = IF curve = <<>> THEN curve
                  ELSE IF Ledger!Last(curve).at = instant
                       THEN Append(Ledger!Front(curve), closing) ELSE Append(curve, closing)
    BY <1>2, <1>3, <1>13, Zenon DEF Ledger!Finish
  <1>16. ASSUME curve = <<>> PROVE curve' \in Seq([at: Int, equity: Int])
    BY <1>15, <1>16
  <1>17. ASSUME curve # <<>>
         PROVE  curve' \in Seq([at: Int, equity: Int]) /\ curve'[Len(curve')] = closing
    <2>1. curve \in Seq([at: Int, equity: Int]) /\ Len(curve) \in Nat \ {0}
      BY <1>17 DEF ResultInv
    <2>2. Ledger!Front(curve) \in Seq([at: Int, equity: Int])
      <3>1. \A i \in 1 .. Len(curve) - 1 : curve[i] \in [at: Int, equity: Int]
        <4>1. \A i \in 1 .. Len(curve) - 1 : i \in 1 .. Len(curve)
          BY <2>1
        <4>2. \A i \in 1 .. Len(curve) : curve[i] \in [at: Int, equity: Int]
          <5> DEFINE CurveRecord == [at: Int, equity: Int]
          <5>1. curve \in Seq(CurveRecord)
            BY <2>1
          <5> HIDE DEF CurveRecord
          <5>2. \A i \in 1 .. Len(curve) : curve[i] \in CurveRecord
            BY <5>1
          <5> QED
            BY <5>2 DEF CurveRecord
        <4> QED
          BY <4>1, <4>2
      <3>2. SubSeq(curve, 1, Len(curve) - 1) \in Seq([at: Int, equity: Int])
        <4>1. PICK k \in Int : k = Len(curve) - 1
          BY <2>1
        <4>2. SubSeq(curve, 1, k) \in Seq([at: Int, equity: Int])
          BY <3>1, <4>1, SubSeqProperties
        <4> QED
          BY <4>1, <4>2
      <3> QED
        BY <3>2 DEF Ledger!Front
    <2>3. CASE curve' = Append(Ledger!Front(curve), closing)
      BY <1>14, <2>2, <2>3
    <2>4. CASE curve' = Append(curve, closing)
      BY <1>14, <2>1, <2>4
    <2> QED
      BY <1>15, <1>17, <2>3, <2>4
  <1>18. curve' \in Seq([at: Int, equity: Int])
    BY <1>16, <1>17, Zenon
  <1>19. curve' # <<>> => curve'[Len(curve')] = [at |-> instant', equity |-> result'[1].equity]
    BY <1>1, <1>10, <1>13, <1>15, <1>17
  <1> QED
    BY <1>1, <1>7, <1>10, <1>11, <1>12, <1>18, <1>19 DEF ResultInv

-----------------------------------------------------------------------------
(* The steps.                                                              *)

LEMMA HoldingStays ==
  ASSUME HoldingInv, UNCHANGED <<positions, owners, fills, realized, grossMid>>
  PROVE  HoldingInv'
  BY DEF HoldingInv, HoldingTypes, Owned, Adverse, CashHolds, MidsHold, OpenHolds,
         Ledger!NextTicket

LEMMA TradesStay ==
  ASSUME TradesInv, UNCHANGED <<fills, trades, byDate, realized>>
  PROVE  TradesInv' /\ TradesContinue
  BY DEF TradesInv, TradesContinue

LEMMA OutcomeStays ==
  ASSUME ResultInv, UNCHANGED result, phase # "idle" \/ result = <<>>,
         curve' \in Seq([at: Int, equity: Int])
  PROVE  ResultInv'
  BY DEF ResultInv

\* A snapshot is taken or it is not.
LEMMA SnapshotStep ==
  ASSUME LedgerInv, HoldingInv', TradesInv', TicksInv', ticks' # <<>>,
         Continues(fills, fills', ticks, ticks'), TradesContinue,
         snapshots' = snapshots \/ snapshots' = Append(snapshots, Ledger!Snapshot)
  PROVE  SnapshotInv'
  <1>1. peak \in Int
    BY DEF LedgerInv, DrawdownInv
  <1>2. CASE snapshots' = snapshots
    BY <1>2, SnapshotStays DEF LedgerInv
  <1>3. CASE snapshots' = Append(snapshots, Ledger!Snapshot)
    BY <1>1, <1>3, SnapshotTaken DEF LedgerInv
  <1> QED
    BY <1>2, <1>3

LEMMA ArriveLedger ==
  ASSUME LedgerInv, NEW offer \in [mid: Int, skew: Int, later: Nat], Ledger!Arrive(offer)
  PROVE  LedgerInv'
  <1>1. /\ UNCHANGED <<positions, owners, fills, realized, grossMid, trades, byDate, peak,
                       drawdown, curve, result>>
        /\ result = <<>>
    BY DEF Ledger!Arrive, Ledger!account, Ledger!series
  <1>2. snapshots' = snapshots \/ snapshots' = Append(snapshots, Ledger!Snapshot)
    BY DEF Ledger!Arrive
  <1>3. HoldingInv'
    BY <1>1, HoldingStays DEF LedgerInv
  <1>4. TradesInv' /\ TradesContinue
    BY <1>1, TradesStay DEF LedgerInv
  <1>5. fills \in Seq(FillRecord)
    BY DEF LedgerInv, TradesInv
  <1>6. /\ TicksInv' /\ ticks' # <<>> /\ Len(ticks') = Len(ticks) + 1
        /\ Continues(fills, fills', ticks, ticks')
        /\ \A i \in 1 .. Len(ticks) : ticks'[i] = ticks[i]
        /\ phase = "idle" /\ phase' = "fills"
    BY <1>5, ArriveTicks DEF LedgerInv
  <1>7. DrawdownInv'
    <2>1. Len(ticks) \in Nat
      BY DEF LedgerInv, TicksInv
    <2>2. Handled' = Handled /\ Handled = Len(ticks)
      BY <1>6, <2>1 DEF Handled
    <2> QED
      BY <1>1, <1>6, <2>2, DrawdownStays DEF LedgerInv
  <1>8. SnapshotInv'
    BY <1>2, <1>3, <1>4, <1>6, SnapshotStep
  <1>9. ResultInv'
    BY <1>1, OutcomeStays DEF LedgerInv, ResultInv
  <1> QED
    BY <1>3, <1>4, <1>6, <1>7, <1>8, <1>9 DEF LedgerInv

\* What a fill leaves as it was.
FillKeeps ==
  /\ phase # "idle" /\ phase' = phase
  /\ UNCHANGED <<ticks, mark, instant, peak, drawdown, curve, result>>
  /\ \E fill \in FillRecord : fills' = Append(fills, fill)
  /\ snapshots' = Append(snapshots, Ledger!Snapshot)

LEMMA FillLedger ==
  ASSUME LedgerInv, FillKeeps, HoldingInv', TradesInv', TradesContinue
  PROVE  LedgerInv'
  <1>1. PICK fill \in FillRecord : fills' = Append(fills, fill)
    BY DEF FillKeeps
  <1>2. fills \in Seq(FillRecord)
    BY DEF LedgerInv, TradesInv
  <1>3. /\ fills' \in Seq(FillRecord) /\ Len(fills) <= Len(fills')
        /\ \A i \in 1 .. Len(fills) : fills'[i] = fills[i]
    BY <1>1, <1>2
  <1>4. /\ phase # "idle" /\ phase' = phase
        /\ UNCHANGED <<ticks, mark, instant>> /\ UNCHANGED <<peak, drawdown>>
        /\ curve' = curve /\ result' = result
        /\ snapshots' = Append(snapshots, Ledger!Snapshot)
    BY DEF FillKeeps
  <1>5. TicksInv' /\ Continues(fills, fills', ticks, ticks')
    BY <1>2, <1>3, <1>4, SameTicksInv DEF LedgerInv
  <1>6. Handled' = Handled /\ ticks' = ticks
    BY <1>4 DEF Handled
  <1>7. DrawdownInv'
    BY <1>4, <1>5, <1>6, DrawdownStays DEF LedgerInv
  <1>8. ticks' # <<>>
    BY <1>4 DEF LedgerInv, TicksInv
  <1>9. SnapshotInv'
    BY <1>4, <1>5, <1>8, SnapshotStep
  <1>10. ResultInv'
    BY <1>4, OutcomeStays DEF LedgerInv, ResultInv
  <1> QED
    BY <1>5, <1>7, <1>9, <1>10 DEF LedgerInv

LEMMA EntryLedger ==
  ASSUME LedgerInv, NEW direction \in Sides, NEW slippage \in Nat, NEW quantity \in Nat \ {0},
         Ledger!FillEntry(direction, slippage, quantity)
  PROVE  LedgerInv'
  <1>1. phase # "idle" /\ phase' = phase
    BY DEF Ledger!FillEntry, Ledger!InFills
  <1>2. PICK fill : fill = Ledger!Fill(Ledger!NextTicket, direction,
                                       EntryPrice(direction, slippage), quantity, TRUE)
    OBVIOUS
  <1>3. fill \in FillRecord /\ fill.opens = TRUE
    BY <1>1, <1>2, EntryFacts, Zenon DEF EntryGood, LedgerInv
  <1>4. fills' = Append(fills, fill)
    BY <1>2 DEF Ledger!FillEntry, EntryPrice
  <1>5. /\ UNCHANGED <<ticks, mark, instant, peak, drawdown, curve, result>>
        /\ UNCHANGED <<trades, byDate, realized>>
        /\ snapshots' = Append(snapshots, Ledger!Snapshot)
    BY DEF Ledger!FillEntry, Ledger!series
  <1>6. FillKeeps
    BY <1>1, <1>3, <1>4, <1>5 DEF FillKeeps
  <1>7. HoldingInv'
    BY <1>1, EntryStep DEF LedgerInv
  <1>8. TradesInv'
    BY <1>3, <1>4, <1>5, EntryTrades DEF LedgerInv
  <1>9. TradesContinue
    BY <1>5 DEF TradesContinue, LedgerInv, TradesInv
  <1> QED
    BY <1>6, <1>7, <1>8, <1>9, FillLedger

LEMMA CloseLedger ==
  ASSUME LedgerInv, NEW t, NEW q, NEW price, Closable(t, q, price),
         Ledger!SettleClose(t, q, price), phase' = phase
  PROVE  LedgerInv'
  <1>1. phase # "idle"
    BY DEF Closable
  <1>2. PICK fill : fill = ClosingFill(t, q, price)
    OBVIOUS
  <1>3. fill \in FillRecord
    BY <1>2, ClosingFacts, Zenon DEF ClosingGood, LedgerInv
  <1>4. fills' = Append(fills, fill)
    BY <1>2 DEF Ledger!SettleClose, ClosingFill
  <1>5. /\ UNCHANGED <<ticks, mark, instant, peak, drawdown, curve, result>>
        /\ snapshots' = Append(snapshots, Ledger!Snapshot)
        /\ \E trade : trades' = Append(trades, trade)
    BY DEF Ledger!SettleClose, Ledger!series
  <1>6. FillKeeps
    BY <1>1, <1>3, <1>4, <1>5 DEF FillKeeps
  <1>7. HoldingInv'
    BY CloseHolding DEF LedgerInv
  <1>8. TradesInv'
    BY CloseTrades DEF LedgerInv
  <1>9. TradesContinue
    <2>1. trades \in Seq(TradeRecord) /\ trades' \in Seq(TradeRecord)
      BY <1>8 DEF LedgerInv, TradesInv
    <2>2. PICK trade : trades' = Append(trades, trade)
      BY <1>5
    <2> QED
      BY <2>1, <2>2 DEF TradesContinue
  <1> QED
    BY <1>6, <1>7, <1>8, <1>9, FillLedger

\* A phase of the handling ends, and nothing else does.
LEMMA PhaseLedger ==
  ASSUME LedgerInv, phase # "idle", phase' # "idle",
         UNCHANGED <<instant, ticks, positions, owners, mark, realized, byDate, grossMid, fills,
                     trades, snapshots, curve, peak, drawdown, result>>
  PROVE  LedgerInv'
  <1>1. fills \in Seq(FillRecord) /\ fills' = fills
    BY DEF LedgerInv, TradesInv
  <1>2. /\ fills' \in Seq(FillRecord) /\ Len(fills) <= Len(fills')
        /\ \A i \in 1 .. Len(fills) : fills'[i] = fills[i]
    BY <1>1
  <1>3. TicksInv' /\ Continues(fills, fills', ticks, ticks')
    BY <1>1, <1>2, SameTicksInv DEF LedgerInv
  <1>4. HoldingInv'
    BY HoldingStays DEF LedgerInv
  <1>5. TradesInv' /\ TradesContinue
    BY TradesStay DEF LedgerInv
  <1>6. DrawdownInv'
    <2>1. Handled' = Handled
      BY DEF Handled
    <2> QED
      BY <1>3, <2>1, DrawdownStays DEF LedgerInv
  <1>7. SnapshotInv'
    BY <1>3, <1>5, SnapshotStays DEF LedgerInv
  <1>8. ResultInv'
    BY OutcomeStays DEF LedgerInv, ResultInv
  <1> QED
    BY <1>3, <1>4, <1>5, <1>6, <1>7, <1>8 DEF LedgerInv

LEMMA EndLedger ==
  ASSUME LedgerInv, Ledger!EndTick
  PROVE  LedgerInv'
  <1>1. /\ phase # "idle" /\ phase' = "idle"
        /\ UNCHANGED <<instant, positions, owners, mark, realized, byDate, grossMid, fills, trades,
                       snapshots, result>>
        /\ ticks' = [ticks EXCEPT ![Len(ticks)].fills = Len(fills)]
    BY DEF Ledger!EndTick, Ledger!account
  <1>2. fills \in Seq(FillRecord) /\ ticks # <<>>
    BY <1>1 DEF LedgerInv, TradesInv, TicksInv
  <1>3. /\ TicksInv' /\ Continues(fills, fills', ticks, ticks')
        /\ Len(ticks') = Len(ticks) /\ ticks'[Len(ticks)].fills = Len(fills)
        /\ ticks'[Len(ticks)].known = instant
        /\ \A i \in 1 .. Len(ticks) - 1 : ticks'[i] = ticks[i]
    BY <1>1, <1>2, EndTicks DEF LedgerInv
  <1>4. HoldingInv'
    BY <1>1, HoldingStays DEF LedgerInv
  <1>5. TradesInv' /\ TradesContinue
    BY <1>1, TradesStay DEF LedgerInv
  <1>6. IF Ledger!Evaluating(instant)
        THEN /\ peak' = Ledger!Greater(peak, Ledger!Equity)
             /\ drawdown' = Ledger!Greater(drawdown, peak' - Ledger!Equity)
        ELSE UNCHANGED <<peak, drawdown>>
    BY DEF Ledger!EndTick, Ledger!series
  <1>7. DrawdownInv'
    BY <1>1, <1>3, <1>6, EndDrawdown DEF LedgerInv
  <1>8. SnapshotInv'
    BY <1>1, <1>3, <1>5, SnapshotStays DEF LedgerInv
  <1>9. PICK e \in Int : e = Ledger!Equity
    BY <1>2, LedgerMarked DEF LedgerInv
  <1>10. curve' = curve \/ curve' = Append(curve, [at |-> instant, equity |-> e])
    BY <1>9 DEF Ledger!EndTick, Ledger!series
  <1>11. curve \in Seq([at: Int, equity: Int]) /\ instant \in Int
    BY DEF LedgerInv, ResultInv, TicksInv
  <1>12. curve' \in Seq([at: Int, equity: Int])
    <2>1. PICK last \in [at: Int, equity: Int] : last = [at |-> instant, equity |-> e]
      BY <1>11
    <2>2. Append(curve, last) \in Seq([at: Int, equity: Int])
      BY <1>11, <2>1
    <2> QED
      BY <1>10, <1>11, <2>1, <2>2, Zenon
  <1>13. ResultInv'
    BY <1>1, <1>12, OutcomeStays DEF LedgerInv
  <1> QED
    BY <1>3, <1>4, <1>5, <1>7, <1>8, <1>13 DEF LedgerInv

LEMMA FinishLedger ==
  ASSUME LedgerInv, Ledger!Finish
  PROVE  LedgerInv'
  <1>1. /\ UNCHANGED <<phase, instant, positions, owners, mark, realized, byDate, grossMid, fills,
                       trades, snapshots, ticks, peak, drawdown>>
        /\ phase = "idle"
    BY DEF Ledger!Finish, Ledger!account
  <1>2. ResultInv'
    BY FinishResult DEF LedgerInv
  <1>3. HoldingInv'
    BY <1>1, HoldingStays DEF LedgerInv
  <1>4. TradesInv' /\ TradesContinue
    BY <1>1, TradesStay DEF LedgerInv
  <1>5. TicksInv' /\ Continues(fills, fills', ticks, ticks')
    <2>1. /\ fills' \in Seq(FillRecord) /\ fills \in Seq(FillRecord) /\ Len(fills) <= Len(fills')
          /\ \A i \in 1 .. Len(fills) : fills'[i] = fills[i]
      BY <1>1 DEF LedgerInv, TradesInv
    <2> QED
      BY <1>1, <2>1, SameTicksInv DEF LedgerInv
  <1>6. DrawdownInv'
    <2>1. Handled' = Handled
      BY <1>1 DEF Handled
    <2> QED
      BY <1>1, <1>5, <2>1, DrawdownStays DEF LedgerInv
  <1>7. SnapshotInv'
    BY <1>1, <1>4, <1>5, SnapshotStays DEF LedgerInv
  <1> QED
    BY <1>2, <1>3, <1>4, <1>5, <1>6, <1>7 DEF LedgerInv

\* The price of a close, however far it slips.
SlippedClose(direction, slip) ==
  \E a \in Nat : Ledger!ClosePrice(direction, Ledger!Current) - Ledger!Sign(direction) * slip
                   = Ledger!Current.mid + IF direction = "LONG" THEN -a ELSE a

LEMMA CloseSlips ==
  ASSUME Ledger!Current.mid \in Int, NEW direction \in Sides, NEW slip \in Nat
  PROVE  SlippedClose(direction, slip)
  <1>1. PICK m \in Int : m = Ledger!Current.mid
    OBVIOUS
  <1>2. PICK h \in Nat : h = SpreadOf
    BY SpreadFacts
  <1>3. PICK a \in Nat : a = h + slip
    OBVIOUS
  <1>4. CASE direction = "LONG"
    <2>1. Ledger!ClosePrice(direction, Ledger!Current) = m - 1 * h
      BY <1>1, <1>2, <1>4, SpreadFacts, Zenon
    <2>2. Ledger!Sign(direction) = 1
      BY <1>4 DEF Ledger!Sign
    <2>3. PICK x : x = m - 1 * h - 1 * slip
      OBVIOUS
    <2>4. x = m + (-a)
      BY <1>3, <2>3
    <2>5. Ledger!ClosePrice(direction, Ledger!Current) - Ledger!Sign(direction) * slip = x
      BY <2>1, <2>2, <2>3, Zenon
    <2>6. (IF direction = "LONG" THEN -a ELSE a) = -a
      BY <1>4
    <2> QED
      BY <1>1, <2>4, <2>5, <2>6, Zenon DEF SlippedClose
  <1>5. CASE direction = "SHORT"
    <2>1. Ledger!ClosePrice(direction, Ledger!Current) = m - (-1) * h
      BY <1>1, <1>2, <1>5, SpreadFacts, Zenon
    <2>2. Ledger!Sign(direction) = -1
      BY <1>5 DEF Ledger!Sign
    <2>3. PICK x : x = m - (-1) * h - (-1) * slip
      OBVIOUS
    <2>4. x = m + a
      BY <1>3, <2>3
    <2>5. Ledger!ClosePrice(direction, Ledger!Current) - Ledger!Sign(direction) * slip = x
      BY <2>1, <2>2, <2>3, Zenon
    <2>6. (IF direction = "LONG" THEN -a ELSE a) = a
      BY <1>5
    <2> QED
      BY <1>1, <2>4, <2>5, <2>6, Zenon DEF SlippedClose
  <1> QED
    BY <1>4, <1>5 DEF Sides

LEMMA PartsOf ==
  ASSUME NEW n \in Nat \ {0}, NEW q \in Ledger!Parts(n)
  PROVE  q \in Nat \ {0} /\ q <= n
  BY DEF Ledger!Parts

\* What is held, in terms of its types.
LEMMA HeldTicket ==
  ASSUME HoldingInv, NEW t \in DOMAIN positions
  PROVE  positions[t].direction \in Sides /\ positions[t].quantity \in Nat \ {0}
  <1>1. positions[t] \in HeldRecord
    BY DEF HoldingInv, HoldingTypes
  <1> QED
    BY <1>1 DEF HeldRecord

LEMMA ExitLedger ==
  ASSUME LedgerInv, NEW t \in DOMAIN positions, NEW slip \in Nat, Ledger!FillExit(t, slip)
  PROVE  LedgerInv'
  <1>1. phase # "idle" /\ phase' = phase
    BY DEF Ledger!FillExit, Ledger!InFills
  <1>2. positions[t].direction \in Sides /\ positions[t].quantity \in Nat \ {0}
    BY HeldTicket DEF LedgerInv
  <1>3. PICK price : price = Ledger!ClosePrice(positions[t].direction, Ledger!Current)
                               - Ledger!Sign(positions[t].direction) * slip
    OBVIOUS
  <1>4. PICK q \in Ledger!Parts(positions[t].quantity) : Ledger!SettleClose(t, q, price)
    BY <1>3, Zenon DEF Ledger!FillExit
  <1>5. q \in Nat \ {0} /\ q <= positions[t].quantity
    BY <1>2, PartsOf
  <1>6. Ledger!Current.mid \in Int
    BY <1>1, TickFacts DEF LedgerInv
  <1>7. SlippedClose(positions[t].direction, slip)
    BY <1>2, <1>6, CloseSlips
  <1>8. Closable(t, q, price)
    BY <1>1, <1>3, <1>5, <1>7 DEF Closable, SlippedClose
  <1> QED
    BY <1>1, <1>4, <1>8, CloseLedger

LEMMA ProtectLedger ==
  ASSUME LedgerInv, NEW t \in DOMAIN positions, Ledger!Protect(t)
  PROVE  LedgerInv'
  <1>1. phase # "idle" /\ phase' = phase
    BY DEF Ledger!Protect, Ledger!InProtection
  <1>2. positions[t].direction \in Sides /\ positions[t].quantity \in Nat \ {0}
    BY HeldTicket DEF LedgerInv
  <1>3. PICK q : q = positions[t].quantity
    OBVIOUS
  <1>4. PICK d \in Sides : d = positions[t].direction
    BY <1>2
  <1>5. Ledger!Current.mid \in Int
    BY <1>1, TickFacts DEF LedgerInv
  <1>6. PICK price : price = Ledger!ClosePrice(d, Ledger!Current)
          - (IF Ledger!Stopped(positions[t]) THEN Ledger!Sign(d) * Through ELSE 0)
    OBVIOUS
  <1>7. Ledger!SettleClose(t, q, price)
    BY <1>3, <1>4, <1>6, Zenon DEF Ledger!Protect
  <1>8. \E slip \in Nat : price = Ledger!ClosePrice(d, Ledger!Current) - Ledger!Sign(d) * slip
    <2>1. CASE Ledger!Stopped(positions[t])
      <3>1. Through \in Nat
        BY LedgerAssumption
      <3> QED
        BY <1>6, <2>1, <3>1
    <2>2. CASE ~Ledger!Stopped(positions[t])
      <3>1. Ledger!Sign(d) * 0 = 0
        BY DEF Ledger!Sign
      <3>2. price = Ledger!ClosePrice(d, Ledger!Current) - 0
        BY <1>6, <2>2, Zenon
      <3> QED
        BY <3>1, <3>2
    <2> QED
      BY <2>1, <2>2
  <1>9. PICK slip \in Nat : price = Ledger!ClosePrice(d, Ledger!Current) - Ledger!Sign(d) * slip
    BY <1>8
  <1>10. SlippedClose(d, slip)
    BY <1>5, CloseSlips
  <1>11. Closable(t, q, price)
    BY <1>1, <1>2, <1>3, <1>4, <1>9, <1>10 DEF Closable, SlippedClose
  <1> QED
    BY <1>1, <1>7, <1>11, CloseLedger

LEMMA LedgerStep ==
  ASSUME LedgerInv, Ledger!Next \/ UNCHANGED ledgerVars
  PROVE  LedgerInv'
  <1>1. /\ Offers \in Seq(SUBSET [mid: Int, skew: Int, later: Nat])
        /\ Slippages \subseteq Nat /\ Quantity \in Nat \ {0}
    BY LedgerAssumption
  <1>2. ASSUME Len(ticks) < Len(Offers), NEW offer \in Offers[Len(ticks) + 1],
               Ledger!Arrive(offer)
        PROVE  LedgerInv'
    <2>1. Len(ticks) \in Nat
      BY DEF LedgerInv, TicksInv
    <2>2. Len(ticks) + 1 \in 1 .. Len(Offers)
      BY <1>1, <1>2, <2>1
    <2>3. Offers[Len(ticks) + 1] \in SUBSET [mid: Int, skew: Int, later: Nat]
      BY <1>1, <2>2
    <2>4. offer \in [mid: Int, skew: Int, later: Nat]
      BY <1>2, <2>3
    <2> QED
      BY <1>2, <2>4, ArriveLedger
  <1>3. ASSUME NEW direction \in {"LONG", "SHORT"}, NEW slippage \in Slippages,
               NEW quantity \in Ledger!Parts(Quantity),
               Ledger!FillEntry(direction, slippage, quantity)
        PROVE  LedgerInv'
    <2>1. direction \in Sides /\ slippage \in Nat
      BY <1>1, <1>3 DEF Sides
    <2>2. quantity \in Nat \ {0}
      BY <1>1, <1>3, PartsOf
    <2> QED
      BY <1>3, <2>1, <2>2, EntryLedger
  <1>4. ASSUME NEW ticket \in DOMAIN positions, NEW slippage \in Slippages,
               Ledger!FillExit(ticket, slippage)
        PROVE  LedgerInv'
    BY <1>1, <1>4, ExitLedger
  <1>5. CASE Ledger!Filled
    BY <1>5, PhaseLedger DEF Ledger!Filled, Ledger!InFills, Ledger!account, Ledger!series
  <1>6. CASE Ledger!Protected
    BY <1>6, PhaseLedger DEF Ledger!Protected, Ledger!account, Ledger!series
  <1>7. CASE UNCHANGED ledgerVars
    <2>1. UNCHANGED <<instant, phase, ticks, positions, owners, mark, realized, byDate, grossMid,
                      fills, trades, snapshots, curve, peak, drawdown, result>>
      BY <1>7 DEF ledgerVars
    <2>2. HoldingInv' /\ TradesInv' /\ TradesContinue
      BY <2>1, HoldingStays, TradesStay DEF LedgerInv
    <2>3. TicksInv' /\ Continues(fills, fills', ticks, ticks')
      <3>1. /\ fills' \in Seq(FillRecord) /\ fills \in Seq(FillRecord)
            /\ Len(fills) <= Len(fills') /\ \A i \in 1 .. Len(fills) : fills'[i] = fills[i]
        BY <2>1 DEF LedgerInv, TradesInv
      <3> QED
        BY <2>1, <3>1, SameTicksInv DEF LedgerInv
    <2>4. DrawdownInv'
      <3>1. Handled' = Handled
        BY <2>1 DEF Handled
      <3> QED
        BY <2>1, <2>3, <3>1, DrawdownStays DEF LedgerInv
    <2>5. SnapshotInv'
      BY <2>1, <2>2, <2>3, SnapshotStays DEF LedgerInv
    <2>6. ResultInv'
      <3>1. Ledger!CashCost' = Ledger!CashCost
        BY <2>1 DEF Ledger!CashCost, Ledger!Units, Ledger!Bought
      <3> QED
        BY <2>1, <3>1 DEF LedgerInv, ResultInv
    <2> QED
      BY <2>2, <2>3, <2>4, <2>5, <2>6 DEF LedgerInv
  <1> QED
    BY <1>2, <1>3, <1>4, <1>5, <1>6, <1>7, ProtectLedger, EndLedger, FinishLedger DEF Ledger!Next

LEMMA LedgerStart == Ledger!Init => LedgerInv
  <1> SUFFICES ASSUME Ledger!Init PROVE LedgerInv
    OBVIOUS
  <1>1. /\ instant = 0 /\ phase = "idle" /\ ticks = <<>> /\ mark = 0 /\ fills = <<>>
        /\ trades = <<>> /\ realized = 0 /\ grossMid = 0 /\ curve = <<>>
        /\ peak = InitialEquity /\ drawdown = 0 /\ result = <<>>
        /\ DOMAIN positions = {} /\ DOMAIN owners = {} /\ DOMAIN byDate = {}
        /\ positions = [t \in {} |-> 0] /\ owners = [t \in {} |-> 0]
        /\ byDate = [t \in {} |-> 0]
    BY DEF Ledger!Init, Ledger!NoTickets
  <1>2. snapshots = <<[at |-> EvaluateFrom, balance |-> InitialEquity, equity |-> InitialEquity,
                       day |-> 0, drawdown |-> 0, fills |-> 0, ticks |-> 0]>>
    BY DEF Ledger!Init
  <1>3. InitialEquity \in Int /\ EvaluateFrom \in Int
    BY LedgerAssumption
  <1>4. IsFiniteSet({})
    BY FS_EmptySet
  <1>5. \A p, e, c, l, s : DOMAIN p = {} => Balances(0, p, e, <<>>, c, l, s)
    <2>1. ASSUME NEW p, NEW e, NEW c, NEW l, NEW s, DOMAIN p = {}
          PROVE  Balances(0, p, e, <<>>, c, l, s)
      <3>1. HeldValues(p, e, l, s) \in [{} -> Int]
        BY <2>1 DEF HeldValues
      <3>2. SetTotal(HeldValues(p, e, l, s)) = 0
        BY <3>1, TotalEmpty
      <3>3. Flows(<<>>, c, l, s) = <<>>
        BY DEF Flows
      <3> QED
        BY <3>2, <3>3, SumEmpty DEF Balances
    <2> QED
      BY <2>1
  <1>6. HoldingInv
    <2>1. HoldingTypes
      BY <1>1, <1>4 DEF HoldingTypes
    <2>2. Owned /\ Adverse
      BY <1>1 DEF Owned, Adverse
    <2>3. \A l, s \in Int : CashHolds(l, s) /\ MidsHold(l) /\ OpenHolds(l, s)
      BY <1>1, <1>5, Zenon DEF CashHolds, MidsHold, OpenHolds
    <2> QED
      BY <2>1, <2>2, <2>3 DEF HoldingInv
  <1>7. TradesInv
    <2>1. DatesType(byDate)
      BY <1>1, <1>4 DEF DatesType
    <2>2. ASSUME NEW lo \in Int, NEW hi \in Int PROVE DaysAgree(byDate, trades, lo, hi)
      <3>1. DayTotals(byDate, lo, hi) \in [{} -> Int]
        BY <1>1 DEF DayTotals, Window
      <3>2. SetTotal(DayTotals(byDate, lo, hi)) = 0
        BY <3>1, TotalEmpty
      <3>3. DayNets(trades, Len(trades), lo, hi) = <<>>
        BY <1>1 DEF DayNets
      <3> QED
        BY <3>2, <3>3, SumEmpty DEF DaysAgree
    <2>3. [i \in DOMAIN trades |-> trades[i].net] = <<>>
      BY <1>1
    <2>4. ClosingsIn(fills) = 0
      <3>1. \A b : OpenOrClose(<<>>, b) = {}
        BY DEF OpenOrClose
      <3>2. \A b : CountOf(<<>>, b) = 0
        BY <3>1, FS_EmptySet DEF CountOf
      <3> QED
        BY <1>1, <3>2, Zenon DEF ClosingsIn
    <2> QED
      BY <1>1, <2>1, <2>2, <2>3, <2>4, SumEmpty DEF TradesInv
  <1>8. TicksInv
    BY <1>1 DEF TicksInv, HasLatest
  <1>9. DrawdownInv
    <2>1. Points = {0}
      <3>1. Handled = 0
        BY <1>1 DEF Handled
      <3> QED
        BY <3>1 DEF Points
    <2>2. Equities[0] = InitialEquity
      BY <2>1 DEF Equities
    <2> QED
      BY <1>1, <1>3, <2>1, <2>2 DEF DrawdownInv, CurveOf
  <1>10. SnapshotInv
    <2>1. PICK s \in SnapshotRecord : snapshots = <<s>>
      BY <1>2, <1>3 DEF SnapshotRecord
    <2> QED
      BY <2>1 DEF SnapshotInv
  <1>11. ResultInv
    BY <1>1 DEF ResultInv
  <1> QED
    BY <1>6, <1>7, <1>8, <1>9, <1>10, <1>11 DEF LedgerInv

LEMMA LedgerImplies == LedgerInv => LedgerExact
  <1> SUFFICES ASSUME LedgerInv PROVE Ledger!LedgerExact
    BY DEF LedgerExact
  <1>1. realized = Ledger!Summed([i \in DOMAIN trades |-> trades[i].net])
    BY LedgerSums, Zenon DEF LedgerInv, TradesInv
  <1>2. DOMAIN owners = DOMAIN positions
    BY DEF LedgerInv, HoldingInv, HoldingTypes
  <1>3. ASSUME Len(snapshots) > 1
        PROVE  LET s == Ledger!Last(snapshots)
               IN /\ s.equity = Ledger!CashEquity(s.fills, s.ticks)
                  /\ s.day = Ledger!DayResult(s.fills, s.at)
    <2>1. PICK s : s = snapshots[Len(snapshots)]
      OBVIOUS
    <2>2. /\ s.equity = CashAt(fills, ticks, s.fills, s.ticks)
          /\ s.day = Summed(NetsOf(trades, ClosingsOf(fills, s.fills), s.at))
      BY <1>3, <2>1 DEF LedgerInv, SnapshotInv
    <2>3. \A n : Ledger!Closings(n) = ClosingsOf(fills, n)
      BY LedgerSums, Zenon DEF Ledger!Closings, ClosingsOf
    <2>4. \A n, t : Ledger!DayResult(n, t) = Summed(NetsOf(trades, ClosingsOf(fills, n), t))
      BY <2>3, LedgerSums, Zenon DEF Ledger!DayResult, NetsOf, DayNets
    <2>5. Ledger!Last(snapshots) = s
      BY <2>1 DEF Ledger!Last
    <2> QED
      BY <2>2, <2>4, <2>5, LedgerCash, Zenon
  <1>4. ASSUME result # <<>>
        PROVE  LET r == result[1]
                   ends == {i \in DOMAIN ticks : Ledger!Evaluating(ticks[i].known)}
                   at(i) == IF i = 0 THEN InitialEquity ELSE Ledger!CashEquity(ticks[i].fills, i)
               IN /\ r.equity = Ledger!CashEquity(Len(fills), Len(ticks))
                  /\ r.cost = Ledger!CashCost /\ r.cost >= 0
                  /\ \A i \in ends \cup {0}, j \in ends : i <= j => at(i) - at(j) <= r.drawdown
                  /\ r.drawdown # 0 => \E i \in ends \cup {0}, j \in ends :
                                          i <= j /\ at(i) - at(j) = r.drawdown
                  /\ curve # <<>> => Ledger!Last(curve) = [at |-> instant, equity |-> r.equity]
    <2> DEFINE r == result[1]
               ends == {i \in DOMAIN ticks : Ledger!Evaluating(ticks[i].known)}
               at(i) == IF i = 0 THEN InitialEquity ELSE Ledger!CashEquity(ticks[i].fills, i)
    <2>1. /\ phase = "idle"
          /\ r.equity = CashAt(fills, ticks, Len(fills), Len(ticks))
          /\ r.cost = Ledger!CashCost /\ r.cost >= 0 /\ r.drawdown = drawdown
          /\ curve # <<>> => curve[Len(curve)] = [at |-> instant, equity |-> r.equity]
      BY <1>4 DEF LedgerInv, ResultInv
    <2>2. Points = ends \cup {0} /\ 0 \notin ends
      <3>1. ticks \in Seq(TickRecord)
        BY DEF LedgerInv, TicksInv
      <3> QED
        BY <2>1, <3>1 DEF Points, Handled, Ledger!Evaluating
    <2>3. \A i \in Points : Equities[i] = at(i)
      BY LedgerCash, Zenon DEF Equities
    <2>4. CurveOf(Points, Equities, peak, drawdown)
      BY DEF LedgerInv, DrawdownInv
    <2> HIDE DEF ends, at, r
    <2>5. \A i \in ends \cup {0}, j \in ends : i <= j => at(i) - at(j) <= r.drawdown
      BY <2>1, <2>2, <2>3, <2>4, Zenon DEF CurveOf
    <2>6. r.drawdown # 0 =>
            \E i \in ends \cup {0}, j \in ends : i <= j /\ at(i) - at(j) = r.drawdown
      <3> SUFFICES ASSUME r.drawdown # 0
                   PROVE  \E i \in ends \cup {0}, j \in ends : i <= j /\ at(i) - at(j) = r.drawdown
        OBVIOUS
      <3>1. PICK i \in Points, j \in Points : i <= j /\ Equities[i] - Equities[j] = drawdown
        BY <2>1, <2>4, Zenon DEF CurveOf
      <3>2. Points \in SUBSET Nat /\ Equities \in [Points -> Int]
        BY EquitiesType DEF LedgerInv, TradesInv
      <3>3. j # 0
        <4> SUFFICES ASSUME j = 0 PROVE FALSE
          OBVIOUS
        <4>1. i = 0
          BY <3>1, <3>2
        <4>2. PICK e \in Int : e = Equities[0]
          BY <3>1, <3>2
        <4> QED
          BY <2>1, <3>1, <4>1, <4>2
      <3> QED
        BY <2>1, <2>2, <2>3, <3>1, <3>3, Zenon
    <2>7. r.equity = Ledger!CashEquity(Len(fills), Len(ticks))
      BY <2>1, LedgerCash, Zenon
    <2>8. curve # <<>> => Ledger!Last(curve) = [at |-> instant, equity |-> r.equity]
      BY <2>1, Zenon DEF Ledger!Last
    <2>9. r.cost = Ledger!CashCost /\ r.cost >= 0
      BY <2>1, Zenon
    <2> QED
      BY <2>5, <2>6, <2>7, <2>8, <2>9, Zenon DEF ends, at, r
  <1> QED
    BY <1>1, <1>2, <1>3, <1>4, Zenon DEF Ledger!LedgerExact

LEMMA LedgerPart ==
  /\ PartsInit => Ledger!Init
  /\ [PartsNext]_<<vars, part, ledgerVars>> => Ledger!Next \/ UNCHANGED ledgerVars
  BY DEF PartsInit, PartsNext, vars, tableVars, readerVars

\* Whatever the prices, the order the broker's ticks come in, the slippage and the parts
\* that are closed: the accounts of a backtest are those of its fills.  Every snapshot's
\* equity is the cash of the fills and what they left open at the latest price of the
\* broker, the result of the day is that of the day's trades, the drawdown is the deepest
\* fall between two ticks, and costs are what the fills gave away (_snapshot,
\* _realized_pnl_day, _result).
THEOREM AccountsAreExact == PartsSpec => []LedgerExact
  <1>1. PartsInit => LedgerInv
    BY LedgerPart, LedgerStart
  <1>2. ASSUME LedgerInv, [PartsNext]_<<vars, part, ledgerVars>> PROVE LedgerInv'
    BY <1>2, LedgerPart, LedgerStep
  <1> QED
    BY <1>1, <1>2, LedgerImplies, PTL DEF PartsSpec
=============================================================================
