---------------------------- MODULE RecordsProofs ----------------------------
(***************************************************************************)
(* Proofs about what is kept in the databases.  About synchronize, for     *)
(* every set of writers, list of symbols, width of a range and row limit:  *)
(* types, and the fact the resume position rests on, NoGaps; a run without *)
(* a limit is complete up to its ceiling.  About a command's row and its   *)
(* history, for every set of stale clients and every revision they reach:  *)
(* HistoryFaithful.  About a research backtest, for any stored ticks,      *)
(* periods, calendar and tolerance: RunHonest.  About the account's rows,  *)
(* for any equities, deals and outages: LossesHonest.  About the trials of *)
(* a repeated backtest, for any number of them: EnsembleHonest.            *)
(***************************************************************************)
EXTENDS MCResearchMirror, FoldTheorems

\* The tables are finite at any time, so that rows can be counted.
TablesFinite == /\ IsFiniteSet(rows)
                /\ \A w \in Writer : IsFiniteSet(pending[w])

CeilingBelow == sync # "idle" => ceiling < nextId

\* The research database holds nothing the source does not.
TargetCopied == target \subseteq rows

\* Unless the limit is used up, the current symbol is copied up to the position.
Copying == sync = "copying" /\ current \in DOMAIN Symbols /\ position # NoPosition
PositionExact ==
  Copying /\ left # 0 =>
    /\ Settled(Symbols[current], position)
    /\ Of(Symbols[current], target) = UpTo(Symbols[current], position)

PositionUnset == sync = "pinning" => position = NoPosition

\* Symbols behind the current one are complete in a run without a limit.
EarlierComplete ==
  sync = "copying" /\ left = NoLimit =>
    \A i \in DOMAIN Symbols : i < current => UpTo(Symbols[i], ceiling) \subseteq target

MirrorInv ==
  /\ TableInv /\ TablesFinite /\ TypeOK
  /\ CeilingBelow /\ TargetCopied
  /\ PinsHold /\ CopiesSettled
  /\ PositionExact /\ PositionUnset /\ EarlierComplete /\ NoGaps

-----------------------------------------------------------------------------
(* Facts about symbols, ids and writers *)

LEMMA SymbolFacts ==
  /\ \A i \in DOMAIN Symbols : Symbols[i] \in Mirrored
  /\ Mirrored \subseteq Symbol
  BY MirrorAssumption DEF Mirrored

LEMMA CopiedIdFacts ==
  ASSUME TypeOK, NEW s
  PROVE  CopiedIds(s) \subseteq Nat
  BY DEF TypeOK, CopiedIds, Row

\* A settled set is the same before and after a writer's step.
LEMMA UpToKept ==
  ASSUME TableInv, NEW w \in Writer, WriterStep(w),
         NEW s \in Symbol, NEW top \in Nat, Settled(s, top)
  PROVE  Settled(s, top)' /\ UpTo(s, top)' = UpTo(s, top)
  <1>1. /\ Settled(s, top)'
        /\ rows \subseteq rows'
        /\ \A r \in rows' \ rows : r.tick.symbol = s => r.id > top
    BY SettledKept
  <1>2. \A r \in rows' : r.id \in Nat
    BY WriterInv DEF TableInv, TableTypeOK, Row
  <1>3. QED
    BY <1>1, <1>2 DEF UpTo

\* A writer's transaction adds a row at a time to a finite set.
LEMMA WriterFinite ==
  ASSUME TableInv, TablesFinite, NEW w \in Writer, WriterStep(w)
  PROVE  TablesFinite'
  <1>1. CASE (\E quotes \in SUBSET Tick : Begin(w, quotes)) \/ LockNext(w) \/ AllLocked(w)
    BY <1>1 DEF Begin, LockNext, AllLocked, TablesFinite
  <1>2. CASE Insert(w)
    <2>1. PICK t \in batch[w] : InsertRow(w, t)
      BY <1>2 DEF Insert
    <2>2. rows' = rows
      BY <2>1 DEF InsertRow
    <2>3. pending'[w] = pending[w] \/ pending'[w] = pending[w] \cup {NewRow(t)}
      BY <2>1 DEF InsertRow, TableInv, TableTypeOK
    <2>4. IsFiniteSet(pending'[w])
      BY <2>3, FS_AddElement DEF TablesFinite
    <2>5. \A v \in Writer \ {w} : pending'[v] = pending[v]
      BY <2>1, InsertedRow
    <2>6. QED
      BY <2>2, <2>4, <2>5 DEF TablesFinite
  <1>3. CASE Commit(w) \/ Rollback(w)
    <2>1. End(w) /\ (rows' = rows \/ rows' = rows \cup pending[w])
      BY <1>3 DEF Commit, Rollback
    <2>2. IsFiniteSet(rows')
      BY <2>1, FS_Union DEF TablesFinite
    <2>3. pending'[w] = {} /\ \A v \in Writer \ {w} : pending'[v] = pending[v]
      BY <2>1, EndFacts
    <2>4. IsFiniteSet(pending'[w])
      BY <2>3, FS_EmptySet
    <2>5. QED
      BY <2>2, <2>3, <2>4 DEF TablesFinite
  <1>4. QED
    BY <1>1, <1>2, <1>3 DEF WriterStep

-----------------------------------------------------------------------------
(* The invariant *)

LEMMA InitMirrorInv == Init => MirrorInv
  <1> SUFFICES ASSUME Init PROVE MirrorInv
    OBVIOUS
  <1>1. TableInv /\ rows = {} /\ target = {} /\ sync = "idle"
    BY TableInitInv DEF Init, TableInit
  <1>2. TablesFinite
    BY FS_EmptySet DEF Init, TableInit, TablesFinite
  <1>3. TypeOK
    BY <1>1 DEF Init, TypeOK, TableInv, NoPosition
  <1>4. \A s : CopiedIds(s) = {0} /\ Of(s, target) = {} /\ \A top : UpTo(s, top) = {}
    BY <1>1 DEF CopiedIds, Of, UpTo
  <1>5. NoGaps
    BY <1>4 DEF NoGaps
  <1>6. CopiesSettled
    <2>1. nextId = 1 /\ \A w \in Writer : pending[w] = {}
      BY DEF Init, TableInit
    <2>2. QED
      BY <1>4, <2>1 DEF CopiesSettled, Settled
  <1>7. CeilingBelow /\ TargetCopied /\ PinsHold /\ PositionExact /\ PositionUnset /\ EarlierComplete
    BY <1>1 DEF CeilingBelow, TargetCopied, PinsHold, PinnedSymbols, PositionExact,
                PositionUnset, Copying, EarlierComplete
  <1>8. QED
    BY <1>1, <1>2, <1>3, <1>5, <1>6, <1>7 DEF MirrorInv

LEMMA WriterMirrorInv ==
  ASSUME MirrorInv, NEW w \in Writer, WriterStep(w), UNCHANGED mirrorVars
  PROVE  MirrorInv'
  <1> USE DEF MirrorInv
  <1>1. /\ target' = target /\ sync' = sync /\ ceiling' = ceiling /\ left' = left
        /\ current' = current /\ position' = position /\ runs' = runs
    BY DEF mirrorVars
  <1>2. TableInv' /\ TablesFinite'
    BY WriterInv, WriterFinite
  <1>3. TypeOK'
    BY <1>1, <1>2 DEF TypeOK, TableInv
  <1>4. CeilingBelow'
    <2>1. nextId \in Nat /\ nextId' \in Nat /\ nextId <= nextId' /\ ceiling \in Nat
      BY SequenceAdvances DEF TableInv, TableTypeOK, TypeOK
    <2>2. QED
      BY <1>1, <2>1 DEF CeilingBelow
  <1>5. TargetCopied'
    <2>1. rows \subseteq rows'
      BY DEF WriterStep, Begin, LockNext, AllLocked, Insert, InsertRow, Commit, Rollback
    <2>2. QED
      BY <1>1, <2>1 DEF TargetCopied
  <1>6. PinsHold'
    <2>1. PinnedSymbols \subseteq Symbol /\ PinnedSymbols' = PinnedSymbols /\ ceiling \in Nat
      BY <1>1, SymbolFacts DEF PinnedSymbols, TypeOK
    <2>2. \A s \in PinnedSymbols : Settled(s, ceiling)'
      BY <2>1, UpToKept, <1>1 DEF PinsHold, Settled
    <2>3. QED
      BY <2>1, <2>2 DEF PinsHold
  <1>7. \A s : CopiedIds(s)' = CopiedIds(s)
    BY <1>1 DEF CopiedIds
  <1>8. ASSUME NEW s \in Mirrored, NEW id \in CopiedIds(s)
        PROVE  Settled(s, id)' /\ UpTo(s, id)' = UpTo(s, id)
    BY UpToKept, CopiedIdFacts, SymbolFacts DEF CopiesSettled
  <1>9. CopiesSettled'
    BY <1>7, <1>8 DEF CopiesSettled
  <1>10. NoGaps'
    BY <1>1, <1>7, <1>8 DEF NoGaps, LastCopied, Of
  <1>11. PositionExact'
    <2>1. SUFFICES ASSUME Copying, left # 0
                   PROVE  /\ Settled(Symbols[current], position)'
                          /\ Of(Symbols[current], target)' = UpTo(Symbols[current], position)'
      BY <1>1 DEF PositionExact, Copying
    <2>2. Symbols[current] \in Symbol /\ position \in Nat
      BY <2>1, SymbolFacts DEF Copying, TypeOK
    <2>3. Settled(Symbols[current], position)
      BY <2>1 DEF PositionExact
    <2>4. PICK s, top : s = Symbols[current] /\ top = position
      OBVIOUS
    <2>5. Settled(s, top)' /\ UpTo(s, top)' = UpTo(s, top)
      BY <2>2, <2>3, <2>4, UpToKept
    <2>6. Of(Symbols[current], target) = UpTo(Symbols[current], position)
      BY <2>1 DEF PositionExact
    <2>7. QED
      BY <1>1, <2>4, <2>5, <2>6 DEF Of, UpTo, Settled
  <1>12. EarlierComplete'
    <2>1. SUFFICES ASSUME sync = "copying", left = NoLimit,
                          NEW i \in DOMAIN Symbols, i < current
                   PROVE  UpTo(Symbols[i], ceiling)' \subseteq target
      BY <1>1 DEF EarlierComplete
    <2>2. Symbols[i] \in Symbol /\ ceiling \in Nat /\ Settled(Symbols[i], ceiling)
      BY <2>1, SymbolFacts DEF TypeOK, PinsHold, PinnedSymbols
    <2>3. PICK top : top = ceiling
      OBVIOUS
    <2>4. UpTo(Symbols[i], top)' = UpTo(Symbols[i], top)
      BY <2>2, <2>3, UpToKept
    <2>5. QED
      BY <1>1, <2>1, <2>3, <2>4 DEF EarlierComplete, UpTo
  <1>13. PositionUnset'
    BY <1>1 DEF PositionUnset
  <1>14. QED
    BY <1>13, <1>2, <1>3, <1>4, <1>5, <1>6, <1>9, <1>10, <1>11, <1>12

\* Steps of a run that touch neither table keep what is said of the tables.
LEMMA TablesUntouched ==
  ASSUME MirrorInv, UNCHANGED <<tableVars, target>>
  PROVE  /\ TableInv' /\ TablesFinite' /\ TargetCopied' /\ CopiesSettled' /\ NoGaps'
         /\ rows' = rows /\ nextId' = nextId
         /\ \A s, top : Settled(s, top)' = Settled(s, top)
         /\ \A s, top : UpTo(s, top)' = UpTo(s, top)
         /\ \A s : CopiedIds(s)' = CopiedIds(s)
  <1> USE DEF MirrorInv, tableVars
  <1>1. TableInv' /\ TablesFinite' /\ TargetCopied'
    BY DEF TableInv, TableTypeOK, IdsAllocated, KeysHeld, MissingKeys, TablesFinite, TargetCopied
  <1>2. \A s, top : Settled(s, top)' = Settled(s, top)
    BY DEF Settled
  <1>3. \A s, top : UpTo(s, top)' = UpTo(s, top)
    BY DEF UpTo
  <1>4. \A s : CopiedIds(s)' = CopiedIds(s)
    BY DEF CopiedIds
  <1>5. CopiesSettled'
    BY <1>2, <1>4 DEF CopiesSettled, Settled
  <1>6. NoGaps'
    BY <1>3, <1>4 DEF NoGaps, LastCopied, Of, UpTo
  <1>7. QED
    BY <1>1, <1>2, <1>3, <1>4, <1>5, <1>6

LEMMA StartMirrorInv ==
  ASSUME MirrorInv, NEW limit \in RowLimits, Start(limit)
  PROVE  MirrorInv'
  <1> USE DEF MirrorInv
  <1>1. UNCHANGED <<tableVars, target>> /\ sync' = "pinning" /\ current' = 1
    BY DEF Start
  <1>2. ceiling' \in Nat /\ ceiling' < nextId'
    <2>1. CASE ceiling' = 0
      BY <1>1, <2>1 DEF tableVars, TableInv, TableTypeOK
    <2>2. CASE \E r \in rows : IsCeiling(r.id) /\ ceiling' = r.id
      BY <1>1, <2>2, CeilingPassed DEF tableVars
    <2>3. QED
      BY <2>1, <2>2 DEF Start
  <1>3. TypeOK' /\ CeilingBelow'
    <2>1. limit \in Nat \cup {NoLimit}
      BY MirrorAssumption
    <2>2. QED
      BY <1>1, <1>2, <2>1, TablesUntouched DEF Start, TypeOK, CeilingBelow, TableInv
  <1>4. PinsHold'
    <2>1. DOMAIN Symbols \subseteq Nat \ {0}
      BY MirrorAssumption
    <2>2. PinnedSymbols' = {}
      BY <1>1, <2>1 DEF PinnedSymbols
    <2>3. QED
      BY <2>2 DEF PinsHold
  <1>5. PositionExact' /\ PositionUnset' /\ EarlierComplete'
    BY <1>1 DEF Start, PositionExact, PositionUnset, Copying, EarlierComplete
  <1>6. QED
    BY <1>1, <1>3, <1>4, <1>5, TablesUntouched

LEMMA PinMirrorInv ==
  ASSUME MirrorInv, Pin
  PROVE  MirrorInv'
  <1> USE DEF MirrorInv
  <1>1. /\ UNCHANGED <<tableVars, target>> /\ sync = "pinning" /\ sync' = "pinning"
        /\ ceiling' = ceiling /\ left' = left /\ position' = position /\ runs' = runs
        /\ current' = current + 1 /\ current \in DOMAIN Symbols
    BY DEF Pin
  <1>2. TypeOK' /\ CeilingBelow'
    BY <1>1, TablesUntouched DEF TypeOK, CeilingBelow, TableInv
  <1>3. PinsHold'
    <2>1. Settled(Symbols[current], ceiling)
      BY <1>1, SymbolFacts, FreeKeySettles DEF Pin, CeilingBelow, TypeOK
    <2>2. ASSUME NEW i \in DOMAIN Symbols, i < current + 1
          PROVE  Settled(Symbols[i], ceiling)
      <3>1. CASE i = current
        BY <2>1, <3>1
      <3>2. CASE i < current
        BY <1>1, <3>2 DEF PinsHold, PinnedSymbols
      <3>3. current \in Nat /\ i \in Nat
        BY MirrorAssumption DEF TypeOK
      <3>4. QED
        BY <2>2, <3>1, <3>2, <3>3
    <2>3. PinnedSymbols' = {Symbols[i] : i \in {j \in DOMAIN Symbols : j < current + 1}}
      BY <1>1 DEF PinnedSymbols
    <2>4. \A s \in PinnedSymbols' : Settled(s, ceiling)
      BY <2>2, <2>3
    <2>5. QED
      BY <1>1, <2>4 DEF PinsHold, Settled, tableVars
  <1>4. PositionExact' /\ PositionUnset' /\ EarlierComplete'
    BY <1>1 DEF PositionExact, PositionUnset, Copying, EarlierComplete
  <1>5. QED
    BY <1>1, <1>2, <1>3, <1>4, TablesUntouched

LEMMA AllPinnedMirrorInv ==
  ASSUME MirrorInv, AllPinned
  PROVE  MirrorInv' /\ current' = 1
  <1> USE DEF MirrorInv
  <1>1. /\ UNCHANGED <<tableVars, target>> /\ sync = "pinning" /\ sync' = "copying"
        /\ ceiling' = ceiling /\ left' = left /\ position' = position /\ runs' = runs
        /\ current' = 1 /\ current \notin DOMAIN Symbols
    BY DEF AllPinned
  <1>2. TypeOK' /\ CeilingBelow'
    BY <1>1, TablesUntouched DEF TypeOK, CeilingBelow, TableInv
  <1>3. DOMAIN Symbols = 1 .. Len(Symbols) /\ Len(Symbols) \in Nat
    BY MirrorAssumption
  <1>4. PinsHold'
    <2>1. current \in Nat \ {0}
      BY DEF TypeOK
    <2>2. \A i \in DOMAIN Symbols : i < current
      BY <1>1, <1>3, <2>1
    <2>3. \A s \in Mirrored : Settled(s, ceiling)
      BY <1>1, <2>2 DEF PinsHold, PinnedSymbols, Mirrored
    <2>4. QED
      BY <1>1, <2>3 DEF PinsHold, PinnedSymbols, Settled, tableVars
  <1>5. EarlierComplete'
    BY <1>1, <1>3 DEF EarlierComplete
  <1>6. PositionExact' /\ PositionUnset'
    BY <1>1 DEF PositionExact, PositionUnset, Copying
  <1>7. QED
    BY <1>1, <1>2, <1>4, <1>5, <1>6, TablesUntouched

LEMMA ReadPositionMirrorInv ==
  ASSUME MirrorInv, ReadPosition
  PROVE  MirrorInv'
  <1> USE DEF MirrorInv
  <1> DEFINE s == Symbols[current]
  <1>1. /\ UNCHANGED <<tableVars, target>> /\ sync = "copying" /\ sync' = "copying"
        /\ ceiling' = ceiling /\ left' = left /\ runs' = runs
        /\ current' = current /\ current \in DOMAIN Symbols
        /\ position' \in CopiedIds(s) /\ LastCopied(s, position')
    BY DEF ReadPosition
  <1>2. s \in Mirrored /\ position' \in Nat
    BY <1>1, SymbolFacts, CopiedIdFacts
  <1>3. TypeOK' /\ CeilingBelow'
    BY <1>1, <1>2, TablesUntouched DEF TypeOK, CeilingBelow, TableInv
  <1>4. PinsHold'
    BY <1>1, TablesUntouched DEF PinsHold, PinnedSymbols, Settled, tableVars
  <1>5. EarlierComplete' /\ PositionUnset'
    BY <1>1 DEF EarlierComplete, PositionUnset, UpTo, tableVars
  <1>6. PositionExact'
    <2>1. Of(s, target) = UpTo(s, position')
      BY <1>1, <1>2 DEF NoGaps
    <2>2. Settled(s, position')
      BY <1>1, <1>2 DEF CopiesSettled
    <2>3. QED
      BY <1>1, <2>1, <2>2 DEF PositionExact, Of, UpTo, Settled, tableVars
  <1>7. QED
    BY <1>3, <1>4, <1>5, <1>6, <1>1, TablesUntouched

\* A settled set stays settled below.
LEMMA SettledBelow ==
  ASSUME TableInv, NEW s, NEW top \in Nat, NEW id \in Nat, id <= top, Settled(s, top)
  PROVE  Settled(s, id)
  <1>1. nextId \in Nat /\ \A w \in Writer : \A r \in pending[w] : r.id \in Nat
    BY DEF TableInv, TableTypeOK, Row
  <1>2. QED
    BY <1>1 DEF Settled

\* What one transaction copies, and what it leaves of the limit.
LEMMA ChunkFacts ==
  ASSUME MirrorInv, CopyChunk
  PROVE  \E taken \in SUBSET IdRange(Symbols[current], Upper) :
           /\ target' = target \cup taken
           /\ \A r \in taken, q \in IdRange(Symbols[current], Upper) \ taken : r.id < q.id
           /\ left' # 0 => taken = IdRange(Symbols[current], Upper)
           /\ left' \in Nat \cup {NoLimit}
           /\ left' = NoLimit => left = NoLimit
  <1> USE DEF MirrorInv
  <1> DEFINE range == IdRange(Symbols[current], Upper)
  <1>1. PICK taken \in SUBSET range :
          /\ FirstRows(range, taken)
          /\ target' = target \cup taken
          /\ left' = IF left = NoLimit THEN NoLimit ELSE left - Cardinality(taken)
    BY DEF CopyChunk
  <1>2. range \subseteq rows
    BY DEF IdRange
  <1>3. Cardinality(range) \in Nat /\ Cardinality(taken) \in Nat
    <2>1. IsFiniteSet(range) /\ IsFiniteSet(taken)
      BY <1>2, FS_Subset DEF TablesFinite
    <2>2. QED
      BY <2>1, FS_CardinalityType
  <1>4. left \in Nat \cup {NoLimit} /\ NoLimit \notin Nat
    BY MirrorAssumption DEF TypeOK
  <1> HIDE DEF range
  <1>5. CASE left = NoLimit
    BY <1>1, <1>4, <1>5 DEF FirstRows, range
  <1>6. CASE left \in Nat
    <2>1. CASE Cardinality(range) <= left
      <3>1. taken = range
        BY <1>1, <2>1 DEF FirstRows
      <3>2. left' = left - Cardinality(taken) /\ left' \in Nat
        BY <1>1, <1>3, <1>4, <1>6, <2>1, <3>1
      <3>3. QED
        BY <1>1, <1>4, <3>1, <3>2 DEF FirstRows, range
    <2>2. CASE ~(Cardinality(range) <= left)
      <3>1. Cardinality(taken) = left
        BY <1>1, <1>4, <1>6, <2>2 DEF FirstRows
      <3>2. left' = 0
        BY <1>1, <1>3, <1>4, <1>6, <3>1
      <3>3. QED
        BY <1>1, <1>4, <3>2 DEF FirstRows, range
    <2>3. QED
      BY <2>1, <2>2
  <1>7. QED
    BY <1>4, <1>5, <1>6

LEMMA CopyChunkMirrorInv ==
  ASSUME MirrorInv, CopyChunk
  PROVE  MirrorInv'
  <1> USE DEF MirrorInv
  <1>0. PICK s : s = Symbols[current]
    OBVIOUS
  <1>1. /\ UNCHANGED tableVars /\ sync = "copying" /\ sync' = "copying"
        /\ ceiling' = ceiling /\ runs' = runs /\ current' = current
        /\ current \in DOMAIN Symbols /\ position # NoPosition
        /\ position < ceiling /\ left # 0 /\ position' = Upper
    BY DEF CopyChunk
  <1>2. PICK taken \in SUBSET IdRange(s, Upper) :
           /\ target' = target \cup taken
           /\ \A r \in taken, q \in IdRange(s, Upper) \ taken : r.id < q.id
           /\ left' # 0 => taken = IdRange(s, Upper)
           /\ left' \in Nat \cup {NoLimit}
           /\ left' = NoLimit => left = NoLimit
    BY <1>0, ChunkFacts
  <1>3. /\ s \in Mirrored /\ position \in Nat /\ ceiling \in Nat
        /\ Upper \in Nat /\ position <= Upper /\ Upper <= ceiling
    BY <1>0, <1>1, SymbolFacts, MirrorAssumption DEF TypeOK, Upper
  <1>4. /\ taken \subseteq rows
        /\ \A r \in taken : r.tick.symbol = s /\ r.id > position /\ r.id <= Upper
        /\ \A r \in rows : r.id \in Nat
    BY DEF IdRange, TableInv, TableTypeOK, Row
  <1>5. Of(s, target) = UpTo(s, position) /\ Settled(s, ceiling)
    BY <1>0, <1>1, <1>3 DEF PositionExact, Copying, PinsHold, PinnedSymbols
  <1>6. TableInv' /\ TablesFinite'
    BY <1>1 DEF tableVars, TableInv, TableTypeOK, IdsAllocated, KeysHeld, MissingKeys, TablesFinite
  <1>7. TypeOK' /\ CeilingBelow' /\ TargetCopied' /\ PositionUnset'
    <2>1. target' \subseteq rows /\ rows \subseteq Row
      BY <1>2, <1>4 DEF TargetCopied, TableInv, TableTypeOK
    <2>2. QED
      BY <1>1, <1>2, <1>3, <1>6, <2>1
      DEF TypeOK, CeilingBelow, TargetCopied, TableInv, tableVars, PositionUnset
  <1>8. PinsHold'
    BY <1>1 DEF PinsHold, PinnedSymbols, Settled, tableVars
  <1>9. ASSUME NEW id \in CopiedIds(s)'
        PROVE  id \in CopiedIds(s) \/ \E r \in taken : id = r.id
    BY <1>2 DEF CopiedIds
  <1>10. \A t \in Mirrored \ {s} : CopiedIds(t)' = CopiedIds(t) /\ Of(t, target)' = Of(t, target)
    BY <1>2, <1>4 DEF CopiedIds, Of
  <1>11. CopiesSettled'
    <2>1. ASSUME NEW t \in Mirrored, NEW id \in CopiedIds(t)'
          PROVE  Settled(t, id)
      <3>1. CASE id \in CopiedIds(t)
        BY <3>1 DEF CopiesSettled
      <3>2. CASE id \notin CopiedIds(t)
        <4>1. t = s
          BY <1>10, <2>1, <3>2
        <4>2. PICK r \in taken : id = r.id
          BY <1>9, <2>1, <3>2, <4>1
        <4>3. id \in Nat /\ id <= ceiling
          BY <1>3, <1>4, <4>2
        <4>4. QED
          BY <1>3, <1>5, <4>1, <4>3, SettledBelow
      <3>3. QED
        BY <3>1, <3>2
    <2>2. QED
      BY <1>1, <2>1 DEF CopiesSettled, Settled, tableVars
  <1>12. NoGaps'
    <2>1. rows' = rows
      BY <1>1 DEF tableVars
    <2>2. SUFFICES ASSUME NEW t \in Mirrored, NEW top \in CopiedIds(t)', LastCopied(t, top)'
                   PROVE  Of(t, target)' = UpTo(t, top)
      BY <2>1 DEF NoGaps, UpTo, LastCopied
    <2>3. CASE t # s
      <3>1. CopiedIds(t)' = CopiedIds(t) /\ Of(t, target)' = Of(t, target)
        BY <1>10, <2>3
      <3>2. QED
        BY <2>2, <3>1 DEF NoGaps, LastCopied
    <2>4. CASE t = s
      <3>1. top \in Nat /\ \A id \in CopiedIds(s)' : id <= top
        <4>1. CopiedIds(s)' \subseteq Nat
          BY <1>2, <1>4, CopiedIdFacts DEF CopiedIds
        <4>2. QED
          BY <2>2, <2>4, <4>1 DEF LastCopied
      <3>2. ASSUME NEW r \in target', r.tick.symbol = s
            PROVE  r \in rows /\ r.id <= top
        BY <1>2, <1>4, <3>1, <3>2 DEF TargetCopied, CopiedIds
      <3>3. ASSUME NEW r \in rows, r.tick.symbol = s, r.id <= top
            PROVE  r \in target'
        <4>1. CASE r.id <= position
          BY <1>2, <1>5, <3>3, <4>1 DEF Of, UpTo
        <4>2. CASE r.id > position
          <5>1. r.id \in Nat /\ top > position
            BY <1>3, <1>4, <3>1, <3>3, <4>2
          <5>2. top \notin CopiedIds(s)
            <6>1. \A x \in Of(s, target) : x.id <= position
              BY <1>5 DEF UpTo
            <6>2. \A id \in CopiedIds(s) : id <= position
              BY <1>3, <6>1 DEF CopiedIds, Of
            <6>3. QED
              BY <1>3, <3>1, <5>1, <6>2
          <5>3. PICK x \in taken : top = x.id
            BY <1>9, <2>2, <2>4, <5>2
          <5>4. r \in IdRange(s, Upper)
            BY <1>3, <1>4, <3>1, <3>3, <4>2, <5>1, <5>3 DEF IdRange
          <5>5. ~(x.id < r.id)
            BY <3>1, <3>3, <5>1, <5>3
          <5>6. QED
            BY <1>2, <5>4, <5>5
        <4>3. QED
          BY <1>3, <1>4, <4>1, <4>2
      <3>4. QED
        BY <2>4, <3>2, <3>3 DEF Of, UpTo
    <2>5. QED
      BY <2>3, <2>4
  <1>13. PositionExact'
    <2>1. SUFFICES ASSUME left' # 0
                   PROVE  Settled(s, Upper) /\ Of(s, target)' = UpTo(s, Upper)
      BY <1>0, <1>1 DEF PositionExact, Of, UpTo, Settled, tableVars
    <2>2. Settled(s, Upper)
      BY <1>3, <1>5, SettledBelow
    <2>3. target' = target \cup IdRange(s, Upper)
      BY <1>2, <2>1
    <2>4. UpTo(s, Upper) = UpTo(s, position) \cup IdRange(s, Upper)
      BY <1>3, <1>4 DEF UpTo, IdRange
    <2>5. QED
      BY <1>5, <2>2, <2>3, <2>4 DEF Of, IdRange
  <1>14. EarlierComplete'
    BY <1>1, <1>2 DEF EarlierComplete, UpTo, tableVars
  <1>15. QED
    BY <1>6, <1>7, <1>8, <1>11, <1>12, <1>13, <1>14

LEMMA NextSymbolMirrorInv ==
  ASSUME MirrorInv, NextSymbol
  PROVE  MirrorInv'
  <1> USE DEF MirrorInv
  <1>1. /\ UNCHANGED <<tableVars, target>> /\ sync = "copying" /\ sync' = "copying"
        /\ ceiling' = ceiling /\ left' = left /\ runs' = runs
        /\ current' = current + 1 /\ current \in DOMAIN Symbols
        /\ position # NoPosition /\ position' = NoPosition
        /\ position >= ceiling \/ left = 0
    BY DEF NextSymbol
  <1>2. current \in Nat \ {0} /\ position \in Nat /\ ceiling \in Nat
    BY <1>1 DEF TypeOK
  <1>3. TypeOK' /\ CeilingBelow'
    BY <1>1, <1>2, TablesUntouched DEF TypeOK, CeilingBelow, TableInv
  <1>4. PinsHold'
    BY <1>1, TablesUntouched DEF PinsHold, PinnedSymbols, Settled, tableVars
  <1>5. PositionExact' /\ PositionUnset'
    BY <1>1 DEF PositionExact, PositionUnset, Copying
  <1>6. EarlierComplete'
    <2>1. SUFFICES ASSUME left = NoLimit, NEW i \in DOMAIN Symbols, i < current + 1
                   PROVE  UpTo(Symbols[i], ceiling) \subseteq target
      BY <1>1 DEF EarlierComplete, UpTo, tableVars
    <2>2. CASE i = current
      <3>1. position >= ceiling
        BY <1>1, <2>1, MirrorAssumption
      <3>2. Of(Symbols[i], target) = UpTo(Symbols[i], position)
        BY <1>1, <2>1, <2>2, MirrorAssumption DEF PositionExact, Copying
      <3>3. \A r \in rows : r.id \in Nat
        BY DEF TableInv, TableTypeOK, Row
      <3>4. UpTo(Symbols[i], ceiling) \subseteq UpTo(Symbols[i], position)
        BY <1>2, <3>1, <3>3 DEF UpTo
      <3>5. QED
        BY <3>2, <3>4 DEF Of
    <2>3. CASE i # current
      <3>1. i < current
        BY <1>2, <2>1, <2>3, MirrorAssumption
      <3>2. QED
        BY <1>1, <2>1, <3>1 DEF EarlierComplete
    <2>4. QED
      BY <2>2, <2>3
  <1>7. QED
    BY <1>1, <1>3, <1>4, <1>5, <1>6, TablesUntouched

LEMMA EndRunMirrorInv ==
  ASSUME MirrorInv, Finish \/ Abandon
  PROVE  MirrorInv'
  <1> USE DEF MirrorInv
  <1>1. /\ UNCHANGED <<tableVars, target>> /\ sync' = "idle"
        /\ UNCHANGED <<ceiling, left, current, position, runs>>
    BY DEF Finish, Abandon
  <1>2. TypeOK' /\ CeilingBelow' /\ PinsHold' /\ PositionExact' /\ PositionUnset'
    BY <1>1, TablesUntouched
    DEF TypeOK, CeilingBelow, PinsHold, PinnedSymbols, PositionExact, PositionUnset,
        Copying, TableInv
  <1>3. EarlierComplete'
    BY <1>1 DEF EarlierComplete
  <1>4. QED
    BY <1>1, <1>2, <1>3, TablesUntouched

LEMMA NextMirrorInv == MirrorInv /\ [Next]_vars => MirrorInv'
  <1> SUFFICES ASSUME MirrorInv, [Next]_vars PROVE MirrorInv'
    OBVIOUS
  <1>1. CASE \E w \in Writer : WriterStep(w) /\ UNCHANGED mirrorVars
    BY <1>1, WriterMirrorInv
  <1>2. CASE MirrorStep
    BY <1>2, StartMirrorInv, PinMirrorInv, AllPinnedMirrorInv, ReadPositionMirrorInv,
       CopyChunkMirrorInv, NextSymbolMirrorInv, EndRunMirrorInv DEF MirrorStep
  <1>3. CASE UNCHANGED vars
    <2>1. UNCHANGED <<tableVars, target>> /\ UNCHANGED mirrorVars
      BY <1>3 DEF vars, mirrorVars
    <2>2. TypeOK' /\ CeilingBelow' /\ PinsHold'
      BY <2>1, TablesUntouched
      DEF MirrorInv, mirrorVars, tableVars, TypeOK, CeilingBelow, PinsHold, PinnedSymbols,
          Settled, TableInv
    <2>3. PositionExact' /\ PositionUnset' /\ EarlierComplete'
      BY <2>1
      DEF MirrorInv, mirrorVars, tableVars, PositionExact, PositionUnset, EarlierComplete,
          Copying, Settled, Of, UpTo
    <2>4. QED
      BY <2>1, <2>2, <2>3, TablesUntouched DEF MirrorInv
  <1>4. QED
    BY <1>1, <1>2, <1>3 DEF Next

-----------------------------------------------------------------------------

\* The variables keep their types.
THEOREM MirrorTypes == Spec => []TypeOK
  <1>1. MirrorInv => TypeOK
    BY DEF MirrorInv
  <1>2. QED
    BY InitMirrorInv, NextMirrorInv, <1>1, PTL DEF Spec

\* The research database never holds a tick of a symbol without every committed
\* tick before it: resuming behind the last id loses nothing.
THEOREM MirrorHasNoGaps == Spec => []NoGaps
  <1>1. MirrorInv => NoGaps
    BY DEF MirrorInv
  <1>2. QED
    BY InitMirrorInv, NextMirrorInv, <1>1, PTL DEF Spec

\* Below the last copied id of a symbol no open transaction can add a tick, so
\* that what was copied stays all there is.
THEOREM CopiesStaySettled == Spec => []CopiesSettled
  <1>1. MirrorInv => CopiesSettled
    BY DEF MirrorInv
  <1>2. QED
    BY InitMirrorInv, NextMirrorInv, <1>1, PTL DEF Spec

\* A run without a row limit that ends normally has copied everything at or below
\* its ceiling.
THEOREM UnlimitedRunsComplete == Spec => FinishedIsComplete
  <1>1. MirrorInv /\ [Next]_vars
          => [Finish /\ left = NoLimit => \A s \in Mirrored : UpTo(s, ceiling) \subseteq target]_vars
    <2>1. SUFFICES ASSUME MirrorInv, Finish, left = NoLimit, NEW i \in DOMAIN Symbols
                   PROVE  UpTo(Symbols[i], ceiling) \subseteq target
      BY DEF Mirrored
    <2>2. i < current
      <3>1. DOMAIN Symbols = 1 .. Len(Symbols) /\ Len(Symbols) \in Nat
        BY MirrorAssumption
      <3>2. current \in Nat \ {0} /\ current \notin DOMAIN Symbols
        BY <2>1 DEF Finish, MirrorInv, TypeOK
      <3>3. QED
        BY <3>1, <3>2
    <2>3. QED
      BY <2>1, <2>2 DEF Finish, MirrorInv, EarlierComplete
  <1>2. QED
    BY InitMirrorInv, NextMirrorInv, <1>1, PTL DEF Spec, FinishedIsComplete

-----------------------------------------------------------------------------
(* CommandStore: a command's row and its history *)

\* The table only names states; the transition counts one revision.
LEMMA StoreAllowed ==
  ASSUME NEW s \in Store!CommandState
  PROVE  Store!Allowed[s] \subseteq Store!CommandState
  BY DEF Store!Allowed, Store!CommandState

LEMMA StoreTransition ==
  ASSUME NEW cmd \in Store!ExecutionCommand, NEW new \in Store!CommandState
  PROVE  /\ Store!Transition(cmd, new) \in Store!ExecutionCommand
         /\ Store!Transition(cmd, new).state = new
         /\ Store!Transition(cmd, new).state_revision = cmd.state_revision + 1
  <1> DEFINE claimant == IF new = "READY" THEN Nobody ELSE cmd.claimed_by
             lease == IF new = "READY" THEN Store!NoTime ELSE cmd.claim_expires_at
             stated == [cmd EXCEPT !.state = new]
             counted == [stated EXCEPT !.state_revision = cmd.state_revision + 1]
             owned == [counted EXCEPT !.claimed_by = claimant]
  <1>1. claimant \in Writer \cup {Nobody} /\ lease \in Store!TimeOrNull
    BY DEF Store!ExecutionCommand, Store!TimeOrNull
  <1>2. Store!Transition(cmd, new) = [owned EXCEPT !.claim_expires_at = lease]
    BY Zenon DEF Store!Transition
  <1>3. stated \in Store!ExecutionCommand
    BY DEF Store!ExecutionCommand
  <1>4. counted \in Store!ExecutionCommand
    <2>1. cmd.state_revision + 1 \in Nat
      BY DEF Store!ExecutionCommand
    <2> HIDE DEF stated
    <2>2. QED
      BY <1>3, <2>1 DEF Store!ExecutionCommand
  <1>5. owned \in Store!ExecutionCommand
    BY <1>1, <1>4 DEF Store!ExecutionCommand
  <1>6. Store!Transition(cmd, new) \in Store!ExecutionCommand
    BY <1>1, <1>2, <1>5 DEF Store!ExecutionCommand
  <1>7. QED
    BY <1>6 DEF Store!Transition, Store!ExecutionCommand

LEMMA StoreClaimed ==
  ASSUME NEW cmd \in Store!ExecutionCommand, NEW w \in Writer, NEW t \in Nat
  PROVE  /\ Store!MarkClaimed(cmd, w, t) \in Store!ExecutionCommand
         /\ Store!MarkClaimed(cmd, w, t).state = "CLAIMED"
         /\ Store!MarkClaimed(cmd, w, t).state_revision = cmd.state_revision + 1
  <1> DEFINE moved == Store!Transition(cmd, "CLAIMED")
             taken == [moved EXCEPT !.claimed_by = w]
  <1>1. /\ moved \in Store!ExecutionCommand /\ moved.state = "CLAIMED"
        /\ moved.state_revision = cmd.state_revision + 1
    BY StoreTransition DEF Store!CommandState
  <1> HIDE DEF moved
  <1>2. taken \in Store!ExecutionCommand /\ taken.state = "CLAIMED"
        /\ taken.state_revision = cmd.state_revision + 1
    BY <1>1 DEF Store!ExecutionCommand
  <1>3. Store!MarkClaimed(cmd, w, t) = [taken EXCEPT !.claim_expires_at = t + LeaseSeconds]
    BY Zenon DEF Store!MarkClaimed, moved
  <1>4. t + LeaseSeconds \in Store!TimeOrNull
    BY StoreAssumption DEF Store!TimeOrNull, Store!Time
  <1> HIDE DEF taken
  <1>5. QED
    BY <1>2, <1>3, <1>4 DEF Store!ExecutionCommand

LEMMA StoreSubmitted ==
  ASSUME NEW cmd \in Store!ExecutionCommand, NEW q \in Nat, NEW t \in Nat
  PROVE  LET submitted == [Store!MarkSubmitting(cmd, t) EXCEPT !.quantity = q]
         IN  /\ submitted \in Store!ExecutionCommand
             /\ submitted.state = "SUBMITTING"
             /\ submitted.state_revision = cmd.state_revision + 1
  <1> DEFINE moved == Store!Transition(cmd, "SUBMITTING")
             stamped == Store!MarkSubmitting(cmd, t)
  <1>1. /\ moved \in Store!ExecutionCommand /\ moved.state = "SUBMITTING"
        /\ moved.state_revision = cmd.state_revision + 1
    BY StoreTransition DEF Store!CommandState
  <1>2. stamped = [moved EXCEPT !.submitting_at = t]
    BY DEF Store!MarkSubmitting
  <1> HIDE DEF moved
  <1>3. stamped \in Store!ExecutionCommand /\ stamped.state = "SUBMITTING"
        /\ stamped.state_revision = cmd.state_revision + 1
    BY <1>1, <1>2 DEF Store!ExecutionCommand, Store!TimeOrNull, Store!Time
  <1>4. QED
    BY <1>3 DEF Store!ExecutionCommand

LEMMA StoreStarted ==
  ASSUME NEW cmd \in Store!ExecutionCommand, NEW t \in Nat
  PROVE  /\ Store!MarkBrokerRequestStarted(cmd, t) \in Store!ExecutionCommand
         /\ Store!MarkBrokerRequestStarted(cmd, t).state = cmd.state
         /\ Store!MarkBrokerRequestStarted(cmd, t).state_revision = cmd.state_revision
  <1>1. t \in Store!TimeOrNull
    BY DEF Store!TimeOrNull, Store!Time
  <1>2. QED
    BY <1>1 DEF Store!MarkBrokerRequestStarted, Store!ExecutionCommand

\* A copy is at most one transition ahead of what its client read, which the row
\* has not gone back from; a copy moved out of UNKNOWN is a reconciled one.
CopyFaithful(c) ==
  /\ c.hops \in {0, 1}
  /\ c.stored.command.state_revision <= row.command.state_revision + c.hops
  /\ c.hops = 0 => c.stored.command.state = c.expected
  /\ c.hops = 1 => /\ c.stored.command.state \in Store!Allowed[c.expected]
                   /\ c.expected = "UNKNOWN" => c.reconciled

StoreInv ==
  /\ Store!TypeOK /\ Store!HistoryEndsInRow /\ Store!HistoryComplete /\ Store!HistoryLegal
  /\ \A cl \in Writer : copy[cl] # Store!NoCopy => CopyFaithful(copy[cl])

LEMMA StoreInitInv == Store!Init => StoreInv
  <1> SUFFICES ASSUME Store!Init PROVE StoreInv
    OBVIOUS
  <1>1. PICK q \in Quantities :
          row = [command |-> [state |-> "CREATED", state_revision |-> 0,
                              claimed_by |-> Nobody, claim_expires_at |-> Store!NoTime,
                              submitting_at |-> Store!NoTime,
                              broker_request_started_at |-> Store!NoTime, quantity |-> q],
                 changed_at |-> 0]
    <2>1. PICK cmd \in {[state |-> "CREATED", state_revision |-> 0,
                         claimed_by |-> Nobody, claim_expires_at |-> Store!NoTime,
                         submitting_at |-> Store!NoTime,
                         broker_request_started_at |-> Store!NoTime, quantity |-> q] :
                           q \in Quantities} :
            row = [command |-> cmd, changed_at |-> 0]
      BY DEF Store!Init
    <2>2. QED
      BY <2>1
  <1>2. row \in Store!StoredCommand /\ row.command.state_revision = 0
    <2>1. q \in Nat
      BY StoreAssumption
    <2>2. QED
      BY <1>1, <2>1 DEF Store!StoredCommand, Store!ExecutionCommand, Store!CommandState,
                        Store!TimeOrNull, Store!NoTime
  <1>3. Store!Observe(row) \in Store!Observation
    BY <1>2 DEF Store!Observe, Store!Observation, Store!StoredCommand, Store!ExecutionCommand
  <1>4. DOMAIN observations = {0} /\ observations[0] = Store!Observe(row)
    BY DEF Store!Init
  <1>5. Store!TypeOK
    BY <1>2, <1>3, <1>4 DEF Store!Init, Store!TypeOK
  <1>6. Store!HistoryEndsInRow /\ Store!HistoryComplete /\ Store!HistoryLegal
    BY <1>2, <1>4 DEF Store!HistoryEndsInRow, Store!HistoryComplete, Store!HistoryLegal
  <1>7. \A cl \in Writer : copy[cl] = Store!NoCopy
    BY DEF Store!Init
  <1>8. QED
    BY <1>5, <1>6, <1>7 DEF StoreInv

\* What is known of a copy somebody holds.
LEMMA CopyTypes ==
  ASSUME StoreInv, NEW cl \in Writer, copy[cl] # Store!NoCopy
  PROVE  /\ copy[cl] \in Store!Copy
         /\ copy[cl].stored \in Store!StoredCommand
         /\ copy[cl].stored.command \in Store!ExecutionCommand
         /\ copy[cl].expected \in Store!CommandState
         /\ CopyFaithful(copy[cl])
  BY DEF StoreInv, Store!TypeOK, Store!Copy, Store!StoredCommand

\* A write records the next revision, reached by a step of the state machine, or
\* writes the last one again as it was recorded.
LEMMA StoreWrite ==
  ASSUME StoreInv, NEW stored \in Store!StoredCommand, Store!Write(stored),
         \/ stored.command.state_revision <= row.command.state_revision
            /\ row.command.state_revision <= stored.command.state_revision
         \/ /\ stored.command.state_revision = row.command.state_revision + 1
            /\ stored.command.state \in Store!Allowed[row.command.state]
  PROVE  /\ row' = stored
         /\ DOMAIN observations' \subseteq Nat
         /\ \A r \in DOMAIN observations' : observations'[r] \in Store!Observation
         /\ Store!HistoryEndsInRow' /\ Store!HistoryComplete' /\ Store!HistoryLegal'
         /\ stored.command.state_revision = row.command.state_revision =>
              stored.command.state = row.command.state
  <1> DEFINE n == row.command.state_revision
             new == stored.command.state_revision
  <1>1. n \in Nat /\ new \in Nat
    BY DEF StoreInv, Store!TypeOK, Store!StoredCommand, Store!ExecutionCommand
  <1>2. /\ row' = stored
        /\ observations' = [r \in DOMAIN observations \cup {new} |->
             IF r \in DOMAIN observations THEN observations[r] ELSE Store!Observe(stored)]
    BY DEF Store!Write, Store!Observed
  <1>3. DOMAIN observations = 0 .. n /\ observations[n] = Store!Observe(row)
    BY DEF StoreInv, Store!HistoryComplete, Store!HistoryEndsInRow
  <1>4. Store!Observe(stored) \in Store!Observation
    BY DEF Store!Observe, Store!Observation, Store!StoredCommand, Store!ExecutionCommand
  <1>5. \A r \in 0 .. n : observations[r] \in Store!Observation
    BY <1>3 DEF StoreInv, Store!TypeOK
  <1>6. CASE new = n
    <2>1. observations[n] = Store!Observe(stored)
      BY <1>3, <1>6, <1>1 DEF Store!Write, Store!ObservationAgrees, Store!Recorded
    <2>2. DOMAIN observations' = 0 .. n /\ \A r \in 0 .. n : observations'[r] = observations[r]
      BY <1>1, <1>2, <1>3, <1>6
    <2>3. stored.command.state = row.command.state
      BY <1>3, <2>1 DEF Store!Observe
    <2>4. Store!HistoryEndsInRow'
      BY <1>1, <1>2, <1>6, <2>1, <2>2 DEF Store!HistoryEndsInRow, Store!Observe
    <2>5. Store!HistoryComplete'
      BY <1>2, <1>6, <2>2 DEF Store!HistoryComplete
    <2>6. Store!HistoryLegal'
      <3>1. \A r \in 0 .. n : r + 1 \in 0 .. n =>
              observations[r + 1].state \in Store!Allowed[observations[r].state]
        BY <1>3 DEF StoreInv, Store!HistoryLegal
      <3>2. QED
        BY <2>2, <3>1 DEF Store!HistoryLegal
    <2>7. DOMAIN observations' \subseteq Nat
          /\ \A r \in DOMAIN observations' : observations'[r] \in Store!Observation
      BY <1>1, <1>5, <2>2
    <2>8. row' = stored
      BY <1>2
    <2>9. QED
      BY <2>3, <2>4, <2>5, <2>6, <2>7, <2>8
  <1>7. CASE new = n + 1 /\ stored.command.state \in Store!Allowed[row.command.state]
    <2>1. DOMAIN observations' = 0 .. n + 1
      BY <1>1, <1>2, <1>3, <1>7
    <2>2. \A r \in 0 .. n : observations'[r] = observations[r]
      BY <1>1, <1>2, <1>3, <2>1
    <2>3. observations'[n + 1] = Store!Observe(stored)
      BY <1>1, <1>2, <1>3, <1>7
    <2>4. Store!HistoryEndsInRow'
      BY <1>1, <1>2, <1>7, <2>1, <2>3 DEF Store!HistoryEndsInRow, Store!Observe
    <2>5. Store!HistoryComplete'
      BY <1>2, <1>7, <2>1 DEF Store!HistoryComplete
    <2>6. Store!HistoryLegal'
      <3>1. SUFFICES ASSUME NEW r \in 0 .. n + 1, r + 1 \in 0 .. n + 1
                     PROVE  observations'[r + 1].state \in Store!Allowed[observations'[r].state]
        BY <2>1 DEF Store!HistoryLegal
      <3>2. CASE r = n
        BY <3>2, <1>1, <1>3, <1>7, <2>2, <2>3 DEF Store!Observe
      <3>3. CASE r # n
        <4>1. r \in 0 .. n /\ r + 1 \in 0 .. n
          BY <3>1, <3>3, <1>1
        <4>2. observations[r + 1].state \in Store!Allowed[observations[r].state]
          BY <4>1, <1>3 DEF StoreInv, Store!HistoryLegal
        <4>3. QED
          BY <4>1, <4>2, <2>2
      <3>4. QED
        BY <3>2, <3>3
    <2>7. DOMAIN observations' \subseteq Nat
          /\ \A r \in DOMAIN observations' : observations'[r] \in Store!Observation
      <3>1. \A r \in 0 .. n + 1 : r \in 0 .. n \/ r = n + 1
        BY <1>1
      <3>2. QED
        BY <1>1, <1>4, <1>5, <2>1, <2>2, <2>3, <3>1
    <2>8. row' = stored /\ new # n
      BY <1>1, <1>2, <1>7
    <2>9. QED
      BY <2>4, <2>5, <2>6, <2>7, <2>8
  <1>8. QED
    BY <1>1, <1>6, <1>7

\* The steps that leave the row alone and change one copy.
LEMMA StoreCopyInv ==
  ASSUME StoreInv, NEW cl \in Writer, UNCHANGED <<storeClock, row, observations>>,
         \/ copy'[cl] = Store!NoCopy
         \/ copy'[cl] \in Store!Copy /\ CopyFaithful(copy'[cl]),
         copy' = [copy EXCEPT ![cl] = copy'[cl]]
  PROVE  StoreInv'
  <1>1. copy' \in [Writer -> Store!Copy \cup {Store!NoCopy}]
    BY DEF StoreInv, Store!TypeOK
  <1>2. Store!TypeOK'
    BY <1>1 DEF StoreInv, Store!TypeOK
  <1>3. Store!HistoryEndsInRow' /\ Store!HistoryComplete' /\ Store!HistoryLegal'
    BY DEF StoreInv, Store!HistoryEndsInRow, Store!HistoryComplete, Store!HistoryLegal
  <1>4. \A other \in Writer : copy'[other] # Store!NoCopy => CopyFaithful(copy'[other])
    BY DEF StoreInv, Store!TypeOK
  <1>5. \A other \in Writer : (copy[other] # Store!NoCopy => CopyFaithful(copy[other]))'
    BY <1>4 DEF CopyFaithful
  <1>6. QED
    BY <1>2, <1>3, <1>5 DEF StoreInv

\* The two updates of a copy, field by field.
LEMMA CopyUpdates ==
  ASSUME NEW c \in Store!Copy, NEW s, NEW h
  PROVE  /\ [[c EXCEPT !.stored = s] EXCEPT !.hops = h]
              = [stored |-> s, expected |-> c.expected, reconciled |-> c.reconciled, hops |-> h]
         /\ [[c EXCEPT !.expected = s] EXCEPT !.hops = h]
              = [stored |-> c.stored, expected |-> s, reconciled |-> c.reconciled, hops |-> h]
  <1>1. PICK a : a = [c EXCEPT !.stored = s]
    OBVIOUS
  <1>2. a = [stored |-> s, expected |-> c.expected, reconciled |-> c.reconciled, hops |-> c.hops]
    BY <1>1 DEF Store!Copy
  <1>3. [a EXCEPT !.hops = h]
          = [stored |-> s, expected |-> c.expected, reconciled |-> c.reconciled, hops |-> h]
    BY <1>2
  <1>4. PICK b : b = [c EXCEPT !.expected = s]
    OBVIOUS
  <1>5. b = [stored |-> c.stored, expected |-> s, reconciled |-> c.reconciled, hops |-> c.hops]
    BY <1>4 DEF Store!Copy
  <1>6. [b EXCEPT !.hops = h]
          = [stored |-> c.stored, expected |-> s, reconciled |-> c.reconciled, hops |-> h]
    BY <1>5
  <1>7. QED
    BY <1>1, <1>3, <1>4, <1>6

\* A transition of a fresh copy is one step ahead of what was read.
LEMMA StoreHoldInv ==
  ASSUME StoreInv, NEW cl \in Writer, NEW new \in Store!CommandState,
         Store!Transitioned(cl, new),
         NEW cmd \in Store!ExecutionCommand, Store!Hold(cl, cmd),
         cmd.state = new,
         cmd.state_revision = copy[cl].stored.command.state_revision + 1
  PROVE  StoreInv'
  <1>1. copy[cl] # Store!NoCopy
    BY DEF Store!Transitioned
  <1>2. /\ copy[cl] \in Store!Copy
        /\ copy[cl].stored.command \in Store!ExecutionCommand
        /\ CopyFaithful(copy[cl])
    BY <1>1, CopyTypes
  <1>3. copy[cl].hops = 0
    BY <1>2 DEF Store!Transitioned, CopyFaithful
  <1>4. /\ new \in Store!Allowed[copy[cl].expected]
        /\ copy[cl].expected = "UNKNOWN" => copy[cl].reconciled
    BY <1>2, <1>3 DEF Store!Transitioned, Store!CanTransition, CopyFaithful
  <1>5. PICK next : next = [stored |-> [command |-> cmd, changed_at |-> storeClock],
                            expected |-> copy[cl].expected,
                            reconciled |-> copy[cl].reconciled, hops |-> 1]
    OBVIOUS
  <1>6. copy' = [copy EXCEPT ![cl] = next]
    <2>1. copy \in [Writer -> Store!Copy \cup {Store!NoCopy}]
      BY DEF StoreInv, Store!TypeOK
    <2>2. [[copy[cl] EXCEPT !.stored = [command |-> cmd, changed_at |-> storeClock]]
             EXCEPT !.hops = 1] = next
      BY <1>2, <1>5, CopyUpdates, ZenonT(40)
    <2>3. copy' = [copy EXCEPT ![cl] = [[copy[cl] EXCEPT
                     !.stored = [command |-> cmd, changed_at |-> storeClock]] EXCEPT !.hops = 1]]
      BY <1>2, <1>3, <2>1 DEF Store!Hold, Store!Copy
    <2>4. QED
      BY <2>2, <2>3
  <1>7. next \in Store!Copy
    BY <1>2, <1>5 DEF Store!Copy, Store!StoredCommand, StoreInv, Store!TypeOK
  <1>8. CopyFaithful(next)
    <2>1. copy[cl].stored.command.state_revision \in Nat /\ row.command.state_revision \in Nat
      BY <1>2 DEF StoreInv, Store!TypeOK, Store!StoredCommand, Store!ExecutionCommand
    <2>2. QED
      BY <1>2, <1>3, <1>4, <1>5, <2>1 DEF CopyFaithful
  <1>9. copy'[cl] = next
    BY <1>6 DEF StoreInv, Store!TypeOK
  <1>10. QED
    BY <1>6, <1>7, <1>8, <1>9, StoreCopyInv DEF Store!Transitioned

LEMMA StoreClientInv ==
  ASSUME StoreInv, NEW cl \in Writer,
         \/ \E reconciles \in BOOLEAN : Store!Read(cl, reconciles)
         \/ \E new \in Store!CommandState \ {"CLAIMED", "SUBMITTING"} : Store!Advance(cl, new)
         \/ \E quantity \in Quantities : Store!Submit(cl, quantity)
         \/ Store!StartRequest(cl)
         \/ Store!Drop(cl)
  PROVE  StoreInv'
  <1>1. copy \in [Writer -> Store!Copy \cup {Store!NoCopy}] /\ storeClock \in Nat
    BY DEF StoreInv, Store!TypeOK
  <1>2. ASSUME NEW reconciles \in BOOLEAN, Store!Read(cl, reconciles)
        PROVE  StoreInv'
    <2>1. PICK next : next = [stored |-> row, expected |-> row.command.state,
                              reconciled |-> reconciles, hops |-> 0]
      OBVIOUS
    <2>2. copy' = [copy EXCEPT ![cl] = next] /\ copy'[cl] = next
      BY <1>1, <1>2, <2>1 DEF Store!Read
    <2>3. row \in Store!StoredCommand /\ row.command.state \in Store!CommandState
          /\ row.command.state_revision \in Nat
      BY DEF StoreInv, Store!TypeOK, Store!StoredCommand, Store!ExecutionCommand
    <2>4. next \in Store!Copy /\ CopyFaithful(next)
      BY <2>1, <2>3 DEF Store!Copy, CopyFaithful
    <2>5. QED
      BY <1>2, <2>2, <2>4, StoreCopyInv DEF Store!Read
  <1>3. ASSUME NEW new \in Store!CommandState \ {"CLAIMED", "SUBMITTING"}, Store!Advance(cl, new)
        PROVE  StoreInv'
    <2>1. copy[cl].stored.command \in Store!ExecutionCommand
      BY <1>3, CopyTypes DEF Store!Advance, Store!Transitioned
    <2>2. QED
      BY <1>3, <2>1, StoreTransition, StoreHoldInv DEF Store!Advance
  <1>4. ASSUME NEW quantity \in Quantities, Store!Submit(cl, quantity)
        PROVE  StoreInv'
    <2>1. copy[cl].stored.command \in Store!ExecutionCommand /\ quantity \in Nat
      BY <1>4, CopyTypes, StoreAssumption DEF Store!Submit, Store!Transitioned
    <2>2. PICK cmd : cmd = [Store!MarkSubmitting(copy[cl].stored.command, storeClock)
                              EXCEPT !.quantity = quantity]
      OBVIOUS
    <2>3. /\ cmd \in Store!ExecutionCommand /\ cmd.state = "SUBMITTING"
          /\ cmd.state_revision = copy[cl].stored.command.state_revision + 1
      BY <1>1, <2>1, <2>2, StoreSubmitted
    <2>4. Store!Transitioned(cl, "SUBMITTING") /\ Store!Hold(cl, cmd)
      BY <1>4, <2>2 DEF Store!Submit
    <2>5. "SUBMITTING" \in Store!CommandState
      BY DEF Store!CommandState
    <2>6. QED
      BY <2>3, <2>4, <2>5, StoreHoldInv
  <1>5. ASSUME Store!StartRequest(cl)
        PROVE  StoreInv'
    <2>1. /\ copy[cl] \in Store!Copy
          /\ copy[cl].stored \in Store!StoredCommand
          /\ copy[cl].stored.command \in Store!ExecutionCommand
          /\ CopyFaithful(copy[cl])
      BY <1>5, CopyTypes DEF Store!StartRequest
    <2>2. PICK cmd : cmd = Store!MarkBrokerRequestStarted(copy[cl].stored.command, storeClock)
      OBVIOUS
    <2>3. /\ cmd \in Store!ExecutionCommand
          /\ cmd.state = copy[cl].stored.command.state
          /\ cmd.state_revision = copy[cl].stored.command.state_revision
      BY <1>1, <2>1, <2>2, StoreStarted
    <2>4. PICK next : next = [copy[cl] EXCEPT !.stored = [copy[cl].stored EXCEPT !.command = cmd]]
      OBVIOUS
    <2>5. copy' = [copy EXCEPT ![cl] = next] /\ copy'[cl] = next
      BY <1>1, <1>5, <2>1, <2>2, <2>4 DEF Store!StartRequest
    <2>6. /\ next.stored.command = cmd /\ next.hops = copy[cl].hops
          /\ next.expected = copy[cl].expected /\ next.reconciled = copy[cl].reconciled
          /\ next \in Store!Copy
      BY <2>1, <2>3, <2>4 DEF Store!Copy, Store!StoredCommand
    <2>7. CopyFaithful(next)
      BY <2>1, <2>3, <2>6 DEF CopyFaithful
    <2>8. QED
      BY <1>5, <2>5, <2>6, <2>7, StoreCopyInv DEF Store!StartRequest
  <1>6. ASSUME Store!Drop(cl)
        PROVE  StoreInv'
    <2>1. copy' = [copy EXCEPT ![cl] = Store!NoCopy] /\ copy'[cl] = Store!NoCopy
      BY <1>1, <1>6 DEF Store!Drop
    <2>2. QED
      BY <1>6, <2>1, StoreCopyInv DEF Store!Drop
  <1>7. QED
    BY <1>2, <1>3, <1>4, <1>5, <1>6

\* The steps that write the row.
LEMMA StoreWrittenInv ==
  ASSUME StoreInv, NEW cl \in Writer, NEW stored \in Store!StoredCommand,
         NEW expected \in Store!CommandState, NEW reconciled \in BOOLEAN,
         stored.command.state = expected,
         Store!Write(stored), storeClock' = storeClock,
         copy' = [copy EXCEPT ![cl] = [stored |-> stored, expected |-> expected,
                                       reconciled |-> reconciled, hops |-> 0]],
         \/ stored.command.state_revision <= row.command.state_revision
            /\ row.command.state_revision <= stored.command.state_revision
         \/ /\ stored.command.state_revision = row.command.state_revision + 1
            /\ stored.command.state \in Store!Allowed[row.command.state]
  PROVE  StoreInv'
  <1>1. /\ row' = stored
        /\ DOMAIN observations' \subseteq Nat
        /\ \A r \in DOMAIN observations' : observations'[r] \in Store!Observation
        /\ Store!HistoryEndsInRow' /\ Store!HistoryComplete' /\ Store!HistoryLegal'
    BY StoreWrite
  <1>2. PICK next : next = [stored |-> stored, expected |-> expected,
                            reconciled |-> reconciled, hops |-> 0]
    OBVIOUS
  <1>3. next \in Store!Copy
    BY <1>2 DEF Store!Copy
  <1>4. copy \in [Writer -> Store!Copy \cup {Store!NoCopy}] /\ copy' = [copy EXCEPT ![cl] = next]
    BY <1>2 DEF StoreInv, Store!TypeOK
  <1>5. Store!TypeOK'
    BY <1>1, <1>3, <1>4 DEF StoreInv, Store!TypeOK
  <1>6. ASSUME NEW other \in Writer, copy'[other] # Store!NoCopy
        PROVE  CopyFaithful(copy[other])'
    <2>1. row.command.state_revision \in Nat /\ row'.command.state_revision \in Nat
          /\ row.command.state_revision <= row'.command.state_revision
      BY <1>1 DEF StoreInv, Store!TypeOK, Store!StoredCommand, Store!ExecutionCommand
    <2>2. CASE other = cl
      <3>1. copy'[other] = next
        BY <1>4, <2>2
      <3>2. QED
        BY <1>1, <1>2, <2>1, <3>1 DEF CopyFaithful
    <2>3. CASE other # cl
      <3>1. copy'[other] = copy[other]
        BY <1>4, <2>3
      <3>2. CopyFaithful(copy[other]) /\ copy[other].stored.command.state_revision \in Nat
        BY <1>6, <3>1, CopyTypes DEF Store!ExecutionCommand
      <3>3. QED
        BY <2>1, <3>1, <3>2 DEF CopyFaithful
    <2>4. QED
      BY <2>2, <2>3
  <1>7. QED
    BY <1>1, <1>5, <1>6 DEF StoreInv

LEMMA StoreClaimNextInv ==
  ASSUME StoreInv, NEW cl \in Writer, Store!ClaimNext(cl)
  PROVE  StoreInv'
  <1>1. row.command \in Store!ExecutionCommand /\ storeClock \in Nat
    BY DEF StoreInv, Store!TypeOK, Store!StoredCommand
  <1>2. PICK claimed : claimed = [command |-> Store!MarkClaimed(row.command, cl, storeClock),
                                  changed_at |-> storeClock]
    OBVIOUS
  <1>3. /\ claimed \in Store!StoredCommand /\ claimed.command.state = "CLAIMED"
        /\ claimed.command.state_revision = row.command.state_revision + 1
    BY <1>1, <1>2, StoreClaimed DEF Store!StoredCommand
  <1>4. "CLAIMED" \in Store!Allowed[row.command.state] /\ "CLAIMED" \in Store!CommandState
    BY DEF Store!ClaimNext, Store!Allowed, Store!CommandState
  <1>5. /\ Store!Write(claimed) /\ storeClock' = storeClock
        /\ copy' = [copy EXCEPT ![cl] = [stored |-> claimed, expected |-> "CLAIMED",
                                         reconciled |-> FALSE, hops |-> 0]]
    BY <1>2 DEF Store!ClaimNext
  <1>6. QED
    BY <1>3, <1>4, <1>5, StoreWrittenInv

\* A save that matches writes the revision after the row's, or the row's again.
LEMMA StoreSaveStep ==
  ASSUME StoreInv, NEW cl \in Writer, Store!SaveState(cl)
  PROVE  /\ StoreInv'
         /\ row' = copy[cl].stored
         /\ row.command.state = copy[cl].expected
         /\ row'.command.state # row.command.state => copy[cl].hops = 1
         /\ CopyFaithful(copy[cl])
  <1>1. /\ copy[cl] \in Store!Copy
        /\ copy[cl].stored \in Store!StoredCommand
        /\ copy[cl].stored.command \in Store!ExecutionCommand
        /\ CopyFaithful(copy[cl])
    BY CopyTypes DEF Store!SaveState
  <1>2. PICK stored : stored = copy[cl].stored
    OBVIOUS
  <1>3. /\ row.command.state = copy[cl].expected
        /\ row.command.state_revision <= stored.command.state_revision
    BY <1>2 DEF Store!SaveState, Store!SaveMatches
  <1>4. row.command.state_revision \in Nat /\ stored.command.state_revision \in Nat
    BY <1>1, <1>2 DEF StoreInv, Store!TypeOK, Store!StoredCommand, Store!ExecutionCommand
  <1>5. \/ stored.command.state_revision <= row.command.state_revision
           /\ row.command.state_revision <= stored.command.state_revision
        \/ /\ stored.command.state_revision = row.command.state_revision + 1
           /\ copy[cl].hops = 1
           /\ stored.command.state \in Store!Allowed[row.command.state]
    BY <1>1, <1>2, <1>3, <1>4 DEF CopyFaithful
  <1>6. /\ Store!Write(stored) /\ storeClock' = storeClock
        /\ copy' = [copy EXCEPT ![cl] = [stored |-> stored, expected |-> stored.command.state,
                                         reconciled |-> copy[cl].reconciled, hops |-> 0]]
    <2>1. [[copy[cl] EXCEPT !.expected = stored.command.state] EXCEPT !.hops = 0]
          = [stored |-> stored, expected |-> stored.command.state,
             reconciled |-> copy[cl].reconciled, hops |-> 0]
      BY <1>1, <1>2, CopyUpdates, Zenon
    <2>2. copy' = [copy EXCEPT ![cl] = [[copy[cl] EXCEPT !.expected = stored.command.state]
                                          EXCEPT !.hops = 0]]
      BY <1>2 DEF Store!SaveState, StoreInv, Store!TypeOK
    <2>3. QED
      BY <1>2, <2>1, <2>2 DEF Store!SaveState
  <1>7. stored.command.state \in Store!CommandState /\ copy[cl].reconciled \in BOOLEAN
        /\ stored \in Store!StoredCommand
    BY <1>1, <1>2 DEF Store!ExecutionCommand, Store!Copy
  <1>8. StoreInv'
    BY <1>5, <1>6, <1>7, StoreWrittenInv
  <1>9. row' = stored
        /\ (stored.command.state_revision = row.command.state_revision =>
              stored.command.state = row.command.state)
    BY <1>5, <1>6, <1>7, StoreWrite
  <1>10. QED
    BY <1>1, <1>2, <1>3, <1>4, <1>5, <1>8, <1>9

LEMMA StoreNextInv ==
  ASSUME StoreInv, [Store!Next]_storeVars
  PROVE  /\ StoreInv'
         /\ row.command.state = "UNKNOWN" /\ row'.command.state # "UNKNOWN" =>
              \E cl \in Writer : /\ copy[cl] # Store!NoCopy
                                 /\ copy[cl].reconciled
                                 /\ copy[cl].expected = "UNKNOWN"
  <1>1. ASSUME NEW cl \in Writer, Store!ClaimNext(cl)
        PROVE  StoreInv' /\ row.command.state # "UNKNOWN"
    BY <1>1, StoreClaimNextInv DEF Store!ClaimNext
  <1>2. ASSUME NEW cl \in Writer,
               \/ \E reconciles \in BOOLEAN : Store!Read(cl, reconciles)
               \/ \E new \in Store!CommandState \ {"CLAIMED", "SUBMITTING"} : Store!Advance(cl, new)
               \/ \E quantity \in Quantities : Store!Submit(cl, quantity)
               \/ Store!StartRequest(cl)
               \/ Store!Drop(cl)
        PROVE  StoreInv' /\ row' = row
    BY <1>2, StoreClientInv
       DEF Store!Read, Store!Advance, Store!Submit, Store!Transitioned, Store!StartRequest, Store!Drop
  <1>3. ASSUME NEW cl \in Writer, Store!SaveState(cl)
        PROVE  /\ StoreInv'
               /\ row.command.state = "UNKNOWN" /\ row'.command.state # "UNKNOWN" =>
                    /\ copy[cl] # Store!NoCopy
                    /\ copy[cl].reconciled
                    /\ copy[cl].expected = "UNKNOWN"
    BY <1>3, StoreSaveStep DEF CopyFaithful, Store!SaveState
  <1>4. ASSUME Store!TimePasses \/ UNCHANGED storeVars
        PROVE  StoreInv' /\ row' = row
    <2>1. UNCHANGED <<row, observations, copy>> /\ storeClock' \in Nat
      BY <1>4 DEF Store!TimePasses, storeVars, StoreInv, Store!TypeOK
    <2>2. Store!TypeOK' /\ Store!HistoryEndsInRow' /\ Store!HistoryComplete' /\ Store!HistoryLegal'
      BY <2>1 DEF StoreInv, Store!TypeOK, Store!HistoryEndsInRow, Store!HistoryComplete,
                  Store!HistoryLegal
    <2>3. \A cl \in Writer : (copy[cl] # Store!NoCopy => CopyFaithful(copy[cl]))'
      BY <2>1 DEF StoreInv, CopyFaithful
    <2>4. QED
      BY <2>1, <2>2, <2>3 DEF StoreInv
  <1>5. QED
    BY <1>1, <1>2, <1>3, <1>4 DEF Store!Next

\* Whatever the parts next to it do, the command's row and history are written
\* by steps of CommandStore.
LEMMA StorePart ==
  /\ PartsInit => Store!Init
  /\ [PartsNext]_<<part, vars, storeVars, accountVars, replayVars, trialVars>>
       => [Store!Next]_storeVars
  BY DEF PartsInit, PartsNext

\* A command's history ends in its row, misses no revision and shows only steps
\* of the state machine, and nobody leaves UNKNOWN but by reconciling it, for any
\* clients, each as slow as it likes, that save every transition they make.
THEOREM HistoryIsFaithful == PartsSpec => HistoryFaithful
  <1> DEFINE Reconciled == row.command.state = "UNKNOWN" /\ row'.command.state # "UNKNOWN" =>
                             \E cl \in Writer : /\ copy[cl] # Store!NoCopy
                                                /\ copy[cl].reconciled
                                                /\ copy[cl].expected = "UNKNOWN"
  <1>1. StoreInv /\ [Store!Next]_storeVars => StoreInv' /\ [Reconciled]_storeVars
    BY StoreNextInv
  <1>2. StoreInv => Store!TypeOK /\ Store!HistoryEndsInRow /\ Store!HistoryComplete
                    /\ Store!HistoryLegal
    BY DEF StoreInv
  <1> HIDE DEF Reconciled
  <1>3. PartsSpec => [](Store!TypeOK /\ Store!HistoryEndsInRow /\ Store!HistoryComplete
                        /\ Store!HistoryLegal)
                     /\ [][Reconciled]_storeVars
    BY <1>1, <1>2, StoreInitInv, StorePart, PTL DEF PartsSpec
  <1>4. QED
    BY <1>3 DEF HistoryFaithful, Store!HistoryFaithful, Store!UnknownOnlyReconciled, Reconciled,
                storeVars, Store!vars
-----------------------------------------------------------------------------
(* ResearchRun: for any archives, periods, calendar and tolerance, and any *)
(* number of runs and changes.                                             *)

Period == [start : Int, end : Int, warmup : Nat]
Evaluation == [at : Int, rows : SUBSET Int, swaps : SUBSET Int]
Line == [day : Int, features : SUBSET Int]
Stages == {"idle", "preflight", "freeze", "load", "capture", "open", "stream", "report"}
Run == [pc : Stages, id : Nat, period : Period, code : Nat, repro : Nat,
        features : SUBSET Int, swaps : SUBSET Int, pinned : Seq(Int), opened : Nat,
        digest : Seq(Int), evaluations : Seq(Evaluation), progress : Seq(Line)]
Manifest == [git : Nat, ticks : Seq(Int), rows : SUBSET Int, swaps : SUBSET Int, period : Period]
Directory == [run : Nat, candles : Seq(Int), manifest : Seq(Manifest), report : BOOLEAN,
              made : Run]

Increasing(s) == \A i, j \in DOMAIN s : i < j => s[i] < s[j]

\* What is read of a period is in order and inside it.
Pinned(read, period) ==
  /\ read \in Seq(Int) /\ Increasing(read)
  /\ \A i \in DOMAIN read : period.start - period.warmup <= read[i] /\ read[i] < period.end

\* What was replayed is the beginning of what was read.
Replayed(digest, read) ==
  /\ digest \in Seq(Int) /\ Len(digest) <= Len(read)
  /\ \A i \in 1 .. Len(digest) : digest[i] = read[i]

\* Every tick of the period was evaluated, on what was known by then.
Evaluated(evaluations, digest, period, features, frozen) ==
  /\ evaluations \in Seq(Evaluation)
  /\ \A n \in 1 .. Len(evaluations) :
       /\ \E i \in 1 .. Len(digest) : digest[i] = evaluations[n].at
       /\ evaluations[n].at >= period.start
       /\ evaluations[n].rows = Replays!KnownBy(features, Replays!Known(evaluations[n].at))
       /\ evaluations[n].swaps = Replays!KnownBy(frozen, Replays!Known(evaluations[n].at))
  /\ \A i \in 1 .. Len(digest) : digest[i] >= period.start =>
       \E n \in 1 .. Len(evaluations) : evaluations[n].at = digest[i]

\* Each day has one line, of what was known at its first tick.
Printed(progress, digest, features) ==
  /\ progress \in Seq(Line)
  /\ \A j, k \in 1 .. Len(progress) : j < k => progress[j].day < progress[k].day
  /\ \A k \in 1 .. Len(progress) : \E i \in 1 .. Len(digest) : progress[k].day = Replays!Day(digest[i])
  /\ \A i \in 1 .. Len(digest) : \E k \in 1 .. Len(progress) :
       /\ progress[k].day = Replays!Day(digest[i])
       /\ progress[k].features \subseteq Replays!KnownBy(features, Replays!Known(digest[i]))

RunTypes ==
  /\ archive \subseteq Int /\ IsFiniteSet(archive)
  /\ gates \subseteq Int /\ swaps \subseteq Int /\ git \in Nat
  /\ replay \in Run /\ reports \in Seq(Directory)

\* The revisions a run met are in their order.
Revisions ==
  /\ replay.code <= git
  /\ replay.pc \in {"open", "stream", "report"} => replay.code <= replay.repro /\ replay.repro <= git
  /\ replay.pc \in {"stream", "report"} => replay.repro <= replay.opened

\* A replay between two ticks; before the first nothing is kept of any.
Between ==
  /\ replay.pc \notin {"stream", "report"} =>
       replay.digest = <<>> /\ replay.evaluations = <<>> /\ replay.progress = <<>>
  /\ replay.pc \in {"stream", "report"} =>
    /\ Pinned(replay.pinned, replay.period)
    /\ Replayed(replay.digest, replay.pinned)
    /\ Evaluated(replay.evaluations, replay.digest, replay.period, replay.features, replay.swaps)
    /\ Printed(replay.progress, replay.digest, replay.features)

\* The directory of the run that goes on.
OwnDirectory ==
  /\ replay.pc \in {"open", "stream", "report"} => Len(reports) > 0
  /\ replay.pc \in {"open", "stream"} =>
       /\ reports[Len(reports)].manifest = <<>> /\ ~reports[Len(reports)].report
       /\ reports[Len(reports)].candles =
            IF replay.digest = <<>> THEN <<>> ELSE Replays!Front(replay.digest)
  /\ replay.pc = "report" => reports[Len(reports)].manifest # <<>>

RunInv == RunTypes /\ Revisions /\ Between /\ OwnDirectory /\ RunHonest

\* A finite set of numbers, put in order.
LEMMA OrderedIsIncreasing ==
  ASSUME NEW labels \in SUBSET Int, IsFiniteSet(labels)
  PROVE  /\ Replays!InOrder(labels) \in Seq(Int) /\ Increasing(Replays!InOrder(labels))
         /\ \A i \in DOMAIN Replays!InOrder(labels) : Replays!InOrder(labels)[i] \in labels
  <1> DEFINE n == Cardinality(labels)
             below(t) == {u \in labels : u < t}
             s == Replays!InOrder(labels)
             prior == {p \in labels \X labels : p[1] < p[2]}
  <1>1. n \in Nat
    BY FS_CardinalityType
  <1>2. s = [i \in 1 .. n |-> CHOOSE t \in labels : Cardinality(below(t)) = i - 1]
    BY Zenon DEF Replays!InOrder, Replays!Cardinality, Cardinality
  <1>3. StrictOrder(prior, labels)
    <2>1. prior \in SUBSET (labels \X labels) /\ \A x \in labels : <<x, x>> \notin prior
      OBVIOUS
    <2>2. \A x, y \in labels : <<x, y>> \in prior <=> x < y
      OBVIOUS
    <2> HIDE DEF prior
    <2>. QED
      BY <2>1, <2>2 DEF StrictOrder
  <1>4. \A t \in labels : Outranking(prior, labels, t) = below(t)
    BY DEF Outranking
  <1> HIDE DEF prior, n, s
  <1>5. /\ \A r \in 0 .. n - 1 : \E t \in labels : Cardinality(below(t)) = r
        /\ \A t, u \in labels : t < u => Cardinality(below(t)) < Cardinality(below(u))
    <2>1. /\ \A r \in 0 .. n - 1 : \E t \in labels : Cardinality(Outranking(prior, labels, t)) = r
          /\ \A t, u \in labels : <<t, u>> \in prior =>
               Cardinality(Outranking(prior, labels, t)) < Cardinality(Outranking(prior, labels, u))
      <3>1. EachRankOnce(prior, labels)
        BY <1>3, RanksOnce
      <3>. QED
        BY <3>1 DEF EachRankOnce, n
    <2>2. \A t, u \in labels : t < u => <<t, u>> \in prior
      BY DEF prior
    <2> HIDE DEF below
    <2>. QED
      BY <1>4, <2>1, <2>2
  <1>6. ASSUME NEW i \in 1 .. n
        PROVE  s[i] \in labels /\ Cardinality(below(s[i])) = i - 1
    <2>1. i - 1 \in 0 .. n - 1
      BY <1>1
    <2>2. \E t \in labels : Cardinality(below(t)) = i - 1
      BY <1>5, <2>1
    <2>3. s[i] = CHOOSE t \in labels : Cardinality(below(t)) = i - 1
      BY <1>2
    <2> HIDE DEF below
    <2>. QED
      BY <2>2, <2>3, Zenon
  <1>7. DOMAIN s = 1 .. n
    BY <1>2
  <1>8. s \in Seq(Int)
    <2>1. \A i \in 1 .. n : s[i] \in Int
      BY <1>6
    <2>2. s \in [1 .. n -> Int]
      BY <1>2, <1>7, <2>1
    <2>. QED
      BY <1>1, <2>2
  <1>9. ASSUME NEW i \in 1 .. n, NEW j \in 1 .. n, i < j
        PROVE  s[i] < s[j]
    <2>1. /\ s[i] \in labels /\ s[j] \in labels /\ s[i] \in Int /\ s[j] \in Int
          /\ Cardinality(below(s[i])) = i - 1 /\ Cardinality(below(s[j])) = j - 1
      BY <1>6
    <2> HIDE DEF below
    <2>2. i - 1 < j - 1 /\ i - 1 # j - 1
      BY <1>1, <1>9
    <2>3. s[i] # s[j]
      BY <2>1, <2>2
    <2>4. ~(s[j] < s[i])
      BY <1>1, <1>5, <1>9, <2>1
    <2>. QED
      BY <2>1, <2>3, <2>4
  <1>. QED
    BY <1>6, <1>7, <1>8, <1>9 DEF Increasing, s

LEMMA ReadsArePinned ==
  ASSUME RunTypes, NEW period \in Period
  PROVE  Pinned(Replays!Read(period), period)
  <1> DEFINE labels == {t \in archive : t >= period.start - period.warmup /\ t < period.end}
  <1>1. labels \in SUBSET Int /\ IsFiniteSet(labels)
    BY FS_Subset DEF RunTypes
  <1>2. Replays!Read(period) = Replays!InOrder(labels)
    BY DEF Replays!Read
  <1>3. \A t \in labels : period.start - period.warmup <= t /\ t < period.end
    BY <1>1 DEF Period
  <1> HIDE DEF labels
  <1>4. /\ Replays!InOrder(labels) \in Seq(Int) /\ Increasing(Replays!InOrder(labels))
        /\ \A i \in DOMAIN Replays!InOrder(labels) : Replays!InOrder(labels)[i] \in labels
    BY <1>1, OrderedIsIncreasing
  <1>. QED
    BY <1>2, <1>3, <1>4 DEF Pinned

\* What one more tick adds to a sequence: nothing, or one element.
LEMMA OneMore ==
  ASSUME NEW X, NEW s \in Seq(X), NEW more \in Seq(X), Len(more) <= 1
  PROVE  /\ s \o more \in Seq(X) /\ Len(s \o more) = Len(s) + Len(more)
         /\ \A i \in 1 .. Len(s) : (s \o more)[i] = s[i]
         /\ Len(more) = 1 => (s \o more)[Len(s) + 1] = more[1]
  OBVIOUS

LEMMA OneTickMore ==
  ASSUME NEW digest \in Seq(Int), NEW label \in Int
  PROVE  /\ Append(digest, label) \in Seq(Int)
         /\ Len(Append(digest, label)) = Len(digest) + 1 /\ Len(digest) \in Nat
         /\ \A i \in 1 .. Len(digest) : Append(digest, label)[i] = digest[i]
         /\ Append(digest, label)[Len(digest) + 1] = label
  OBVIOUS

LEMMA EvaluatedOn ==
  ASSUME NEW evaluations, NEW digest \in Seq(Int), NEW period \in Period,
         NEW features \in SUBSET Int, NEW frozen \in SUBSET Int,
         Evaluated(evaluations, digest, period, features, frozen),
         NEW label \in Int, NEW more,
         more = IF Replays!Known(label) < Replays!Known(period.start) THEN <<>>
                ELSE <<[at |-> label, rows |-> Replays!KnownBy(features, Replays!Known(label)),
                        swaps |-> Replays!KnownBy(frozen, Replays!Known(label))]>>
  PROVE  Evaluated(evaluations \o more, Append(digest, label), period, features, frozen)
  <1> DEFINE D == Append(digest, label)
             E == evaluations \o more
             R(t) == Replays!KnownBy(features, Replays!Known(t))
             S(t) == Replays!KnownBy(frozen, Replays!Known(t))
  <1>1. /\ evaluations \in Seq(Evaluation) /\ Len(evaluations) \in Nat
        /\ \A n \in 1 .. Len(evaluations) :
             /\ \E i \in 1 .. Len(digest) : digest[i] = evaluations[n].at
             /\ evaluations[n].at >= period.start
             /\ evaluations[n].rows = R(evaluations[n].at)
             /\ evaluations[n].swaps = S(evaluations[n].at)
        /\ \A i \in 1 .. Len(digest) : digest[i] >= period.start =>
             \E n \in 1 .. Len(evaluations) : evaluations[n].at = digest[i]
    BY DEF Evaluated
  <1>2. R(label) \in SUBSET Int /\ S(label) \in SUBSET Int
    BY DEF Replays!KnownBy
  <1>3. Replays!Known(label) < Replays!Known(period.start) <=> label < period.start
    BY RunAssumption DEF Replays!Known, Period
  <1> HIDE DEF R, S
  <1>4. /\ label < period.start => more = <<>>
        /\ ~(label < period.start) => more = <<[at |-> label, rows |-> R(label), swaps |-> S(label)]>>
    BY <1>3 DEF R, S
  <1>5. [at |-> label, rows |-> R(label), swaps |-> S(label)] \in Evaluation
    BY <1>2 DEF Evaluation
  <1>6. more \in Seq(Evaluation) /\ Len(more) = IF label < period.start THEN 0 ELSE 1
    BY <1>4, <1>5
  <1>7. /\ E \in Seq(Evaluation) /\ Len(E) = Len(evaluations) + Len(more)
        /\ \A i \in 1 .. Len(evaluations) : E[i] = evaluations[i]
        /\ Len(more) = 1 => E[Len(evaluations) + 1] = more[1]
    BY <1>1, <1>6, OneMore
  <1>8. /\ D \in Seq(Int) /\ Len(D) = Len(digest) + 1 /\ Len(digest) \in Nat
        /\ \A i \in 1 .. Len(digest) : D[i] = digest[i]
        /\ D[Len(digest) + 1] = label
    BY OneTickMore
  <1> HIDE DEF D, E
  <1>9. ~(label < period.start) =>
          /\ Len(E) = Len(evaluations) + 1
          /\ E[Len(evaluations) + 1].at = label
          /\ E[Len(evaluations) + 1].rows = R(label) /\ E[Len(evaluations) + 1].swaps = S(label)
    BY <1>4, <1>6, <1>7
  <1>10. ASSUME NEW n \in 1 .. Len(E)
         PROVE  /\ \E i \in 1 .. Len(D) : D[i] = E[n].at
                /\ E[n].at >= period.start
                /\ E[n].rows = R(E[n].at) /\ E[n].swaps = S(E[n].at)
    <2>1. CASE n \in 1 .. Len(evaluations)
      <3>1. E[n] = evaluations[n]
        BY <1>7, <2>1
      <3>2. PICK i \in 1 .. Len(digest) : digest[i] = evaluations[n].at
        BY <1>1, <2>1
      <3>3. i \in 1 .. Len(D) /\ D[i] = E[n].at
        BY <1>8, <3>1, <3>2
      <3>. QED
        BY <1>1, <2>1, <3>1, <3>3
    <2>2. CASE n \notin 1 .. Len(evaluations)
      <3>1. ~(label < period.start) /\ n = Len(evaluations) + 1
        BY <1>1, <1>6, <1>7, <2>2
      <3>2. Len(digest) + 1 \in 1 .. Len(D) /\ D[Len(digest) + 1] = E[n].at
        BY <1>8, <1>9, <3>1
      <3>3. label >= period.start
        BY <3>1 DEF Period
      <3>. QED
        BY <1>9, <3>1, <3>2, <3>3
    <2>. QED
      BY <2>1, <2>2
  <1>11. ASSUME NEW i \in 1 .. Len(D), D[i] >= period.start
         PROVE  \E n \in 1 .. Len(E) : E[n].at = D[i]
    <2>1. CASE i \in 1 .. Len(digest)
      <3>1. PICK n \in 1 .. Len(evaluations) : evaluations[n].at = digest[i]
        BY <1>1, <1>8, <1>11, <2>1
      <3>2. n \in 1 .. Len(E) /\ E[n] = evaluations[n]
        BY <1>1, <1>6, <1>7, <3>1
      <3>. QED
        BY <1>8, <2>1, <3>1, <3>2
    <2>2. CASE i \notin 1 .. Len(digest)
      <3>1. D[i] = label
        BY <1>8, <2>2
      <3>2. ~(label < period.start)
        BY <1>11, <3>1 DEF Period
      <3>3. Len(evaluations) + 1 \in 1 .. Len(E)
        BY <1>1, <1>9, <3>2
      <3>. QED
        BY <1>9, <3>1, <3>2, <3>3
    <2>. QED
      BY <2>1, <2>2
  <1>. QED
    BY <1>7, <1>10, <1>11 DEF Evaluated, D, E, R, S

\* A number divided gives no less than one below it.
LEMMA Quotients ==
  ASSUME NEW d \in Int, NEW a \in Int, NEW b \in Int, NEW x \in Int, NEW y \in Int,
         d * a + x <= d * b + y, d > 0, 0 <= x, y < d
  PROVE  a <= b
  <1> SUFFICES ASSUME a > b
               PROVE  FALSE
    OBVIOUS
  <1>1. PICK c \in Nat : a = b + c + 1
    <2>1. a - b - 1 \in Nat /\ a = b + (a - b - 1) + 1
      OBVIOUS
    <2>. QED
      BY <2>1
  <1>2. PICK f \in Int : f = d * b
    OBVIOUS
  <1>3. PICK g \in Int : g = d * c
    OBVIOUS
  <1>4. g >= 0
    BY <1>3
  <1>5. d * a = f + g + d
    BY <1>1, <1>2, <1>3
  <1>. QED
    BY <1>2, <1>4, <1>5

\* A later time is of a later day, or of the same.
LEMMA DaysInOrder == \A s, t \in Int : s <= t => Replays!Day(s) <= Replays!Day(t)
  <1> SUFFICES ASSUME NEW s \in Int, NEW t \in Int, s <= t
               PROVE  Replays!Day(s) <= Replays!Day(t)
    OBVIOUS
  <1>1. DayLength \in Int /\ DayLength > 0
    BY RunAssumption
  <1>2. PICK p \in Int : p = s \div DayLength
    BY <1>1
  <1>3. PICK q \in Int : q = t \div DayLength
    BY <1>1
  <1>4. PICK r \in Int : r = s % DayLength
    BY <1>1
  <1>5. PICK u \in Int : u = t % DayLength
    BY <1>1
  <1>6. 0 <= r /\ r < DayLength /\ 0 <= u /\ u < DayLength
    BY <1>1, <1>4, <1>5
  <1>7. s = DayLength * p + r /\ t = DayLength * q + u
    BY <1>1, <1>2, <1>3, <1>4, <1>5
  <1>9. p <= q
    BY <1>1, <1>6, <1>7, Quotients
  <1>. QED
    BY <1>2, <1>3, <1>9 DEF Replays!Day

LEMMA DaysAreNumbers == \A t \in Int : Replays!Day(t) \in Int
  BY RunAssumption DEF Replays!Day

LEMMA LaterKnowsMore ==
  \A features \in SUBSET Int : \A s, t \in Int :
    s <= t => Replays!KnownBy(features, Replays!Known(s)) \subseteq Replays!KnownBy(features, Replays!Known(t))
  <1> SUFFICES ASSUME NEW features \in SUBSET Int, NEW s \in Int, NEW t \in Int, s <= t,
                      NEW k \in Replays!KnownBy(features, Replays!Known(s))
               PROVE  k \in Replays!KnownBy(features, Replays!Known(t))
    OBVIOUS
  <1>1. k \in features /\ k \in Int /\ k <= s - Ahead /\ Ahead \in Int
    BY RunAssumption DEF Replays!KnownBy, Replays!Known
  <1>2. k <= t - Ahead
    BY <1>1
  <1>. QED
    BY <1>1, <1>2 DEF Replays!KnownBy, Replays!Known

LEMMA PrintedOn ==
  ASSUME NEW progress, NEW digest \in Seq(Int), NEW features \in SUBSET Int,
         Printed(progress, digest, features), Increasing(digest),
         NEW label \in Int, \A i \in 1 .. Len(digest) : digest[i] < label,
         NEW more,
         more = IF digest # <<>> /\ Replays!Day(digest[Len(digest)]) = Replays!Day(label) THEN <<>>
                ELSE <<[day |-> Replays!Day(label),
                        features |-> Replays!KnownBy(features, Replays!Known(label))]>>
  PROVE  Printed(progress \o more, Append(digest, label), features)
  <1> DEFINE D == Append(digest, label)
             P == progress \o more
             day(t) == Replays!Day(t)
             R(t) == Replays!KnownBy(features, Replays!Known(t))
             same == digest # <<>> /\ day(digest[Len(digest)]) = day(label)
  <1>1. /\ progress \in Seq(Line) /\ Len(progress) \in Nat
        /\ \A j, k \in 1 .. Len(progress) : j < k => progress[j].day < progress[k].day
        /\ \A k \in 1 .. Len(progress) : \E i \in 1 .. Len(digest) : progress[k].day = day(digest[i])
        /\ \A i \in 1 .. Len(digest) : \E k \in 1 .. Len(progress) :
             progress[k].day = day(digest[i]) /\ progress[k].features \subseteq R(digest[i])
    <2>1. progress \in Seq(Line)
      BY DEF Printed
    <2>2. Len(progress) \in Nat
      BY <2>1
    <2>3. \A j, k \in 1 .. Len(progress) : j < k => progress[j].day < progress[k].day
      BY DEF Printed
    <2>4. \A k \in 1 .. Len(progress) : \E i \in 1 .. Len(digest) : progress[k].day = day(digest[i])
      BY DEF Printed
    <2>5. \A i \in 1 .. Len(digest) : \E k \in 1 .. Len(progress) :
             progress[k].day = day(digest[i]) /\ progress[k].features \subseteq R(digest[i])
      BY DEF Printed
    <2>. QED
      BY <2>1, <2>2, <2>3, <2>4, <2>5
  <1>2. /\ \A t \in Int : day(t) \in Int /\ R(t) \in SUBSET Int
        /\ \A s, t \in Int : s <= t => day(s) <= day(t) /\ R(s) \subseteq R(t)
    <2>1. \A t \in Int : R(t) \in SUBSET Int
      BY DEF Replays!KnownBy
    <2>2. \A t \in Int : day(t) \in Int
      BY DaysAreNumbers
    <2>3. \A s, t \in Int : s <= t => day(s) <= day(t)
      BY DaysInOrder
    <2>4. \A s, t \in Int : s <= t => R(s) \subseteq R(t)
      BY LaterKnowsMore
    <2>. QED
      BY <2>1, <2>2, <2>3, <2>4
  <1>3. Len(digest) \in Nat /\ (digest = <<>> <=> Len(digest) = 0) /\ DOMAIN digest = 1 .. Len(digest)
        /\ \A i \in 1 .. Len(digest) : digest[i] \in Int
    OBVIOUS
  <1> HIDE DEF day, R
  <1>4. /\ same => more = <<>>
        /\ ~same => more = <<[day |-> day(label), features |-> R(label)]>>
    BY DEF day, R
  <1> HIDE DEF same
  <1>5. [day |-> day(label), features |-> R(label)] \in Line
    BY <1>2 DEF Line
  <1>6. more \in Seq(Line) /\ Len(more) = IF same THEN 0 ELSE 1
    BY <1>4, <1>5
  <1>7. /\ P \in Seq(Line) /\ Len(P) = Len(progress) + Len(more)
        /\ \A i \in 1 .. Len(progress) : P[i] = progress[i]
        /\ Len(more) = 1 => P[Len(progress) + 1] = more[1]
    BY <1>1, <1>6, OneMore
  <1>8. /\ D \in Seq(Int) /\ Len(D) = Len(digest) + 1 /\ Len(digest) \in Nat
        /\ \A i \in 1 .. Len(digest) : D[i] = digest[i]
        /\ D[Len(digest) + 1] = label
    BY OneTickMore
  <1> HIDE DEF D, P
  <1>9. ~same => /\ Len(P) = Len(progress) + 1
                 /\ P[Len(progress) + 1].day = day(label)
                 /\ P[Len(progress) + 1].features = R(label)
    BY <1>4, <1>6, <1>7
  \* On a new day every line is of an earlier one.
  <1>10. ASSUME ~same, NEW k \in 1 .. Len(progress)
         PROVE  progress[k].day < day(label) /\ progress[k].day \in Int
    <2>1. PICK i \in 1 .. Len(digest) : progress[k].day = day(digest[i])
      BY <1>1
    <2>2. PICK n \in Nat : n = Len(digest)
      BY <1>3
    <2>3. i \in 1 .. n /\ n \in 1 .. n /\ digest # <<>>
      BY <1>3, <2>1, <2>2
    <2>4. digest[i] \in Int /\ digest[n] \in Int /\ digest[n] < label
      BY <1>3, <2>2, <2>3
    <2>5. i < n => digest[i] < digest[n]
      BY <1>3, <2>2, <2>3 DEF Increasing
    <2>6. digest[i] <= digest[n] /\ digest[n] <= label
      <3>1. CASE i < n
        BY <2>4, <2>5, <3>1
      <3>2. CASE ~(i < n)
        <4>1. i = n
          BY <2>3, <3>2
        <4>. QED
          BY <2>4, <4>1
      <3>. QED
        BY <3>1, <3>2
    <2>7. day(digest[i]) <= day(digest[n])
      BY <1>2, <2>4, <2>6
    <2>8. day(digest[n]) <= day(label)
      BY <1>2, <2>4, <2>6
    <2>9. day(digest[n]) # day(label)
      BY <1>10, <2>2, <2>3 DEF same
    <2>10. day(digest[n]) \in Int /\ day(digest[i]) \in Int /\ day(label) \in Int
      BY <1>2, <2>4
    <2>. QED
      BY <2>1, <2>7, <2>8, <2>9, <2>10
  <1>11. ASSUME NEW j \in 1 .. Len(P), NEW k \in 1 .. Len(P), j < k
         PROVE  P[j].day < P[k].day
    <2>1. CASE k \in 1 .. Len(progress)
      <3>1. j \in 1 .. Len(progress)
        BY <1>1, <1>11, <2>1
      <3>. QED
        BY <1>1, <1>7, <1>11, <2>1, <3>1
    <2>2. CASE k \notin 1 .. Len(progress)
      <3>1. ~same /\ k = Len(progress) + 1 /\ j \in 1 .. Len(progress)
        BY <1>1, <1>6, <1>7, <1>11, <2>2
      <3>. QED
        BY <1>7, <1>9, <1>10, <3>1
    <2>. QED
      BY <2>1, <2>2
  <1>12. ASSUME NEW k \in 1 .. Len(P)
         PROVE  \E i \in 1 .. Len(D) : P[k].day = day(D[i])
    <2>1. CASE k \in 1 .. Len(progress)
      <3>1. PICK i \in 1 .. Len(digest) : progress[k].day = day(digest[i])
        BY <1>1, <2>1
      <3>2. i \in 1 .. Len(D) /\ D[i] = digest[i]
        BY <1>8, <3>1
      <3>. QED
        BY <1>7, <2>1, <3>1, <3>2
    <2>2. CASE k \notin 1 .. Len(progress)
      <3>1. ~same /\ k = Len(progress) + 1
        BY <1>1, <1>6, <1>7, <2>2
      <3>2. Len(digest) + 1 \in 1 .. Len(D)
        BY <1>8
      <3>. QED
        BY <1>8, <1>9, <3>1, <3>2
    <2>. QED
      BY <2>1, <2>2
  <1>13. ASSUME NEW i \in 1 .. Len(D)
         PROVE  \E k \in 1 .. Len(P) : P[k].day = day(D[i]) /\ P[k].features \subseteq R(D[i])
    <2>1. CASE i \in 1 .. Len(digest)
      <3>1. PICK k \in 1 .. Len(progress) :
              progress[k].day = day(digest[i]) /\ progress[k].features \subseteq R(digest[i])
        BY <1>1, <2>1
      <3>2. k \in 1 .. Len(P) /\ P[k] = progress[k]
        BY <1>1, <1>6, <1>7, <3>1
      <3>3. D[i] = digest[i]
        BY <1>8, <2>1
      <3>. QED
        BY <3>1, <3>2, <3>3
    <2>2. CASE i \notin 1 .. Len(digest)
      <3>1. D[i] = label
        BY <1>8, <2>2
      <3>2. CASE same
        <4>1. Len(digest) \in 1 .. Len(digest)
          BY <1>3, <3>2 DEF same
        <4>2. PICK k \in 1 .. Len(progress) :
                /\ progress[k].day = day(digest[Len(digest)])
                /\ progress[k].features \subseteq R(digest[Len(digest)])
          BY <1>1, <4>1
        <4>3. k \in 1 .. Len(P) /\ P[k] = progress[k]
          BY <1>1, <1>6, <1>7, <4>2
        <4>4. digest[Len(digest)] \in Int /\ digest[Len(digest)] < label
          BY <1>3, <4>1
        <4>5. digest[Len(digest)] <= label
          BY <4>4
        <4>6. R(digest[Len(digest)]) \subseteq R(label)
          BY <1>2, <4>4, <4>5
        <4>7. day(digest[Len(digest)]) = day(label)
          BY <3>2 DEF same
        <4>. QED
          BY <3>1, <4>2, <4>3, <4>6, <4>7
      <3>3. CASE ~same
        <4>1. Len(progress) + 1 \in 1 .. Len(P)
          BY <1>1, <1>9, <3>3
        <4>. QED
          BY <1>9, <3>1, <3>3, <4>1
      <3>. QED
        BY <3>2, <3>3
    <2>. QED
      BY <2>1, <2>2
  <1>. QED
    BY <1>7, <1>11, <1>12, <1>13 DEF Printed, D, P, day, R

\* As many days as lines, when each line is of a later day.
LEMMA DaysCounted ==
  ASSUME NEW progress \in Seq(Line),
         \A j, k \in 1 .. Len(progress) : j < k => progress[j].day < progress[k].day
  PROVE  Replays!Cardinality({progress[n].day : n \in DOMAIN progress}) = Len(progress)
  <1> DEFINE n == Len(progress)
             days == {progress[k].day : k \in DOMAIN progress}
             f == [k \in 1 .. n |-> progress[k].day]
  <1>1. n \in Nat /\ DOMAIN progress = 1 .. n
    OBVIOUS
  <1>2. ASSUME NEW k \in 1 .. n
        PROVE  progress[k].day \in Int
    <2>1. progress[k] \in Line
      BY <1>1
    <2>. QED
      BY <2>1 DEF Line
  <1>3. f \in Bijection(1 .. n, days)
    <2>1. f \in [1 .. n -> days]
      BY <1>1
    <2>2. \A d \in days : \E k \in 1 .. n : f[k] = d
      BY <1>1
    <2>3. ASSUME NEW j \in 1 .. n, NEW k \in 1 .. n, f[j] = f[k]
          PROVE  j = k
      <3>1. progress[j].day = progress[k].day /\ progress[j].day \in Int
        BY <1>2, <2>3
      <3>2. ~(j < k) /\ ~(k < j)
        BY <1>2, <3>1
      <3>. QED
        BY <1>1, <3>2
    <2> HIDE DEF f, days
    <2>. QED
      BY <2>1, <2>2, <2>3 DEF Bijection, Injection, Surjection, IsInjective
  <1> HIDE DEF f, days, n
  <1>4. ExistsBijection(1 .. n, days)
    BY <1>3 DEF ExistsBijection
  <1>5. Cardinality(days) = n
    BY <1>1, <1>4, FS_CountingElements
  <1>6. Replays!Cardinality(days) = n
    BY <1>5, Zenon DEF Replays!Cardinality, Cardinality
  <1>. QED
    BY <1>6 DEF days, n

\* All of a replay but its last tick.
LEMMA FrontOfAppend ==
  ASSUME NEW digest \in Seq(Int), NEW label \in Int
  PROVE  Replays!Front(Append(digest, label)) = digest
  <1> DEFINE D == Append(digest, label)
             F == SubSeq(D, 1, Len(D) - 1)
  <1>1. D \in Seq(Int) /\ Len(D) = Len(digest) + 1 /\ Len(digest) \in Nat
        /\ \A i \in 1 .. Len(digest) : D[i] = digest[i]
    BY OneTickMore
  <1>2. F \in Seq(Int) /\ Len(F) = Len(digest) /\ \A i \in 1 .. Len(digest) : F[i] = D[i]
    <2> HIDE DEF D
    <2>1. Len(D) - 1 = Len(digest) /\ Len(digest) <= Len(D)
      BY <1>1
    <2>. QED
      BY <1>1, <2>1
  <1> HIDE DEF D, F
  <1>3. Len(F) = Len(digest) /\ \A i \in 1 .. Len(digest) : F[i] = digest[i]
    BY <1>1, <1>2
  <1>4. F = digest
    BY <1>2, <1>3
  <1>. QED
    BY <1>4 DEF F, D, Replays!Front

LEMMA FrontAndLast ==
  ASSUME NEW digest \in Seq(Int), digest # <<>>
  PROVE  Append(Replays!Front(digest), Replays!Last(digest)) = digest
  <1> DEFINE F == SubSeq(digest, 1, Len(digest) - 1)
             n == Len(digest)
             G == Append(F, digest[n])
  <1>1. n \in Nat /\ n > 0 /\ \A i \in 1 .. n : digest[i] \in Int
    OBVIOUS
  <1>2. F \in Seq(Int) /\ Len(F) = n - 1 /\ \A i \in 1 .. n - 1 : F[i] = digest[i]
    <2>1. PICK m \in Nat : m = n - 1 /\ m <= Len(digest)
      <3>1. n - 1 \in Nat /\ n - 1 <= n
        BY <1>1
      <3>. QED
        BY <3>1
    <2>2. SubSeq(digest, 1, m) \in Seq(Int) /\ Len(SubSeq(digest, 1, m)) = m
      BY <2>1
    <2>3. \A i \in 1 .. m : SubSeq(digest, 1, m)[i] = digest[i]
      BY <2>1
    <2>. QED
      BY <2>1, <2>2, <2>3
  <1> HIDE DEF F
  <1>3. digest[n] \in Int
    BY <1>1
  <1>4. /\ G \in Seq(Int) /\ Len(G) = Len(F) + 1
        /\ \A i \in 1 .. Len(F) : G[i] = F[i]
        /\ G[Len(F) + 1] = digest[n]
    BY <1>2, <1>3, OneTickMore
  <1> HIDE DEF G
  <1>5. Len(G) = n /\ \A i \in 1 .. n : G[i] = digest[i]
    <2>1. Len(G) = n
      BY <1>1, <1>2, <1>4
    <2>2. ASSUME NEW i \in 1 .. n
          PROVE  G[i] = digest[i]
      <3>1. CASE i \in 1 .. n - 1
        BY <1>2, <1>4, <3>1
      <3>2. CASE i = n
        BY <1>1, <1>2, <1>4, <3>2
      <3>. QED
        BY <1>1, <3>1, <3>2
    <2>. QED
      BY <2>1, <2>2
  <1>6. G = digest
    BY <1>4, <1>5 DEF n
  <1>. QED
    BY <1>6 DEF G, F, n, Replays!Front, Replays!Last

-----------------------------------------------------------------------------

\* A run that has not opened its stream.
Unopened(r) ==
  /\ r \in Run /\ r.digest = <<>> /\ r.evaluations = <<>> /\ r.progress = <<>>

LEMMA IdleIsRun == Replays!Idle \in Run
  <1>1. Replays!NoPeriod \in Period
    BY DEF Replays!NoPeriod, Period
  <1>2. <<>> \in Seq(Int) /\ <<>> \in Seq(Evaluation) /\ <<>> \in Seq(Line)
    OBVIOUS
  <1>. QED
    BY <1>1, <1>2 DEF Replays!Idle, Run, Stages

LEMMA IdleRuns == \A n \in Nat : /\ Unopened([Replays!Idle EXCEPT !.id = n])
                                 /\ [Replays!Idle EXCEPT !.id = n].pc = "idle"
                                 /\ [Replays!Idle EXCEPT !.id = n].code = 0
  <1> SUFFICES ASSUME NEW n \in Nat
               PROVE  /\ Unopened([Replays!Idle EXCEPT !.id = n])
                      /\ [Replays!Idle EXCEPT !.id = n].pc = "idle"
                      /\ [Replays!Idle EXCEPT !.id = n].code = 0
    OBVIOUS
  <1>3. Replays!Idle \in Run
    BY IdleIsRun
  <1>4. /\ Replays!Idle.digest = <<>> /\ Replays!Idle.evaluations = <<>>
        /\ Replays!Idle.progress = <<>> /\ Replays!Idle.pc = "idle" /\ Replays!Idle.code = 0
    BY DEF Replays!Idle
  <1>. QED
    BY <1>3, <1>4 DEF Unopened, Run

\* A step that changes nothing stored and leaves the process without a stream.
LEMMA QuietStep ==
  ASSUME RunInv, UNCHANGED <<archive, gates, swaps, git, reports>>,
         Unopened(replay'), replay'.pc \notin {"open", "stream", "report"}, replay'.code <= git
  PROVE  RunInv'
  <1>1. RunTypes'
    BY DEF RunInv, RunTypes, Unopened
  <1>2. Revisions'
    BY DEF Revisions
  <1>3. Between'
    BY DEF Between, Unopened
  <1>4. OwnDirectory'
    BY DEF OwnDirectory
  <1>5. RunHonest'
    BY DEF RunInv, RunHonest, Replays!RunHonest
  <1>. QED
    BY <1>1, <1>2, <1>3, <1>4, <1>5 DEF RunInv

LEMMA RefuseStep ==
  ASSUME RunInv, UNCHANGED <<archive, gates, swaps, git, reports>>, Replays!Refuse
  PROVE  RunInv'
  <1>1. replay.id \in Nat /\ git \in Nat
    BY DEF RunInv, RunTypes, Run
  <1>2. Unopened(replay') /\ replay'.pc = "idle" /\ replay'.code = 0
    BY <1>1, IdleRuns DEF Replays!Refuse
  <1>. QED
    BY <1>1, <1>2, QuietStep

\* What is stored changes, the run and its directories do not.
LEMMA WorldStep ==
  ASSUME RunInv, UNCHANGED <<replay, reports>>,
         archive' \subseteq Int, IsFiniteSet(archive'), gates' \subseteq Int, swaps' \subseteq Int,
         git' \in Nat, git <= git'
  PROVE  RunInv'
  <1>1. RunTypes'
    BY DEF RunInv, RunTypes
  <1>2. Revisions'
    <2>1. replay.code \in Nat /\ replay.repro \in Nat /\ git \in Nat
      BY DEF RunInv, RunTypes, Run
    <2>. QED
      BY <2>1 DEF RunInv, Revisions
  <1>3. Between'
    BY DEF RunInv, Between
  <1>4. OwnDirectory'
    BY DEF RunInv, OwnDirectory
  <1>5. RunHonest'
    BY DEF RunInv, RunHonest, Replays!RunHonest
  <1>. QED
    BY <1>1, <1>2, <1>3, <1>4, <1>5 DEF RunInv

LEMMA ChangeSteps ==
  ASSUME RunInv, NEW label \in Labels,
         \/ Replays!StoreTick(label) \/ Replays!DeleteTick(label)
         \/ Replays!StoreRow(Replays!Known(label)) \/ Replays!StoreSwap(Replays!Known(label))
         \/ Replays!Commit
  PROVE  RunInv'
  <1>1. label \in Int /\ Replays!Known(label) \in Int
    BY RunAssumption DEF Replays!Known
  <1>2. /\ archive \subseteq Int /\ IsFiniteSet(archive) /\ gates \subseteq Int /\ swaps \subseteq Int
        /\ git \in Nat
    BY DEF RunInv, RunTypes
  <1>3. UNCHANGED <<replay, reports>>
    BY DEF Replays!StoreTick, Replays!DeleteTick, Replays!StoreRow, Replays!StoreSwap,
           Replays!Commit, Replays!Change
  <1>4. archive' \in {archive, archive \cup {label}, archive \ {label}}
    BY DEF Replays!StoreTick, Replays!DeleteTick, Replays!StoreRow, Replays!StoreSwap, Replays!Commit
  <1>5. archive' \subseteq Int /\ IsFiniteSet(archive')
    BY <1>1, <1>2, <1>4, FS_AddElement, FS_RemoveElement
  <1>6. gates' \subseteq Int
    BY <1>1, <1>2
       DEF Replays!StoreTick, Replays!DeleteTick, Replays!StoreRow, Replays!StoreSwap, Replays!Commit
  <1>7. swaps' \subseteq Int
    BY <1>1, <1>2
       DEF Replays!StoreTick, Replays!DeleteTick, Replays!StoreRow, Replays!StoreSwap, Replays!Commit
  <1>8. git' = git \/ git' = git + 1
    BY DEF Replays!StoreTick, Replays!DeleteTick, Replays!StoreRow, Replays!StoreSwap, Replays!Commit
  <1>9. git' \in Nat /\ git <= git'
    BY <1>2, <1>8
  <1>. QED
    BY <1>3, <1>5, <1>6, <1>7, <1>9, WorldStep

LEMMA StartStep ==
  ASSUME RunInv, NEW period \in Periods, Replays!Start(period)
  PROVE  RunInv'
  <1>1. period \in Period
    BY RunAssumption DEF Period
  <1>2. replay.id + 1 \in Nat /\ git \in Nat
    BY DEF RunInv, RunTypes, Run
  <1> DEFINE r == [Replays!Idle EXCEPT !.pc = "preflight", !.id = replay.id + 1,
                                       !.period = period, !.code = git]
  <1>3. replay' = r /\ UNCHANGED <<archive, gates, swaps, git, reports>>
    BY DEF Replays!Start, Replays!Stays, Replays!world
  <1>4. Replays!Idle \in Run
    BY IdleIsRun
  <1>5. /\ Replays!Idle.digest = <<>> /\ Replays!Idle.evaluations = <<>> /\ Replays!Idle.progress = <<>>
    BY DEF Replays!Idle
  <1>6. r \in Run
    BY <1>1, <1>2, <1>4 DEF Run, Stages
  <1>7. r.digest = <<>> /\ r.evaluations = <<>> /\ r.progress = <<>> /\ r.pc = "preflight" /\ r.code = git
    BY <1>4, <1>5 DEF Run
  <1> HIDE DEF r
  <1>. QED
    BY <1>2, <1>3, <1>6, <1>7, QuietStep DEF Unopened

LEMMA EarlySteps ==
  ASSUME RunInv, Replays!Preflight \/ Replays!Freeze \/ Replays!LoadSwaps
  PROVE  RunInv'
  <1>1. UNCHANGED <<archive, gates, swaps, git, reports>>
    BY DEF Replays!Preflight, Replays!Freeze, Replays!LoadSwaps, Replays!Stays, Replays!world
  <1>2. replay.pc \in {"preflight", "freeze", "load"}
    BY DEF Replays!Preflight, Replays!Freeze, Replays!LoadSwaps
  <1>3. /\ Unopened(replay) /\ replay.code <= git /\ replay \in Run
        /\ gates \subseteq Int /\ swaps \subseteq Int
    BY <1>2 DEF RunInv, RunTypes, Between, Revisions, Unopened
  <1>4. \A known : /\ Replays!KnownBy(gates, known) \subseteq Int
                   /\ Replays!KnownBy(swaps, known) \subseteq Int
    BY <1>3 DEF Replays!KnownBy
  <1>5. CASE Replays!Refuse
    BY <1>1, <1>5, RefuseStep
  <1>6. CASE replay' = [replay EXCEPT !.pc = "freeze"]
    <2>1. Unopened(replay') /\ replay'.pc = "freeze" /\ replay'.code = replay.code
      BY <1>3, <1>6 DEF Unopened, Run, Stages
    <2>. QED
      BY <1>1, <1>3, <2>1, QuietStep
  <1>7. CASE replay' = [replay EXCEPT !.pc = "load",
                                      !.features = Replays!KnownBy(gates, Replays!Known(replay.period.end))]
    <2>1. Unopened(replay') /\ replay'.pc = "load" /\ replay'.code = replay.code
      BY <1>3, <1>4, <1>7 DEF Unopened, Run, Stages
    <2>. QED
      BY <1>1, <1>3, <2>1, QuietStep
  <1>8. CASE replay' = [replay EXCEPT !.pc = "capture",
                                      !.swaps = Replays!KnownBy(swaps, Replays!Known(replay.period.end))]
    <2>1. Unopened(replay') /\ replay'.pc = "capture" /\ replay'.code = replay.code
      BY <1>3, <1>4, <1>8 DEF Unopened, Run, Stages
    <2>. QED
      BY <1>1, <1>3, <2>1, QuietStep
  <1>. QED
    BY <1>5, <1>6, <1>7, <1>8 DEF Replays!Preflight, Replays!Freeze, Replays!LoadSwaps

LEMMA CaptureStep ==
  ASSUME RunInv, Replays!Capture
  PROVE  RunInv'
  <1> DEFINE new == [run |-> replay.id, candles |-> <<>>, manifest |-> <<>>,
                     report |-> FALSE, made |-> Replays!Idle]
             n == Len(reports)
  <1>1. /\ UNCHANGED <<archive, gates, swaps, git>> /\ replay.pc = "capture"
        /\ replay' = [replay EXCEPT !.pc = "open", !.repro = git]
        /\ reports' = Append(reports, new)
    BY DEF Replays!Capture, Replays!world
  <1>2. /\ replay \in Run /\ reports \in Seq(Directory) /\ git \in Nat
        /\ replay.code <= git /\ Unopened(replay)
    BY <1>1 DEF RunInv, RunTypes, Between, Revisions, Unopened
  <1>3. /\ Unopened(replay') /\ replay'.pc = "open" /\ replay'.code = replay.code
        /\ replay'.repro = git
    BY <1>1, <1>2 DEF Unopened, Run, Stages
  <1>4. new \in Directory /\ new.manifest = <<>> /\ ~new.report /\ new.candles = <<>>
    <2>1. <<>> \in Seq(Int) /\ <<>> \in Seq(Manifest) /\ replay.id \in Nat
      BY <1>2 DEF Run
    <2>. QED
      BY <2>1, IdleIsRun DEF Directory
  <1> HIDE DEF new
  <1>5. /\ reports' \in Seq(Directory) /\ Len(reports') = n + 1 /\ n \in Nat
        /\ \A i \in 1 .. n : reports'[i] = reports[i]
        /\ reports'[n + 1] = new /\ DOMAIN reports = 1 .. n /\ DOMAIN reports' = 1 .. n + 1
    BY <1>1, <1>2, <1>4
  <1> HIDE DEF n
  <1>6. RunTypes'
    BY <1>1, <1>3, <1>5 DEF RunInv, RunTypes, Unopened
  <1>7. Revisions'
    BY <1>1, <1>2, <1>3 DEF Revisions
  <1>8. Between'
    BY <1>3 DEF Between, Unopened
  <1>9. OwnDirectory'
    BY <1>3, <1>4, <1>5 DEF OwnDirectory, Unopened
  <1>10. RunHonest'
    <2>1. ASSUME NEW i \in 1 .. n + 1
          PROVE  Replays!Honest(reports'[i])
      <3>1. CASE i \in 1 .. n
        BY <1>5, <3>1 DEF RunInv, RunHonest, Replays!RunHonest
      <3>2. CASE i \notin 1 .. n
        <4>1. reports'[i] = new
          BY <1>5, <3>2
        <4>. QED
          BY <1>4, <4>1 DEF Replays!Honest
      <3>. QED
        BY <3>1, <3>2
    <2>. QED
      BY <1>5, <2>1 DEF RunHonest, Replays!RunHonest
  <1>. QED
    BY <1>6, <1>7, <1>8, <1>9, <1>10 DEF RunInv

LEMMA OpenStreamStep ==
  ASSUME RunInv, Replays!OpenStream
  PROVE  RunInv'
  <1>1. /\ UNCHANGED <<archive, gates, swaps, git, reports>> /\ replay.pc = "open"
        /\ replay' = [replay EXCEPT !.pc = "stream", !.pinned = Replays!Read(replay.period),
                                    !.opened = git]
    BY DEF Replays!OpenStream, Replays!Stays, Replays!world
  <1>2. /\ replay \in Run /\ git \in Nat /\ replay.period \in Period
        /\ replay.code <= replay.repro /\ replay.repro <= git /\ Unopened(replay)
    BY <1>1 DEF RunInv, RunTypes, Between, Revisions, Unopened, Run
  <1>3. Pinned(Replays!Read(replay.period), replay.period)
    BY <1>2, ReadsArePinned DEF RunInv
  <1>4. Replays!Read(replay.period) \in Seq(Int)
    BY <1>3 DEF Pinned
  <1>5. /\ replay' \in Run /\ replay'.pc = "stream" /\ replay'.code = replay.code
        /\ replay'.repro = replay.repro /\ replay'.opened = git /\ replay'.period = replay.period
        /\ replay'.digest = <<>> /\ replay'.evaluations = <<>> /\ replay'.progress = <<>>
        /\ replay'.pinned = Replays!Read(replay.period)
    BY <1>1, <1>2, <1>4 DEF Unopened, Run, Stages
  <1>6. RunTypes'
    BY <1>1, <1>5 DEF RunInv, RunTypes
  <1>7. Revisions'
    <2>1. replay.code <= git
      BY DEF RunInv, Revisions
    <2>. QED
      BY <1>1, <1>2, <1>5, <2>1 DEF Revisions
  <1>8. Between'
    <2>1. Replayed(<<>>, Replays!Read(replay.period))
      BY <1>4 DEF Replayed
    <2>2. \A p, f, s : Evaluated(<<>>, <<>>, p, f, s)
      BY DEF Evaluated
    <2>3. \A f : Printed(<<>>, <<>>, f)
      BY DEF Printed
    <2>. QED
      BY <1>3, <1>5, <2>1, <2>2, <2>3 DEF Between
  <1>9. OwnDirectory'
    BY <1>1, <1>2, <1>5 DEF RunInv, OwnDirectory, Unopened
  <1>10. RunHonest'
    BY <1>1 DEF RunInv, RunHonest, Replays!RunHonest
  <1>. QED
    BY <1>6, <1>7, <1>8, <1>9, <1>10 DEF RunInv

\* The directory of the run that goes on is written, the others stay.
LEMMA OwnWritten ==
  ASSUME NEW directories \in Seq(Directory), Len(directories) > 0, NEW d \in Directory,
         Replays!Honest(d), \A i \in DOMAIN directories : Replays!Honest(directories[i])
  PROVE  LET written == [directories EXCEPT ![Len(directories)] = d]
         IN /\ written \in Seq(Directory) /\ Len(written) = Len(directories)
            /\ written[Len(directories)] = d
            /\ \A i \in DOMAIN written : Replays!Honest(written[i])
  <1> DEFINE n == Len(directories)
             written == [directories EXCEPT ![Len(directories)] = d]
  <1>1. n \in Nat /\ n \in 1 .. n /\ DOMAIN directories = 1 .. n
    OBVIOUS
  <1>2. /\ written \in Seq(Directory) /\ Len(written) = n /\ DOMAIN written = 1 .. n
        /\ written[n] = d
        /\ \A i \in 1 .. n : i # n => written[i] = directories[i]
    <2>1. written = [i \in 1 .. n |-> IF i = n THEN d ELSE directories[i]]
      BY <1>1
    <2>2. \A i \in 1 .. n : directories[i] \in Directory
      OBVIOUS
    <2> HIDE DEF written, n
    <2>3. written \in [1 .. n -> Directory]
      BY <2>1, <2>2
    <2>4. written \in Seq(Directory) /\ Len(written) = n
      BY <1>1, <2>3
    <2>. QED
      BY <1>1, <2>1, <2>4
  <1> HIDE DEF written
  <1>3. ASSUME NEW i \in 1 .. n
        PROVE  Replays!Honest(written[i])
    <2>1. CASE i = n
      BY <1>2, <2>1
    <2>2. CASE i # n
      <3>1. written[i] = directories[i]
        BY <1>2, <2>2
      <3>. QED
        BY <1>1, <3>1
    <2>. QED
      BY <2>1, <2>2
  <1>. QED
    BY <1>2, <1>3 DEF written, n

LEMMA StreamTickStep ==
  ASSUME RunInv, Replays!StreamTick
  PROVE  RunInv'
  <1> DEFINE n == Len(replay.digest)
             own == Len(reports)
             tick == replay.pinned[n + 1]
             told == Replays!Evaluation(tick)
             lines == Replays!Line(replay.digest, tick)
             dir == [reports[own] EXCEPT !.candles = Append(reports[own].candles, Replays!Last(replay.digest))]
  <1>1. /\ UNCHANGED <<archive, gates, swaps, git>> /\ replay.pc = "stream"
        /\ n < Len(replay.pinned)
        /\ \/ Replays!Refuse /\ UNCHANGED reports
           \/ /\ replay' = [replay EXCEPT !.digest = Append(@, tick), !.evaluations = @ \o told,
                                          !.progress = @ \o lines]
              /\ reports' = IF replay.digest = <<>> THEN reports
                            ELSE [reports EXCEPT ![own].candles = Append(@, Replays!Last(replay.digest))]
    BY DEF Replays!StreamTick, Replays!world, Replays!Own
  <1>2. CASE Replays!Refuse /\ UNCHANGED reports
    BY <1>1, <1>2, RefuseStep
  <1>3. CASE ~(Replays!Refuse /\ UNCHANGED reports)
    <2>1. /\ replay \in Run /\ replay.period \in Period /\ replay.features \in SUBSET Int
          /\ replay.swaps \in SUBSET Int /\ replay.pinned \in Seq(Int) /\ replay.digest \in Seq(Int)
          /\ replay.evaluations \in Seq(Evaluation) /\ replay.progress \in Seq(Line)
      BY DEF RunInv, RunTypes, Run
    <2>2. /\ Pinned(replay.pinned, replay.period) /\ Replayed(replay.digest, replay.pinned)
          /\ Evaluated(replay.evaluations, replay.digest, replay.period, replay.features, replay.swaps)
          /\ Printed(replay.progress, replay.digest, replay.features)
      BY <1>1 DEF RunInv, Between
    <2>3. /\ n \in Nat /\ n + 1 \in 1 .. Len(replay.pinned) /\ tick \in Int
          /\ \A i \in 1 .. n : replay.digest[i] = replay.pinned[i] /\ i \in DOMAIN replay.pinned
          /\ n + 1 \in DOMAIN replay.pinned /\ DOMAIN replay.digest = 1 .. n
      BY <1>1, <2>1, <2>2 DEF Replayed
    <2>4. \A i \in 1 .. n : replay.digest[i] < tick
      BY <2>2, <2>3 DEF Pinned, Increasing
    <2>5. Increasing(replay.digest)
      BY <2>2, <2>3 DEF Pinned, Increasing
    <2>6. Replayed(Append(replay.digest, tick), replay.pinned)
      <3>1. /\ Append(replay.digest, tick) \in Seq(Int) /\ Len(Append(replay.digest, tick)) = n + 1
            /\ \A i \in 1 .. n : Append(replay.digest, tick)[i] = replay.digest[i]
            /\ Append(replay.digest, tick)[n + 1] = tick
        BY <2>1, <2>3, OneTickMore
      <3>. QED
        BY <1>1, <2>2, <2>3, <3>1 DEF Replayed
    <2>7. Evaluated(replay.evaluations \o told, Append(replay.digest, tick), replay.period,
                    replay.features, replay.swaps)
      <3>1. told = IF Replays!Known(tick) < Replays!Known(replay.period.start) THEN <<>>
                   ELSE <<[at |-> tick, rows |-> Replays!KnownBy(replay.features, Replays!Known(tick)),
                           swaps |-> Replays!KnownBy(replay.swaps, Replays!Known(tick))]>>
        BY DEF Replays!Evaluation
      <3> HIDE DEF told, tick
      <3>. QED
        BY <2>1, <2>2, <2>3, <3>1, EvaluatedOn
    <2>8. Printed(replay.progress \o lines, Append(replay.digest, tick), replay.features)
      <3>1. lines = IF replay.digest # <<>> /\ Replays!Day(replay.digest[Len(replay.digest)]) = Replays!Day(tick)
                    THEN <<>>
                    ELSE <<[day |-> Replays!Day(tick),
                            features |-> Replays!KnownBy(replay.features, Replays!Known(tick))]>>
        BY DEF Replays!Line, Replays!Last
      <3> HIDE DEF lines, tick
      <3>. QED
        BY <2>1, <2>2, <2>3, <2>4, <2>5, <3>1, PrintedOn
    <2>9. /\ Append(replay.digest, tick) \in Seq(Int) /\ replay.evaluations \o told \in Seq(Evaluation)
          /\ replay.progress \o lines \in Seq(Line)
      BY <2>6, <2>7, <2>8 DEF Replayed, Evaluated, Printed
    <2> HIDE DEF told, lines, tick
    <2>10. replay' = [replay EXCEPT !.digest = Append(replay.digest, tick),
                                    !.evaluations = replay.evaluations \o told,
                                    !.progress = replay.progress \o lines]
      BY <1>1, <1>3
    <2>11. /\ replay' \in Run /\ replay'.pc = "stream" /\ replay'.code = replay.code
           /\ replay'.repro = replay.repro /\ replay'.opened = replay.opened
           /\ replay'.period = replay.period /\ replay'.pinned = replay.pinned
           /\ replay'.features = replay.features /\ replay'.swaps = replay.swaps
           /\ replay'.digest = Append(replay.digest, tick)
           /\ replay'.evaluations = replay.evaluations \o told
           /\ replay'.progress = replay.progress \o lines
      <3> DEFINE dg == Append(replay.digest, tick)
                 ev == replay.evaluations \o told
                 pr == replay.progress \o lines
      <3> HIDE DEF dg, ev, pr
      <3>1. dg \in Seq(Int) /\ ev \in Seq(Evaluation) /\ pr \in Seq(Line)
        BY <2>9 DEF dg, ev, pr
      <3>2. replay' = [replay EXCEPT !.digest = dg, !.evaluations = ev, !.progress = pr]
        BY <2>10 DEF dg, ev, pr
      <3>3. replay' \in Run
        BY <2>1, <3>1, <3>2 DEF Run
      <3>. QED
        BY <1>1, <2>1, <3>2, <3>3 DEF Run, dg, ev, pr
    <2>12. /\ reports \in Seq(Directory) /\ own > 0 /\ own \in Nat /\ reports[own] \in Directory
           /\ reports[own].manifest = <<>> /\ ~reports[own].report
           /\ reports[own].candles = IF replay.digest = <<>> THEN <<>> ELSE Replays!Front(replay.digest)
           /\ \A i \in DOMAIN reports : Replays!Honest(reports[i])
      BY <1>1 DEF RunInv, RunTypes, OwnDirectory, RunHonest, Replays!RunHonest
    <2>13. /\ reports' \in Seq(Directory) /\ Len(reports') = own
           /\ reports'[own].manifest = <<>> /\ ~reports'[own].report
           /\ reports'[own].candles = replay.digest
           /\ \A i \in DOMAIN reports' : Replays!Honest(reports'[i])
      <3>1. CASE replay.digest = <<>>
        BY <1>1, <1>3, <2>12, <3>1
      <3>2. CASE replay.digest # <<>>
        <4>1. Append(reports[own].candles, Replays!Last(replay.digest)) = replay.digest
          BY <2>1, <2>12, <3>2, FrontAndLast
        <4>2. dir = [reports[own] EXCEPT !.candles = replay.digest]
          BY <4>1
        <4>3. /\ dir \in Directory /\ dir.manifest = <<>> /\ ~dir.report /\ dir.candles = replay.digest
          BY <2>1, <2>12, <4>2 DEF Directory
        <4>4. Replays!Honest(dir)
          BY <4>3 DEF Replays!Honest
        <4>5. reports' = [reports EXCEPT ![own] = dir]
          BY <1>1, <1>3, <3>2
        <4> HIDE DEF dir
        <4>6. /\ reports' \in Seq(Directory) /\ Len(reports') = own /\ reports'[own] = dir
              /\ \A i \in DOMAIN reports' : Replays!Honest(reports'[i])
          BY <2>12, <4>3, <4>4, <4>5, OwnWritten
        <4>. QED
          BY <4>3, <4>6
      <3>. QED
        BY <3>1, <3>2
    <2>14. RunTypes'
      BY <1>1, <2>11, <2>13 DEF RunInv, RunTypes
    <2>15. Revisions'
      BY <1>1, <2>11 DEF RunInv, Revisions
    <2>16. Between'
      BY <2>2, <2>6, <2>7, <2>8, <2>11 DEF Between
    <2>17. OwnDirectory'
      <3>1. Append(replay.digest, tick) # <<>>
        BY <2>1, <2>3, OneTickMore
      <3>2. Replays!Front(Append(replay.digest, tick)) = replay.digest
        BY <2>1, <2>3, FrontOfAppend
      <3>. QED
        BY <2>11, <2>12, <2>13, <3>1, <3>2 DEF OwnDirectory
    <2>18. RunHonest'
      BY <2>13 DEF RunHonest, Replays!RunHonest
    <2>. QED
      BY <2>14, <2>15, <2>16, <2>17, <2>18 DEF RunInv
  <1>. QED
    BY <1>2, <1>3

LEMMA SameTicks ==
  ASSUME NEW s \in Seq(Int), NEW t \in Seq(Int), Len(s) = Len(t), \A i \in 1 .. Len(s) : s[i] = t[i]
  PROVE  s = t
  OBVIOUS

\* What is written down when the stream has come to its end is the truth.
LEMMA FinishedTruthful ==
  ASSUME RunInv, replay.pc = "stream", Len(replay.digest) = Len(replay.pinned),
         Replays!Covered(replay.digest, replay.period), NEW m,
         m.git = replay.repro, m.ticks = replay.digest, m.rows = replay.features,
         m.swaps = replay.swaps, m.period = replay.period
  PROVE  Replays!Truthful(m, Replays!Front(replay.digest), replay)
  <1> DEFINE read == replay.digest
             evaluated == replay.evaluations
             printed == replay.progress
             n == Len(read)
             from == replay.period.start
             until == replay.period.end
             lead == from - replay.period.warmup
  <1>1. /\ replay \in Run /\ replay.period \in Period /\ read \in Seq(Int) /\ replay.pinned \in Seq(Int)
        /\ evaluated \in Seq(Evaluation) /\ printed \in Seq(Line) /\ n \in Nat
        /\ DOMAIN read = 1 .. n /\ DOMAIN evaluated = 1 .. Len(evaluated)
        /\ DOMAIN printed = 1 .. Len(printed)
    BY DEF RunInv, RunTypes, Run
  <1>2. from \in Int /\ until \in Int /\ replay.period.warmup \in Nat /\ lead \in Int
    BY <1>1 DEF Period
  <1>3. /\ Pinned(replay.pinned, replay.period) /\ Replayed(read, replay.pinned)
        /\ Evaluated(evaluated, read, replay.period, replay.features, replay.swaps)
        /\ Printed(printed, read, replay.features)
    BY DEF RunInv, Between
  <1>4. read = replay.pinned
    <2>1. \A i \in 1 .. Len(read) : read[i] = replay.pinned[i]
      BY <1>3 DEF Replayed
    <2>. QED
      BY <1>1, <2>1, SameTicks
  <1>5. /\ \A i \in 1 .. n : lead <= read[i] /\ read[i] < until /\ read[i] \in Int
        /\ \A i, j \in 1 .. n : i < j => read[i] < read[j]
    BY <1>1, <1>3, <1>4 DEF Pinned, Increasing
  <1>6. /\ n > 0 /\ read # <<>> /\ read[n] >= from
        /\ Replays!OpenMarket(lead, read[1]) <= Tolerance
        /\ Replays!OpenMarket(Replays!Last(read), until) <= Tolerance
    <2>1. read # <<>> /\ Replays!Last(read) >= from
      BY DEF Replays!Covered
    <2>2. n > 0
      BY <1>1, <2>1
    <2>. QED
      BY <2>1, <2>2 DEF Replays!Covered, Replays!HeadCovered, Replays!Last
  <1>7. /\ \A k \in 1 .. Len(evaluated) :
             /\ \E i \in 1 .. n : read[i] = evaluated[k].at
             /\ evaluated[k].at >= from
             /\ evaluated[k].rows = Replays!KnownBy(replay.features, Replays!Known(evaluated[k].at))
             /\ evaluated[k].swaps = Replays!KnownBy(replay.swaps, Replays!Known(evaluated[k].at))
        /\ \A i \in 1 .. n : read[i] >= from => \E k \in 1 .. Len(evaluated) : evaluated[k].at = read[i]
    BY <1>3 DEF Evaluated
  <1>8. {evaluated[k].at : k \in DOMAIN evaluated} = {read[i] : i \in DOMAIN read} \cap from .. until - 1
    <2>1. ASSUME NEW k \in 1 .. Len(evaluated)
          PROVE  evaluated[k].at \in {read[i] : i \in 1 .. n} \cap from .. until - 1
      <3>1. PICK i \in 1 .. n : read[i] = evaluated[k].at
        BY <1>7
      <3>2. evaluated[k].at >= from /\ evaluated[k].at \in Int /\ evaluated[k].at < until
        BY <1>5, <1>7, <3>1
      <3>3. evaluated[k].at \in from .. until - 1
        BY <1>2, <3>2
      <3>4. evaluated[k].at \in {read[j] : j \in 1 .. n}
        BY <3>1
      <3>. QED
        BY <3>3, <3>4
    <2>2. ASSUME NEW i \in 1 .. n, read[i] \in from .. until - 1
          PROVE  read[i] \in {evaluated[k].at : k \in 1 .. Len(evaluated)}
      <3>1. read[i] >= from
        BY <1>2, <2>2
      <3>2. PICK k \in 1 .. Len(evaluated) : evaluated[k].at = read[i]
        BY <1>7, <3>1
      <3>. QED
        BY <3>2
    <2> HIDE DEF read, evaluated, from, until
    <2>. QED
      BY <1>1, <2>1, <2>2
  <1>9. evaluated # <<>>
    <2>1. n \in 1 .. n
      BY <1>1, <1>6
    <2>2. PICK k \in 1 .. Len(evaluated) : evaluated[k].at = read[n]
      BY <1>6, <1>7, <2>1
    <2>. QED
      BY <1>1, <2>2
  <1>10. \A k \in DOMAIN evaluated :
           /\ evaluated[k].rows = {x \in replay.features : x <= Replays!Known(evaluated[k].at)}
           /\ evaluated[k].swaps = {x \in replay.swaps : x <= Replays!Known(evaluated[k].at)}
    BY <1>1, <1>7 DEF Replays!KnownBy
  <1>11. replay.repro \in replay.code .. replay.opened
    BY <1>1 DEF RunInv, Revisions, Run
  <1>12. /\ \A j, k \in 1 .. Len(printed) : j < k => printed[j].day < printed[k].day
         /\ \A i \in 1 .. n : \E k \in 1 .. Len(printed) :
              /\ printed[k].day = Replays!Day(read[i])
              /\ printed[k].features \subseteq Replays!KnownBy(replay.features, Replays!Known(read[i]))
    BY <1>3 DEF Printed
  <1>13. Replays!Cardinality({printed[k].day : k \in DOMAIN printed}) = Len(printed)
    BY <1>1, <1>12, DaysCounted
  <1>14. ASSUME NEW k \in DOMAIN evaluated
         PROVE  \E j \in DOMAIN printed : /\ printed[j].day = Replays!Day(evaluated[k].at)
                                          /\ printed[j].features \subseteq evaluated[k].rows
    <2>1. PICK i \in 1 .. n : read[i] = evaluated[k].at
      BY <1>1, <1>7
    <2>2. PICK j \in 1 .. Len(printed) :
            /\ printed[j].day = Replays!Day(read[i])
            /\ printed[j].features \subseteq Replays!KnownBy(replay.features, Replays!Known(read[i]))
      BY <1>12
    <2>3. evaluated[k].rows = Replays!KnownBy(replay.features, Replays!Known(evaluated[k].at))
      BY <1>1, <1>7
    <2>. QED
      BY <1>1, <2>1, <2>2, <2>3
  <1>15. ASSUME NEW i \in 1 .. n - 1
         PROVE  read[i] < read[i + 1]
    <2>1. i \in 1 .. n /\ i + 1 \in 1 .. n /\ i < i + 1
      BY <1>1
    <2>. QED
      BY <1>5, <2>1
  <1> HIDE DEF read, evaluated, printed
  <1>. QED
    BY <1>4, <1>6, <1>8, <1>9, <1>10, <1>11, <1>13, <1>14, <1>15, Zenon
       DEF Replays!Truthful, read, evaluated, printed, n, from, until, lead

LEMMA FinishStep ==
  ASSUME RunInv, Replays!Finish
  PROVE  RunInv'
  <1> DEFINE own == Len(reports)
             m == [git |-> replay.repro, ticks |-> replay.digest, rows |-> replay.features,
                   swaps |-> replay.swaps, period |-> replay.period]
             dir == [reports[own] EXCEPT !.manifest = <<m>>, !.made = replay]
  <1>1. /\ UNCHANGED <<archive, gates, swaps, git>> /\ replay.pc = "stream"
        /\ Len(replay.digest) = Len(replay.pinned)
        /\ \/ Replays!Refuse /\ UNCHANGED reports
           \/ /\ Replays!Covered(replay.digest, replay.period)
              /\ replay' = [replay EXCEPT !.pc = "report"]
              /\ reports' = [reports EXCEPT ![own].manifest = <<m>>, ![own].made = replay]
    BY DEF Replays!Finish, Replays!world, Replays!Own, Replays!Accepted
  <1>2. CASE Replays!Refuse /\ UNCHANGED reports
    BY <1>1, <1>2, RefuseStep
  <1>3. CASE ~(Replays!Refuse /\ UNCHANGED reports)
    <2>1. /\ replay \in Run /\ replay.repro \in Nat /\ replay.digest \in Seq(Int)
          /\ replay.features \subseteq Int /\ replay.swaps \subseteq Int /\ replay.period \in Period
      BY DEF RunInv, RunTypes, Run
    <2>2. m \in Manifest
      BY <2>1 DEF Manifest
    <2>3. /\ replay' \in Run /\ replay'.pc = "report" /\ replay'.code = replay.code
          /\ replay'.repro = replay.repro /\ replay'.opened = replay.opened
          /\ replay'.period = replay.period /\ replay'.pinned = replay.pinned
          /\ replay'.features = replay.features /\ replay'.swaps = replay.swaps
          /\ replay'.digest = replay.digest /\ replay'.evaluations = replay.evaluations
          /\ replay'.progress = replay.progress
      <3>1. replay' = [replay EXCEPT !.pc = "report"]
        BY <1>1, <1>3
      <3>. QED
        BY <2>1, <3>1 DEF Run, Stages
    <2>4. /\ reports \in Seq(Directory) /\ own > 0 /\ own \in Nat /\ reports[own] \in Directory
          /\ ~reports[own].report
          /\ reports[own].candles = IF replay.digest = <<>> THEN <<>> ELSE Replays!Front(replay.digest)
          /\ \A i \in DOMAIN reports : Replays!Honest(reports[i])
      BY <1>1 DEF RunInv, RunTypes, OwnDirectory, RunHonest, Replays!RunHonest
    <2>5. replay.digest # <<>>
      BY <1>1, <1>3 DEF Replays!Covered
    <2>6. /\ dir \in Directory /\ dir.manifest = <<m>> /\ ~dir.report /\ dir.made = replay
          /\ dir.candles = Replays!Front(replay.digest)
      <3> HIDE DEF m
      <3>1. <<m>> \in Seq(Manifest)
        BY <2>2
      <3>. QED
        BY <2>1, <2>4, <2>5, <3>1 DEF Directory
    <2>7. /\ m.git = replay.repro /\ m.ticks = replay.digest /\ m.rows = replay.features
          /\ m.swaps = replay.swaps /\ m.period = replay.period
      OBVIOUS
    <2>8. reports' = [reports EXCEPT ![own] = dir]
      BY <1>1, <1>3, <2>4
    <2> HIDE DEF dir, m
    <2>9. Replays!Honest(dir)
      <3>1. Replays!Truthful(m, Replays!Front(replay.digest), replay)
        BY <1>1, <1>3, <2>7, FinishedTruthful
      <3>2. dir.manifest[1] = m
        BY <2>6
      <3>. QED
        BY <2>6, <3>1, <3>2 DEF Replays!Honest
    <2>10. /\ reports' \in Seq(Directory) /\ Len(reports') = own /\ reports'[own] = dir
           /\ \A i \in DOMAIN reports' : Replays!Honest(reports'[i])
      BY <2>4, <2>6, <2>8, <2>9, OwnWritten
    <2>11. RunTypes'
      BY <1>1, <2>3, <2>10 DEF RunInv, RunTypes
    <2>12. Revisions'
      BY <1>1, <2>3 DEF RunInv, Revisions
    <2>13. Between'
      BY <1>1, <2>3 DEF RunInv, Between
    <2>14. OwnDirectory'
      <3>1. dir.manifest # <<>>
        BY <2>6
      <3>. QED
        BY <2>3, <2>4, <2>10, <3>1 DEF OwnDirectory
    <2>15. RunHonest'
      BY <2>10 DEF RunHonest, Replays!RunHonest
    <2>. QED
      BY <2>11, <2>12, <2>13, <2>14, <2>15 DEF RunInv
  <1>. QED
    BY <1>2, <1>3

LEMMA WriteReportStep ==
  ASSUME RunInv, Replays!WriteReport
  PROVE  RunInv'
  <1> DEFINE own == Len(reports)
             dir == [reports[own] EXCEPT !.report = TRUE]
  <1>1. /\ UNCHANGED <<archive, gates, swaps, git>> /\ replay.pc = "report" /\ Replays!Refuse
        /\ reports' = [reports EXCEPT ![own].report = TRUE]
    BY DEF Replays!WriteReport, Replays!world, Replays!Own
  <1>2. /\ reports \in Seq(Directory) /\ own > 0 /\ own \in Nat /\ own \in DOMAIN reports
        /\ reports[own] \in Directory /\ reports[own].manifest # <<>>
        /\ \A i \in DOMAIN reports : Replays!Honest(reports[i])
    BY <1>1 DEF RunInv, RunTypes, OwnDirectory, RunHonest, Replays!RunHonest
  <1>3. /\ dir \in Directory /\ dir.manifest = reports[own].manifest /\ dir.made = reports[own].made
        /\ dir.candles = reports[own].candles /\ dir.report
    BY <1>2 DEF Directory
  <1>4. reports' = [reports EXCEPT ![own] = dir]
    BY <1>1, <1>2
  <1> HIDE DEF dir
  <1>5. Replays!Honest(dir)
    BY <1>2, <1>3 DEF Replays!Honest
  <1>6. /\ reports' \in Seq(Directory)
        /\ \A i \in DOMAIN reports' : Replays!Honest(reports'[i])
    BY <1>2, <1>3, <1>4, <1>5, OwnWritten
  <1>7. replay.id \in Nat /\ git \in Nat
    BY DEF RunInv, RunTypes, Run
  <1>8. Unopened(replay') /\ replay'.pc = "idle" /\ replay'.code = 0
    BY <1>1, <1>7, IdleRuns DEF Replays!Refuse
  <1>9. RunTypes'
    BY <1>1, <1>6, <1>8 DEF RunInv, RunTypes, Unopened
  <1>10. Revisions' /\ Between' /\ OwnDirectory'
    BY <1>1, <1>7, <1>8 DEF Revisions, Between, OwnDirectory, Unopened
  <1>11. RunHonest'
    BY <1>6 DEF RunHonest, Replays!RunHonest
  <1>. QED
    BY <1>9, <1>10, <1>11 DEF RunInv

LEMMA RunInitInv == Replays!Init => RunInv
  <1> SUFFICES ASSUME Replays!Init
               PROVE  RunInv
    OBVIOUS
  <1>1. /\ archive \in Archives /\ gates = {} /\ swaps = {} /\ git = 0
        /\ replay = Replays!Idle /\ reports = <<>>
    BY DEF Replays!Init
  <1>2. /\ replay \in Run /\ replay.digest = <<>> /\ replay.evaluations = <<>>
        /\ replay.progress = <<>> /\ replay.pc = "idle" /\ replay.code = 0
    BY <1>1, IdleIsRun DEF Replays!Idle
  <1>3. RunTypes
    BY <1>1, <1>2, RunAssumption DEF RunTypes
  <1>4. Revisions /\ Between /\ OwnDirectory
    BY <1>1, <1>2 DEF Revisions, Between, OwnDirectory
  <1>5. RunHonest
    BY <1>1 DEF RunHonest, Replays!RunHonest
  <1>. QED
    BY <1>3, <1>4, <1>5 DEF RunInv

LEMMA RunNextInv ==
  ASSUME RunInv, [Replays!Next]_replayVars
  PROVE  RunInv'
  <1>1. CASE \E label \in Labels : Replays!StoreTick(label) \/ Replays!DeleteTick(label)
    BY <1>1, ChangeSteps
  <1>2. CASE \E label \in Labels : \/ Replays!StoreRow(Replays!Known(label))
                                   \/ Replays!StoreSwap(Replays!Known(label))
    BY <1>2, ChangeSteps
  <1>3. CASE Replays!Commit
    <2>1. git \in Nat /\ archive \subseteq Int /\ IsFiniteSet(archive) /\ gates \subseteq Int
          /\ swaps \subseteq Int
      BY DEF RunInv, RunTypes
    <2>. QED
      BY <1>3, <2>1, WorldStep DEF Replays!Commit, Replays!Change
  <1>4. CASE \E period \in Periods : Replays!Start(period)
    BY <1>4, StartStep
  <1>5. CASE Replays!Preflight \/ Replays!Freeze \/ Replays!LoadSwaps
    BY <1>5, EarlySteps
  <1>6. CASE Replays!Capture
    BY <1>6, CaptureStep
  <1>7. CASE Replays!OpenStream
    BY <1>7, OpenStreamStep
  <1>8. CASE Replays!StreamTick
    BY <1>8, StreamTickStep
  <1>9. CASE Replays!Finish
    BY <1>9, FinishStep
  <1>10. CASE Replays!WriteReport
    BY <1>10, WriteReportStep
  <1>11. CASE Replays!Kill
    BY <1>11, RefuseStep DEF Replays!Kill, Replays!world
  <1>12. CASE UNCHANGED replayVars
    <2>1. git \in Nat /\ archive \subseteq Int /\ IsFiniteSet(archive) /\ gates \subseteq Int
          /\ swaps \subseteq Int
      BY DEF RunInv, RunTypes
    <2>. QED
      BY <1>12, <2>1, WorldStep DEF replayVars
  <1>. QED
    BY <1>1, <1>2, <1>3, <1>4, <1>5, <1>6, <1>7, <1>8, <1>9, <1>10, <1>11, <1>12 DEF Replays!Next

\* Whatever the parts next to it do, the run is the one of ResearchRun.
LEMMA RunPart ==
  /\ PartsInit => Replays!Init
  /\ [PartsNext]_<<part, vars, storeVars, accountVars, replayVars, trialVars>>
       => [Replays!Next]_replayVars
  BY DEF PartsInit, PartsNext

\* The manifest of a research backtest names the ticks it replayed, all of the
\* period and no other, the rows and swaps every evaluation read, the candles that
\* closed and a revision of the time it began; no report is without one.  For any
\* stored ticks, periods, calendar and tolerance, and however often ticks, rows,
\* swaps or the revision change while it runs or it is killed.
THEOREM ReportsTellTheTruth == PartsSpec => []RunHonest
  <1>1. RunInv /\ [Replays!Next]_replayVars => RunInv'
    BY RunNextInv
  <1>2. RunInv => RunHonest
    BY DEF RunInv
  <1>3. QED
    BY <1>1, <1>2, RunInitInv, RunPart, PTL DEF PartsSpec

-----------------------------------------------------------------------------
(* AccountSeries: for any equities, deals, windows and time.               *)

Deal == [at : Nat, trade : BOOLEAN, result : Results]
DayResults == {Accounts!ResultOf(traded) : traded \in SUBSET Deal}
AccountRow == [at : Nat, equity : Int, mark : Int, result : DayResults]
AccountSample == [at : Nat, equity : Int, mark : Int]

Top(x, S) == x \in S /\ \A y \in S : y <= x
Recorded(n) == {series[k].equity : k \in 1 .. n}

AccountTypes ==
  /\ accountClock \in Nat /\ equity \in Int
  /\ deals \subseteq Deal /\ \A d \in deals : d.at <= accountClock
  /\ series \in Seq(AccountRow)
  /\ sample # <<>> => sample[1] \in AccountSample
  /\ losses # <<>> => losses[1].count \in 1 .. Len(series)

\* Rows and the sample lie in order, in the past.
InTime ==
  /\ \A i, j \in 1 .. Len(series) : i < j => series[i].at < series[j].at
  /\ \A i \in 1 .. Len(series) : series[i].at <= accountClock
  /\ sample # <<>> => /\ sample[1].at <= accountClock
                      /\ \A i \in 1 .. Len(series) : series[i].at < sample[1].at

\* A mark is the highest of what was recorded, with the sample's own.
MarksOnTop ==
  /\ \A i \in 1 .. Len(series) : Top(series[i].mark, Recorded(i))
  /\ sample # <<>> => Top(sample[1].mark, Recorded(Len(series)) \cup {sample[1].equity})

AccountInv ==
  AccountTypes /\ InTime /\ MarksOnTop /\ Accounts!DayResultIsTrading /\ Accounts!LossesSeen

LEMMA AccountMax == \A S : Accounts!Max(S) = Max(S) /\ Accounts!Min(S) = Min(S)
  BY Zenon DEF Accounts!Max, Max, Accounts!Min, Min

LEMMA TopIsMax ==
  ASSUME NEW S \in SUBSET Int, NEW x, Top(x, S)
  PROVE  Accounts!Max(S) = x
  <1>1. \A y \in S : (\A z \in S : y >= z) <=> y = x
    BY DEF Top
  <1>2. Max(S) = x
    BY <1>1 DEF Top, Max
  <1>. QED
    BY <1>2, AccountMax

LEMMA SeriesRows ==
  ASSUME AccountTypes
  PROVE  /\ Len(series) \in Nat /\ DOMAIN series = 1 .. Len(series)
         /\ \A i \in 1 .. Len(series) : /\ series[i] \in AccountRow /\ series[i].at \in Nat
                                        /\ series[i].equity \in Int /\ series[i].mark \in Int
  <1>1. series \in Seq(AccountRow)
    BY DEF AccountTypes
  <1>2. \A i \in 1 .. Len(series) : series[i] \in AccountRow
    BY <1>1
  <1>. QED
    BY <1>1, <1>2 DEF AccountRow

\* What is known at an instant, and the latest of it.
LEMMA LatestIsMax ==
  ASSUME AccountTypes, NEW t, Accounts!KnownBy(t) # {}
  PROVE  /\ Accounts!KnownBy(t) \in SUBSET (1 .. Len(series))
         /\ Accounts!LatestKnownBefore(t) = {Max(Accounts!KnownBy(t))}
         /\ Max(Accounts!KnownBy(t)) \in Accounts!KnownBy(t)
         /\ \A k \in Accounts!KnownBy(t) : k <= Max(Accounts!KnownBy(t))
  <1> DEFINE K == Accounts!KnownBy(t)
  <1>1. K \in SUBSET (1 .. Len(series)) /\ Len(series) \in Nat
    BY SeriesRows DEF Accounts!KnownBy
  <1>2. Accounts!LatestKnownBefore(t) = {Max(K)}
    BY AccountMax DEF Accounts!LatestKnownBefore
  <1> HIDE DEF K
  <1>3. Max(K) \in K /\ \A k \in K : k <= Max(K)
    BY <1>1, MaxUpTo DEF K
  <1>. QED
    BY <1>1, <1>2, <1>3 DEF K

\* The row a window's loss is measured from is read, though it lie before the
\* window of what is read.
LEMMA BaselineOfWhole ==
  ASSUME AccountInv, NEW start \in Int, accountClock - LossWindow <= start, start <= accountClock,
         Len(series) > 0
  PROVE  Accounts!BaselineEquity(Accounts!History(accountClock), start, accountClock)
           = LET before == 1 .. Len(series) \cap Accounts!KnownBy(start)
                 from == IF before = {} THEN 1 ELSE Accounts!Max(before)
             IN  series[from].equity
  <1> DEFINE n == Len(series)
             t == accountClock
             H == Accounts!History(t)
             K == Accounts!KnownBy(t)
             before == Accounts!KnownBy(start)
             known == H \cap K
             eligible == known \cap before
             reach == t - LossWindow
  <1>1. /\ n \in Nat /\ n > 0 /\ DOMAIN series = 1 .. n /\ t \in Nat /\ reach \in Int
        /\ \A i \in 1 .. n : series[i].at \in Nat
    BY SeriesRows, AccountAssumption DEF AccountInv, AccountTypes
  <1>2. /\ \A i, j \in 1 .. n : i < j => series[i].at < series[j].at
        /\ \A i \in 1 .. n : series[i].at <= t
    BY DEF AccountInv, InTime
  <1>3. K = 1 .. n
    BY <1>1, <1>2 DEF Accounts!KnownBy
  <1>4. before = {i \in 1 .. n : series[i].at <= start} /\ 1 .. n \cap before = before
    BY <1>1 DEF Accounts!KnownBy
  <1>5. H = {i \in 1 .. n : series[i].at >= reach} \cup Accounts!LatestKnownBefore(reach)
    BY <1>3 DEF Accounts!History
  <1>6. Accounts!KnownBy(reach) = {i \in 1 .. n : series[i].at <= reach}
    BY <1>1 DEF Accounts!KnownBy
  <1>7. Accounts!BaselineEquity(H, start, t)
          = IF eligible # {} THEN series[Max(eligible)].equity
            ELSE IF known # {} THEN series[Min(known)].equity ELSE 0
    BY AccountMax DEF Accounts!BaselineEquity
  <1> HIDE DEF H, K, before, reach
  <1>8. CASE before = {}
    <2>1. \A i \in 1 .. n : series[i].at > start
      BY <1>1, <1>4, <1>8
    <2>2. \A i \in 1 .. n : series[i].at >= reach
      BY <1>1, <2>1 DEF reach
    <2>3. Accounts!KnownBy(reach) = {}
      BY <1>1, <1>6, <2>1 DEF reach
    <2>4. H = 1 .. n
      BY <1>5, <2>2, <2>3 DEF Accounts!LatestKnownBefore
    <2>5. known = 1 .. n /\ eligible = {} /\ 1 \in 1 .. n
      BY <1>1, <1>3, <1>8, <2>4
    <2>6. Min(1 .. n) = 1
      BY <1>1, <2>5 DEF Min
    <2>7. Accounts!BaselineEquity(H, start, t) = series[1].equity
      BY <1>7, <2>5, <2>6
    <2>. QED
      BY <1>4, <1>8, <2>7 DEF H, before
  <1>9. CASE before # {}
    <2>1. PICK k \in before : k = Max(before) /\ \A i \in before : i <= k
      BY <1>9, LatestIsMax DEF before, AccountInv
    <2>2. k \in 1 .. n /\ series[k].at <= start
      BY <1>4, <2>1
    <2>3. k \in H
      <3>1. CASE series[k].at >= reach
        BY <1>5, <2>2, <3>1
      <3>2. CASE ~(series[k].at >= reach)
        <4>1. k \in Accounts!KnownBy(reach)
          BY <1>1, <1>6, <2>2, <3>2
        <4>2. \A i \in Accounts!KnownBy(reach) : i <= k
          <5>1. \A i \in Accounts!KnownBy(reach) : i \in before
            BY <1>1, <1>4, <1>6 DEF reach
          <5>. QED
            BY <2>1, <5>1
        <4>3. /\ Accounts!LatestKnownBefore(reach) = {Max(Accounts!KnownBy(reach))}
              /\ Max(Accounts!KnownBy(reach)) \in Accounts!KnownBy(reach)
              /\ k <= Max(Accounts!KnownBy(reach))
          BY <4>1, LatestIsMax DEF AccountInv
        <4>4. Max(Accounts!KnownBy(reach)) = k
          <5>1. PICK h \in 1 .. n : h = Max(Accounts!KnownBy(reach))
            BY <1>6, <4>3
          <5>2. h <= k /\ k <= h
            BY <4>2, <4>3, <5>1
          <5>. QED
            BY <1>1, <2>2, <5>1, <5>2
        <4>. QED
          BY <1>5, <4>3, <4>4
      <3>. QED
        BY <3>1, <3>2
    <2>4. k \in eligible /\ \A i \in eligible : i <= k /\ i \in Int
      BY <1>3, <1>4, <2>1, <2>2, <2>3
    <2>5. Top(k, eligible) /\ eligible \in SUBSET Int
      BY <2>4 DEF Top
    <2> HIDE DEF eligible, known
    <2>6. Max(eligible) = k
      BY <2>5, TopIsMax, AccountMax
    <2>7. Accounts!BaselineEquity(H, start, t) = series[k].equity
      BY <1>7, <2>4, <2>6
    <2>. QED
      BY <1>4, <1>9, <2>1, <2>7, AccountMax DEF H, before
  <1>. QED
    BY <1>8, <1>9

\* What the day brought up to an instant that lies behind.
LEMMA ResultStays ==
  ASSUME NEW start, NEW t \in Nat, t <= accountClock,
         \/ deals' = deals
         \/ accountClock \in Nat /\ \E d : deals' = deals \cup {d} /\ d.at = accountClock + 1
  PROVE  Accounts!RealizedBetween(start, t)' = Accounts!RealizedBetween(start, t)
  <1> DEFINE traded == {d \in deals : d.trade /\ start <= d.at /\ d.at <= t}
  <1>1. traded' = traded
    <2>1. CASE deals' = deals
      BY <2>1
    <2>2. CASE deals' # deals
      <3>1. PICK d : deals' = deals \cup {d} /\ d.at = accountClock + 1
        BY <2>2
      <3>2. ~(d.at <= t) /\ accountClock \in Nat
        BY <2>2, <3>1
      <3>. QED
        BY <3>1, <3>2
    <2>. QED
      BY <2>1, <2>2
  <1>2. /\ Accounts!RealizedBetween(start, t) = Accounts!ResultOf(traded)
        /\ Accounts!RealizedBetween(start, t)' = Accounts!ResultOf(traded')
    BY DEF Accounts!RealizedBetween
  <1> HIDE DEF traded
  <1>. QED
    BY <1>1, <1>2

LEMMA AppendedRow ==
  ASSUME NEW written \in Seq(AccountRow), NEW r \in AccountRow
  PROVE  /\ Append(written, r) \in Seq(AccountRow) /\ Len(Append(written, r)) = Len(written) + 1
         /\ \A i \in 1 .. Len(written) : Append(written, r)[i] = written[i]
         /\ Append(written, r)[Len(written) + 1] = r
  OBVIOUS

\* The losses that were measured are about rows that stay.
LEMMA LossesStay ==
  ASSUME AccountInv, UNCHANGED losses,
         \/ series' = series
         \/ \E r \in AccountRow : series' = Append(series, r)
  PROVE  Accounts!LossesSeen'
  <1> SUFFICES ASSUME losses # <<>>
               PROVE  Accounts!LossesSeen'
    BY DEF Accounts!LossesSeen
  <1> DEFINE m == losses[1]
             whole == 1 .. m.count
             known(start) == whole \cap Accounts!KnownBy(start)
             from(start) == IF known(start) = {} THEN 1 ELSE Accounts!Max(known(start))
             Loss(start) == Accounts!LossPct(series[from(start)].equity, series[m.count].equity)
  <1>1. /\ m.count \in 1 .. Len(series) /\ Len(series) \in Nat /\ DOMAIN series = 1 .. Len(series)
        /\ series \in Seq(AccountRow)
    BY SeriesRows DEF AccountInv, AccountTypes
  <1>2. whole \subseteq DOMAIN series /\ whole \subseteq DOMAIN series'
        /\ \A i \in whole : series'[i] = series[i]
    <2>1. CASE series' = series
      BY <1>1, <2>1
    <2>2. CASE \E r \in AccountRow : series' = Append(series, r)
      <3>1. PICK r \in AccountRow : series' = Append(series, r)
        BY <2>2
      <3>2. /\ series' \in Seq(AccountRow) /\ Len(series') = Len(series) + 1
            /\ \A i \in 1 .. Len(series) : series'[i] = series[i]
        BY <1>1, <3>1, AppendedRow
      <3>3. DOMAIN series' = 1 .. Len(series) + 1
        BY <1>1, <3>2
      <3>. QED
        BY <1>1, <3>2, <3>3
    <2>. QED
      BY <2>1, <2>2
  <1>3. \A start : known(start)' = known(start)
    BY <1>2 DEF Accounts!KnownBy
  <1>4. 1 \in whole /\ m.count \in whole
    BY <1>1
  <1>5. \A start : from(start)' = from(start) /\ from(start) \in whole
    <2>1. ASSUME NEW start, known(start) # {}
          PROVE  Accounts!Max(known(start)) \in whole
      <3> DEFINE k == known(start)
      <3>1. k \in SUBSET (1 .. m.count) /\ m.count \in Nat
        BY <1>1
      <3> HIDE DEF k
      <3>2. Max(k) \in k
        BY <2>1, <3>1, MaxUpTo DEF k
      <3>. QED
        BY <3>1, <3>2, AccountMax DEF k
    <2> HIDE DEF known, whole
    <2>. QED
      BY <1>3, <1>4, <2>1 DEF from
  <1> HIDE DEF known, from
  <1>6. \A start : Loss(start)' = Loss(start)
    <2> SUFFICES ASSUME NEW start
                 PROVE  Loss(start)' = Loss(start)
      OBVIOUS
    <2>1. from(start)' = from(start) /\ series'[from(start)] = series[from(start)]
      BY <1>2, <1>5
    <2>2. series'[m.count] = series[m.count]
      BY <1>2, <1>4
    <2>3. losses'[1] = m
      OBVIOUS
    <2>. QED
      BY <2>1, <2>2, <2>3
  <1>7. {series'[k].equity : k \in whole} = {series[k].equity : k \in whole}
    BY <1>2
  <1>8. /\ m.daily = Loss(Accounts!JstDayStart(m.at)) /\ m.rolling = Loss(m.at - Rolling)
        /\ m.fromMark = Accounts!LossPct(Accounts!Max({series[k].equity : k \in whole}),
                                         series[m.count].equity)
    BY DEF AccountInv, Accounts!LossesSeen, known, from
  <1>9. /\ m.daily = Loss(Accounts!JstDayStart(m.at))' /\ m.rolling = Loss(m.at - Rolling)'
        /\ m.fromMark = Accounts!LossPct(Accounts!Max({series'[k].equity : k \in whole}),
                                         series'[m.count].equity)
    BY <1>2, <1>4, <1>6, <1>7, <1>8 DEF Accounts!JstDayStart
  <1>. QED
    BY <1>9 DEF Accounts!LossesSeen, known, from

LEMMA AccountInitInv == Accounts!Init => AccountInv
  <1> SUFFICES ASSUME Accounts!Init
               PROVE  AccountInv
    OBVIOUS
  <1>1. AccountTypes
    BY AccountAssumption DEF Accounts!Init, AccountTypes
  <1>2. InTime /\ MarksOnTop
    BY DEF Accounts!Init, InTime, MarksOnTop
  <1>3. Accounts!DayResultIsTrading /\ Accounts!LossesSeen
    BY DEF Accounts!Init, Accounts!DayResultIsTrading, Accounts!LossesSeen
  <1>. QED
    BY <1>1, <1>2, <1>3 DEF AccountInv

\* Time passes, deals are booked, a sample is given up: no row is written.
LEMMA TimeStep ==
  ASSUME AccountInv, UNCHANGED <<series, losses>>, accountClock' \in Nat,
         accountClock <= accountClock', equity' \in Int, sample' \in {sample, <<>>},
         \/ deals' = deals
         \/ \E d \in Deal : /\ deals' = deals \cup {d} /\ d.at = accountClock + 1
                            /\ accountClock' = accountClock + 1
  PROVE  AccountInv'
  <1>1. accountClock \in Nat /\ \A i \in 1 .. Len(series) : series[i].at \in Nat
    BY SeriesRows DEF AccountInv, AccountTypes
  <1>2. deals' \subseteq Deal /\ \A d \in deals' : d.at <= accountClock'
    <2>1. \A d \in deals : d \in Deal /\ d.at \in Nat /\ d.at <= accountClock
      BY DEF AccountInv, AccountTypes, Deal
    <2>. QED
      BY <1>1, <2>1
  <1>3. AccountTypes'
    BY <1>2 DEF AccountInv, AccountTypes
  <1>4. InTime'
    BY <1>1 DEF AccountInv, AccountTypes, InTime, AccountSample
  <1>5. MarksOnTop'
    BY DEF AccountInv, MarksOnTop, Recorded
  <1>6. Accounts!DayResultIsTrading'
    <2> SUFFICES ASSUME NEW i \in DOMAIN series
                 PROVE  series[i].result
                          = Accounts!RealizedBetween(Accounts!JstDayStart(series[i].at), series[i].at)'
      BY DEF Accounts!DayResultIsTrading, Accounts!JstDayStart
    <2>1. /\ series[i].at \in Nat /\ series[i].at <= accountClock
          /\ series[i].result = Accounts!RealizedBetween(Accounts!JstDayStart(series[i].at), series[i].at)
      BY <1>1, SeriesRows DEF AccountInv, InTime, Accounts!DayResultIsTrading
    <2>2. PICK start : start = Accounts!JstDayStart(series[i].at)
      OBVIOUS
    <2>3. PICK t \in Nat : t = series[i].at
      BY <2>1
    <2>4. Accounts!RealizedBetween(start, t)' = Accounts!RealizedBetween(start, t)
      BY <1>1, <2>1, <2>3, ResultStays
    <2>. QED
      BY <2>1, <2>2, <2>3, <2>4 DEF Accounts!JstDayStart
  <1>7. Accounts!LossesSeen'
    BY LossesStay
  <1>. QED
    BY <1>3, <1>4, <1>5, <1>6, <1>7 DEF AccountInv

LEMMA SampleStep ==
  ASSUME AccountInv, Accounts!Sample
  PROVE  AccountInv'
  <1> DEFINE n == Len(series)
             previous == Accounts!LatestKnownBefore(accountClock)
             top == Accounts!HighWaterMark(previous, equity)
  <1>1. /\ UNCHANGED <<accountClock, equity, deals, series, losses>>
        /\ sample' = <<[at |-> accountClock, equity |-> equity, mark |-> top]>>
        /\ \A i \in DOMAIN series : series[i].at < accountClock
    BY DEF Accounts!Sample
  <1>2. /\ n \in Nat /\ DOMAIN series = 1 .. n /\ accountClock \in Nat /\ equity \in Int
        /\ \A i \in 1 .. n : series[i].at \in Nat /\ series[i].equity \in Int /\ series[i].mark \in Int
    BY SeriesRows DEF AccountInv, AccountTypes
  <1>3. Accounts!KnownBy(accountClock) = 1 .. n
    BY <1>1, <1>2 DEF Accounts!KnownBy
  <1>4. Top(top, Recorded(n) \cup {equity}) /\ top \in Int
    <2>1. CASE n = 0
      <3>1. previous = {} /\ Recorded(n) = {}
        BY <1>3, <2>1 DEF Accounts!LatestKnownBefore, Recorded
      <3>2. Top(equity, {equity}) /\ {equity} \in SUBSET Int
        BY <1>2 DEF Top
      <3>3. Accounts!Max({equity}) = equity
        BY <3>2, TopIsMax
      <3>4. top = equity
        BY <3>1, <3>3 DEF Accounts!HighWaterMark
      <3>. QED
        BY <1>2, <3>1, <3>2, <3>4
    <2>2. CASE n # 0
      <3>1. Max(1 .. n) = n /\ n \in 1 .. n /\ 1 .. n # {}
        BY <1>2, <2>2, MaxOfInterval
      <3>2. previous = {n}
        BY <1>3, <3>1, AccountMax DEF Accounts!LatestKnownBefore
      <3>3. {series[i].mark : i \in previous} \cup {equity} = {series[n].mark, equity}
        BY <3>2
      <3>4. Top(series[n].mark, Recorded(n))
        BY <3>1 DEF AccountInv, MarksOnTop
      <3>5. PICK x \in Int : x = IF series[n].mark < equity THEN equity ELSE series[n].mark
        BY <1>2, <3>1
      <3>6. Top(x, {series[n].mark, equity}) /\ {series[n].mark, equity} \in SUBSET Int
        BY <1>2, <3>1, <3>5 DEF Top
      <3>7. top = x
        BY <3>3, <3>6, TopIsMax DEF Accounts!HighWaterMark
      <3>8. \A y \in Recorded(n) : y \in Int
        BY <1>2 DEF Recorded
      <3>. QED
        BY <1>2, <3>1, <3>4, <3>5, <3>7, <3>8 DEF Top
    <2>. QED
      BY <2>1, <2>2
  <1> HIDE DEF top, previous
  <1>5. sample'[1] = [at |-> accountClock, equity |-> equity, mark |-> top] /\ sample' # <<>>
    BY <1>1
  <1>6. AccountTypes'
    <2>1. sample'[1] \in AccountSample
      BY <1>2, <1>4, <1>5 DEF AccountSample
    <2>. QED
      BY <1>1, <2>1 DEF AccountInv, AccountTypes
  <1>7. InTime'
    <2>1. sample'[1].at = accountClock
      BY <1>5
    <2>. QED
      BY <1>1, <1>2, <2>1 DEF AccountInv, InTime
  <1>8. MarksOnTop'
    <2>1. sample'[1].mark = top /\ sample'[1].equity = equity
      BY <1>5
    <2>. QED
      BY <1>1, <1>4, <2>1 DEF AccountInv, MarksOnTop, Recorded
  <1>9. Accounts!DayResultIsTrading'
    BY <1>1 DEF AccountInv, Accounts!DayResultIsTrading, Accounts!RealizedBetween, Accounts!JstDayStart
  <1>10. Accounts!LossesSeen'
    BY <1>1, LossesStay
  <1>. QED
    BY <1>6, <1>7, <1>8, <1>9, <1>10 DEF AccountInv

LEMMA InsertStep ==
  ASSUME AccountInv, Accounts!Insert
  PROVE  AccountInv'
  <1>0. PICK n \in Nat : n = Len(series)
    BY SeriesRows DEF AccountInv
  <1> DEFINE s == sample[1]
             ofDay == Accounts!RealizedBetween(Accounts!JstDayStart(s.at), s.at)
             r == [at |-> s.at, equity |-> s.equity, mark |-> s.mark, result |-> ofDay]
  <1>1. /\ UNCHANGED <<accountClock, equity, deals, losses>>
        /\ sample # <<>> /\ sample' = <<>> /\ series' = Append(series, r)
    BY DEF Accounts!Insert
  <1>2. /\ series \in Seq(AccountRow) /\ deals \subseteq Deal
        /\ s.at \in Nat /\ s.equity \in Int /\ s.mark \in Int
        /\ s.at <= accountClock /\ \A i \in 1 .. n : series[i].at < s.at
        /\ Top(s.mark, Recorded(n) \cup {s.equity})
    BY <1>0, <1>1 DEF AccountInv, AccountTypes, InTime, MarksOnTop, AccountSample
  <1>3. ofDay \in DayResults
    BY <1>2 DEF Accounts!RealizedBetween, DayResults
  <1> HIDE DEF ofDay
  <1>4. /\ r \in AccountRow /\ r.at = s.at /\ r.equity = s.equity /\ r.mark = s.mark
        /\ r.result = ofDay
    BY <1>2, <1>3 DEF AccountRow
  <1> HIDE DEF r, s
  <1>5. /\ series' \in Seq(AccountRow) /\ Len(series') = n + 1 /\ n \in Nat
        /\ DOMAIN series' = 1 .. n + 1 /\ DOMAIN series = 1 .. n
        /\ \A i \in 1 .. n : series'[i] = series[i]
        /\ series'[n + 1] = r
    BY <1>0, <1>1, <1>2, <1>4
  <1>6. AccountTypes'
    BY <1>0, <1>1, <1>5 DEF AccountInv, AccountTypes
  <1>7. InTime'
    <2>1. \A i \in 1 .. n + 1 : series'[i].at <= accountClock
      BY <1>0, <1>2, <1>4, <1>5 DEF AccountInv, InTime
    <2>2. ASSUME NEW i \in 1 .. n + 1, NEW j \in 1 .. n + 1, i < j
          PROVE  series'[i].at < series'[j].at
      <3>1. i \in 1 .. n /\ series'[i] = series[i]
        BY <1>5, <2>2
      <3>2. CASE j \in 1 .. n
        BY <1>0, <1>5, <2>2, <3>1, <3>2 DEF AccountInv, InTime
      <3>3. CASE j = n + 1
        BY <1>2, <1>4, <1>5, <3>1, <3>3
      <3>. QED
        BY <1>5, <3>2, <3>3
    <2>. QED
      BY <1>1, <1>5, <2>1, <2>2 DEF InTime
  <1>8. MarksOnTop'
    <2>1. ASSUME NEW i \in 1 .. n
          PROVE  Recorded(i)' = Recorded(i)
      BY <1>5 DEF Recorded
    <2>2. Recorded(n + 1)' = Recorded(n) \cup {s.equity}
      <3>1. \A k \in 1 .. n + 1 : series'[k].equity = IF k = n + 1 THEN s.equity ELSE series[k].equity
        BY <1>4, <1>5
      <3>2. n + 1 \in 1 .. n + 1 /\ \A k : k \in 1 .. n + 1 <=> k \in 1 .. n \/ k = n + 1
        BY <1>5
      <3>3. \A y : y \in Recorded(n + 1)' <=> \E k \in 1 .. n + 1 : y = series'[k].equity
        BY <1>5 DEF Recorded
      <3>4. \A y : y \in Recorded(n) <=> \E k \in 1 .. n : y = series[k].equity
        BY DEF Recorded
      <3>5. \A k \in 1 .. n : k # n + 1
        BY <1>5
      <3>6. \A y : y \in Recorded(n + 1)' <=> y \in Recorded(n) \cup {s.equity}
        BY <3>1, <3>2, <3>3, <3>4, <3>5
      <3>. QED
        BY <3>6
    <2>3. ASSUME NEW i \in 1 .. n + 1
          PROVE  Top(series'[i].mark, Recorded(i)')
      <3>1. CASE i \in 1 .. n
        BY <1>0, <1>5, <2>1, <3>1 DEF AccountInv, MarksOnTop
      <3>2. CASE i = n + 1
        <4>1. series'[i].mark = s.mark /\ Recorded(i)' = Recorded(n) \cup {s.equity}
          BY <1>4, <1>5, <2>2, <3>2
        <4>. QED
          BY <1>2, <4>1
      <3>. QED
        BY <1>5, <3>1, <3>2
    <2>. QED
      BY <1>1, <1>5, <2>3 DEF MarksOnTop, Top
  <1>9. Accounts!DayResultIsTrading'
    <2>1. \A start, t : Accounts!RealizedBetween(start, t)' = Accounts!RealizedBetween(start, t)
      BY <1>1 DEF Accounts!RealizedBetween
    <2>2. ASSUME NEW i \in 1 .. n + 1
          PROVE  series'[i].result = Accounts!RealizedBetween(Accounts!JstDayStart(series'[i].at), series'[i].at)
      <3>1. CASE i \in 1 .. n
        BY <1>0, <1>5, <3>1 DEF AccountInv, Accounts!DayResultIsTrading
      <3>2. CASE i = n + 1
        BY <1>4, <1>5, <3>2 DEF ofDay
      <3>. QED
        BY <1>5, <3>1, <3>2
    <2>. QED
      BY <1>5, <2>1, <2>2 DEF Accounts!DayResultIsTrading, Accounts!JstDayStart
  <1>10. Accounts!LossesSeen'
    BY <1>1, <1>4, LossesStay
  <1>. QED
    BY <1>6, <1>7, <1>8, <1>9, <1>10 DEF AccountInv

LEMMA MeasureStep ==
  ASSUME AccountInv, Accounts!Measure
  PROVE  AccountInv'
  <1> DEFINE n == Len(series)
             t == accountClock
             Read(start) == Accounts!LossPct(
                              Accounts!BaselineEquity(Accounts!History(t), start, t), series[n].equity)
             before(start) == 1 .. n \cap Accounts!KnownBy(start)
             from(start) == IF before(start) = {} THEN 1 ELSE Accounts!Max(before(start))
             Whole(start) == Accounts!LossPct(series[from(start)].equity, series[n].equity)
  <1>1. /\ n \in Nat /\ DOMAIN series = 1 .. n /\ t \in Nat
        /\ \A i \in 1 .. n : series[i].at \in Nat /\ series[i].at <= t /\ series[i].equity \in Int
    BY SeriesRows DEF AccountInv, AccountTypes, InTime
  <1>2. Accounts!KnownBy(t) = 1 .. n
    BY <1>1 DEF Accounts!KnownBy
  <1>3. Accounts!LatestKnownBefore(t) # {}
    BY DEF Accounts!Measure
  <1>4. n > 0 /\ Accounts!LatestKnownBefore(t) = {n}
    <2>1. n # 0
      BY <1>2, <1>3 DEF Accounts!LatestKnownBefore
    <2>2. Max(1 .. n) = n
      BY <1>1, <2>1, MaxOfInterval
    <2>. QED
      BY <1>1, <1>2, <2>1, <2>2, AccountMax DEF Accounts!LatestKnownBefore
  <1>5. /\ UNCHANGED <<accountClock, equity, deals, series, sample>>
        /\ losses' = <<[at |-> t, count |-> n,
                        daily |-> Read(Accounts!JstDayStart(t)), rolling |-> Read(t - Rolling),
                        fromMark |-> Accounts!LossPct(series[n].mark, series[n].equity)]>>
    BY <1>4 DEF Accounts!Measure
  <1>6. ASSUME NEW start \in Int, t - LossWindow <= start, start <= t
        PROVE  Read(start) = Whole(start)
    <2>1. Accounts!BaselineEquity(Accounts!History(t), start, t) = series[from(start)].equity
      BY <1>4, <1>6, BaselineOfWhole
    <2>. QED
      BY <2>1
  <1> HIDE DEF Read, Whole
  <1>7. Read(Accounts!JstDayStart(t)) = Whole(Accounts!JstDayStart(t))
    <2>1. PICK q \in Int : q = t % DayLength
      BY <1>1, AccountAssumption
    <2>2. 0 <= q /\ q < DayLength /\ DayLength \in Nat /\ LossWindow \in Nat /\ DayLength <= LossWindow
      BY <1>1, <2>1, AccountAssumption
    <2>3. PICK start \in Int : start = t - q
      BY <1>1
    <2>4. t - LossWindow <= start /\ start <= t
      BY <1>1, <2>2, <2>3
    <2>5. Accounts!JstDayStart(t) = start
      BY <2>1, <2>3 DEF Accounts!JstDayStart
    <2>. QED
      BY <1>6, <2>4, <2>5
  <1>8. Read(t - Rolling) = Whole(t - Rolling)
    <2>1. t - Rolling \in Int /\ t - LossWindow <= t - Rolling /\ t - Rolling <= t
      BY <1>1, AccountAssumption
    <2>. QED
      BY <1>6, <2>1
  <1>9. Accounts!Max({series[k].equity : k \in 1 .. n}) = series[n].mark
    <2>1. n \in 1 .. n
      BY <1>1, <1>4
    <2>2. Top(series[n].mark, Recorded(n))
      BY <2>1 DEF AccountInv, MarksOnTop
    <2>3. Recorded(n) \in SUBSET Int
      BY <1>1 DEF Recorded
    <2>. QED
      BY <2>2, <2>3, TopIsMax DEF Recorded
  <1>10. /\ losses'[1].count = n /\ losses'[1].at = t
         /\ losses'[1].daily = Whole(Accounts!JstDayStart(t))
         /\ losses'[1].rolling = Whole(t - Rolling)
         /\ losses'[1].fromMark = Accounts!LossPct(Accounts!Max({series[k].equity : k \in 1 .. n}),
                                                   series[n].equity)
    BY <1>5, <1>7, <1>8, <1>9
  <1>11. Accounts!LossesSeen'
    BY <1>5, <1>10 DEF Accounts!LossesSeen, Whole, Accounts!KnownBy, Accounts!JstDayStart
  <1>12. AccountTypes' /\ InTime' /\ MarksOnTop'
    <2>1. n \in 1 .. n /\ losses'[1].count = n
      BY <1>1, <1>4, <1>10
    <2>2. AccountTypes'
      BY <1>5, <2>1 DEF AccountInv, AccountTypes
    <2>3. InTime'
      BY <1>5 DEF AccountInv, InTime
    <2>4. MarksOnTop'
      BY <1>5 DEF AccountInv, MarksOnTop, Recorded
    <2>. QED
      BY <2>2, <2>3, <2>4
  <1>13. Accounts!DayResultIsTrading'
    BY <1>5 DEF AccountInv, Accounts!DayResultIsTrading, Accounts!RealizedBetween, Accounts!JstDayStart
  <1>. QED
    BY <1>11, <1>12, <1>13 DEF AccountInv

LEMMA AccountNextInv ==
  ASSUME AccountInv, [Accounts!Next]_accountVars
  PROVE  AccountInv'
  <1>1. accountClock \in Nat /\ equity \in Int
    BY DEF AccountInv, AccountTypes
  <1>2. CASE Accounts!Sample
    BY <1>2, SampleStep
  <1>3. CASE Accounts!Insert
    BY <1>3, InsertStep
  <1>4. CASE Accounts!Fail
    BY <1>1, <1>4, TimeStep DEF Accounts!Fail
  <1>5. CASE Accounts!Measure
    BY <1>5, MeasureStep
  <1>6. CASE Accounts!Move
    <2>1. accountClock' \in Nat /\ accountClock <= accountClock' /\ equity' \in Int
      BY <1>1, <1>6, AccountAssumption DEF Accounts!Move
    <2>. QED
      BY <1>6, <2>1, TimeStep DEF Accounts!Move
  <1>7. CASE Accounts!Book
    <2>1. accountClock' \in Nat /\ accountClock' = accountClock + 1 /\ accountClock <= accountClock'
      BY <1>1, <1>7 DEF Accounts!Book
    <2>2. PICK trade \in BOOLEAN, gain \in Results :
            deals' = deals \cup {[at |-> accountClock + 1, trade |-> trade, result |-> gain]}
      BY <1>7 DEF Accounts!Book
    <2> DEFINE d == [at |-> accountClock + 1, trade |-> trade, result |-> gain]
    <2>3. d \in Deal /\ d.at = accountClock + 1
      BY <1>1 DEF Deal
    <2> HIDE DEF d
    <2>4. deals' = deals \cup {d}
      BY <2>2 DEF d
    <2>. QED
      BY <1>1, <1>7, <2>1, <2>3, <2>4, TimeStep DEF Accounts!Book
  <1>8. CASE UNCHANGED accountVars
    BY <1>1, <1>8, TimeStep DEF accountVars
  <1>. QED
    BY <1>2, <1>3, <1>4, <1>5, <1>6, <1>7, <1>8 DEF Accounts!Next

\* Whatever the parts next to it do, the account is the one of AccountSeries.
LEMMA AccountPart ==
  /\ PartsInit => Accounts!Init
  /\ [PartsNext]_<<part, vars, storeVars, accountVars, replayVars, trialVars>>
       => [Accounts!Next]_accountVars
  BY DEF PartsInit, PartsNext

\* The mark of a row is the highest equity ever recorded, its result is that of the
\* day's trades, and the losses a cycle measures over what it reads are those of the
\* whole series, for any equities, deals, outages and crashes of the collector, as
\* long as the cycle reads back a day and the rolling window.
THEOREM NoLossIsHidden == PartsSpec => []LossesHonest
  <1>1. AccountInv /\ [Accounts!Next]_accountVars => AccountInv'
    BY AccountNextInv
  <1>2. AccountInv => LossesHonest
    <2> SUFFICES ASSUME AccountInv
                 PROVE  Accounts!MarkNeverDecays
      BY DEF AccountInv, LossesHonest, Accounts!LossesHonest
    <2>1. ASSUME NEW i \in 1 .. Len(series)
          PROVE  series[i].mark = Accounts!Max({series[k].equity : k \in 1 .. i})
      <3>1. Top(series[i].mark, Recorded(i))
        BY DEF AccountInv, MarksOnTop
      <3>2. Recorded(i) \in SUBSET Int
        BY SeriesRows DEF AccountInv, Recorded
      <3>. QED
        BY <3>1, <3>2, TopIsMax DEF Recorded
    <2>. QED
      BY <2>1, SeriesRows DEF AccountInv, Accounts!MarkNeverDecays
  <1>3. QED
    BY <1>1, <1>2, AccountInitInv, AccountPart, PTL DEF PartsSpec

-----------------------------------------------------------------------------
(* A backtest repeated in child processes.                                 *)

\* What a trial is said to be, where the parent may be, what a child leaves.
TrialStates == {"planned", "running", "succeeded", "failed"}
EnsembleStages ==
  {"fill", "submit", "wait", "gather", "order", "sequence", "start", "waiting", "caught",
   "finally", "terminate", "leaving", "ended", "killed"}
Outcomes == [code: {0, 1}, git: {0, 1}, data: {0, 1}]

\* The types of the ensemble's state.
EnsembleTypes ==
  /\ head \in {0, 1} /\ data \in {0, 1}
  /\ parallel \in BOOLEAN /\ stopping \in BOOLEAN /\ interrupted \in BOOLEAN
  /\ parent \in EnsembleStages
  /\ status \in [1 .. Trials -> TrialStates] /\ disk \in [1 .. Trials -> TrialStates]
  /\ nextTrial \in Nat \ {0} /\ nextResult \in Nat \ {0}
  /\ thread \in [1 .. Trials -> {"none", "ready", "waiting", "done"}]
  /\ child \in [1 .. Trials -> {"none", "alive", "dead"}]
  /\ exit \in [1 .. Trials -> Outcomes]
  /\ started \in SUBSET (1 .. Trials) /\ gathered \in SUBSET (1 .. Trials)
  /\ DOMAIN finished \in SUBSET (1 .. Trials)
  /\ \A i \in DOMAIN finished : finished[i] \in {-1, 0, 1}
  /\ baseline \in {-1, 0, 1}

\* A child is one of a started trial; what succeeded is over, and ran on the baseline.
Concluded ==
  /\ \A i \in 1 .. Trials : i \notin started => child[i] = "none"
  /\ \A i \in 1 .. Trials : i \in started => child[i] # "none"
  /\ \A i \in 1 .. Trials : status[i] = "succeeded" =>
       /\ i \in started /\ child[i] = "dead"
       /\ exit[i].code = 0 /\ exit[i].git = 0 /\ exit[i].data = baseline
  /\ baseline # -1 => \E i \in 1 .. Trials : status[i] = "succeeded"

\* The file lags behind the parent, but says "running" before a trial is started.
Checkpointed ==
  /\ \A i \in 1 .. Trials : disk[i] = "succeeded" => status[i] = "succeeded"
  /\ \A i \in 1 .. Trials : status[i] = "planned" \/ disk[i] = "planned" =>
       i \notin started /\ (thread[i] = "ready" => stopping)
  /\ parent \in {"submit", "start", "waiting"} =>
       /\ nextTrial \in 1 .. Trials
       /\ status[nextTrial] = "running" /\ disk[nextTrial] = "running"

\* A trial the parent has collected is over, and on the planned code if the
\* repository never changed; those judged have been collected.
GatheredInv ==
  /\ \A i \in DOMAIN finished :
       /\ i < nextTrial
       /\ thread[i] \in {"none", "done"}
       /\ i \in started => child[i] = "dead"
       /\ i \in started \/ status[i] = "failed"
       /\ i \in started /\ exit[i].code = 0 /\ head = 0 => finished[i] = 0
  /\ \A i \in 1 .. Trials : i < nextResult => i \in DOMAIN finished
  /\ \A i \in 1 .. Trials : parallel /\ status[i] = "succeeded" => i < nextResult

\* Threads, while the parent lives, are those of the trials submitted.
Threaded ==
  /\ \A i \in 1 .. Trials : thread[i] # "none" => i < nextTrial
  /\ \A i \in 1 .. Trials : thread[i] = "ready" => i \notin started
  /\ parallel /\ parent # "killed" =>
       /\ \A i \in started : thread[i] \in {"waiting", "done"}
       /\ \A i \in started : thread[i] = "done" => child[i] = "dead"
       /\ \A i \in gathered : thread[i] = "done"

\* Until the pool is left, a trial not yet judged has failed only if it never ran.
Unjudged ==
  parallel /\ parent \in {"fill", "submit", "wait", "gather", "order"} =>
    \A i \in 1 .. Trials : status[i] = "failed" /\ i >= nextResult =>
      i \notin started /\ thread[i] # "ready"

\* A sound trial judged has a trial that succeeded up to it, unless there was a commit.
FirstCounts ==
  head = 0 =>
    \A i \in started : exit[i].code = 0 /\ exit[i].git = 0 /\ i < nextResult =>
      \E j \in 1 .. i : status[j] = "succeeded"

\* One after another there are no threads, and one child at most.
OneByOne ==
  ~parallel =>
    /\ parent \in {"sequence", "start", "waiting", "ended", "killed"}
    /\ \A i \in 1 .. Trials : thread[i] = "none"
    /\ nextResult = 1 /\ DOMAIN finished = {}
    /\ parent # "killed" =>
         \A i \in 1 .. Trials : child[i] = "alive" => parent = "waiting" /\ i = nextTrial
    /\ \A i \in started : i <= nextTrial /\ (parent \in {"sequence", "start"} => i < nextTrial)

SideBySide == parallel => parent \notin {"sequence", "start", "waiting"}

NoneLeft ==
  parent = "ended" =>
    /\ \A i \in 1 .. Trials : child[i] # "alive"
    /\ \A i \in 1 .. Trials : thread[i] \in {"none", "done"}

EnsembleInv ==
  /\ EnsembleTypes /\ Concluded /\ Checkpointed /\ GatheredInv /\ Threaded
  /\ Unjudged /\ FirstCounts /\ OneByOne /\ SideBySide /\ NoneLeft

\* A child that is started has the outcome it will have if nothing stops it.
LEMMA EnsembleStart ==
  ASSUME EnsembleInv, NEW i \in 1 .. Trials, Ensemble!StartChild(i)
  PROVE  /\ child' \in [1 .. Trials -> {"none", "alive", "dead"}] /\ child'[i] = "alive"
         /\ exit' \in [1 .. Trials -> Outcomes]
         /\ started' \in SUBSET (1 .. Trials) /\ started' = started \cup {i}
         /\ \A j \in 1 .. Trials \ {i} : child'[j] = child[j] /\ exit'[j] = exit[j]
  <1> DEFINE fresh == [code |-> 0, git |-> head, data |-> data]
  <1>1. fresh \in Outcomes
    BY DEF EnsembleInv, EnsembleTypes, Outcomes
  <1>2. exit' = [exit EXCEPT ![i] = fresh] /\ exit \in [1 .. Trials -> Outcomes]
    BY DEF Ensemble!StartChild, EnsembleInv, EnsembleTypes
  <1> HIDE DEF fresh
  <1>3. exit' \in [1 .. Trials -> Outcomes] /\ \A j \in 1 .. Trials \ {i} : exit'[j] = exit[j]
    BY <1>1, <1>2
  <1> QED
    BY <1>3 DEF Ensemble!StartChild, EnsembleInv, EnsembleTypes

LEMMA EnsembleCommit ==
  ASSUME EnsembleInv, Ensemble!Commit
  PROVE  EnsembleInv'
  BY EnsembleAssumption, SMTT(20) DEF EnsembleInv, EnsembleTypes, Concluded, Checkpointed,
    GatheredInv, Threaded, Unjudged, FirstCounts, OneByOne, SideBySide, NoneLeft, TrialStates,
    EnsembleStages, Outcomes, Ensemble!Commit, Ensemble!children, Ensemble!world,
    Ensemble!progress

LEMMA EnsembleTicksStored ==
  ASSUME EnsembleInv, Ensemble!TicksStored
  PROVE  EnsembleInv'
  BY EnsembleAssumption, SMTT(20) DEF EnsembleInv, EnsembleTypes, Concluded, Checkpointed,
    GatheredInv, Threaded, Unjudged, FirstCounts, OneByOne, SideBySide, NoneLeft, TrialStates,
    EnsembleStages, Outcomes, Ensemble!TicksStored, Ensemble!children, Ensemble!world,
    Ensemble!progress

LEMMA EnsembleChildEnds ==
  ASSUME EnsembleInv, NEW i \in 1 .. Trials, NEW code \in {0, 1}, Ensemble!ChildEnds(i, code)
  PROVE  EnsembleInv'
  <1> USE EnsembleAssumption DEF EnsembleInv, EnsembleTypes, Ensemble!ChildEnds,
      Ensemble!children, Ensemble!world, Ensemble!progress
  <1>1. EnsembleTypes'
    BY DEF TrialStates, EnsembleStages, Outcomes
  <1>2. Concluded'
    BY DEF Concluded, EnsembleStages
  <1>3. Checkpointed'
    BY DEF Checkpointed, EnsembleStages
  <1>4. GatheredInv'
    BY DEF GatheredInv, EnsembleStages
  <1>5. Threaded'
    BY DEF Threaded, EnsembleStages
  <1>6. Unjudged'
    BY DEF Unjudged, EnsembleStages
  <1>7. FirstCounts'
    BY DEF GatheredInv, FirstCounts
  <1>8. OneByOne'
    BY DEF OneByOne, EnsembleStages
  <1>9. SideBySide'
    BY DEF SideBySide, EnsembleStages
  <1>10. NoneLeft'
    BY DEF NoneLeft, EnsembleStages
  <1> QED
    BY <1>1, <1>2, <1>3, <1>4, <1>5, <1>6, <1>7, <1>8, <1>9, <1>10

LEMMA EnsembleThreadStarts ==
  ASSUME EnsembleInv, NEW i \in 1 .. Trials, Ensemble!ThreadStarts(i)
  PROVE  EnsembleInv'
  <1> USE EnsembleAssumption DEF EnsembleInv, EnsembleTypes, Ensemble!ThreadStarts,
    Ensemble!children, Ensemble!StartChild, Ensemble!world, Ensemble!progress
  <1>1. EnsembleTypes'
    <2>1. CASE stopping
      BY <2>1
    <2>2. CASE ~stopping
      BY <2>2, EnsembleStart
    <2> QED
      BY <2>1, <2>2
  <1>2. Concluded'
    BY DEF Concluded, Threaded, EnsembleStages
  <1>3. Checkpointed'
    BY DEF Checkpointed, EnsembleStages
  <1>4. GatheredInv'
    <2>1. i \notin DOMAIN finished
      BY DEF GatheredInv
    <2>2. CASE stopping
      BY <2>1, <2>2 DEF GatheredInv
    <2>3. CASE ~stopping
      <3>1. /\ \A j \in DOMAIN finished : thread'[j] = thread[j]
            /\ \A j \in DOMAIN finished : child'[j] = child[j] /\ exit'[j] = exit[j]
            /\ \A j \in DOMAIN finished : j \in started' => j \in started
            /\ UNCHANGED <<finished, status, head, nextTrial, nextResult, parallel>>
        BY <2>1, <2>3, EnsembleStart
      <3> QED
        BY <3>1 DEF GatheredInv
    <2> QED
      BY <2>2, <2>3
  <1>5. Threaded'
    <2>1. CASE stopping
      BY <2>1 DEF Threaded, EnsembleStages
    <2>2. CASE ~stopping
      <3>1. /\ thread' = [thread EXCEPT ![i] = "waiting"]
            /\ thread[i] = "ready" /\ i \notin started
        BY <2>2 DEF Threaded
      <3>2. \A j \in 1 .. Trials : thread'[j] # "none" => j < nextTrial'
        BY <3>1 DEF Threaded
      <3>3. /\ started' = started \cup {i} /\ parent' = parent /\ parallel' = parallel
            /\ gathered' = gathered /\ \A j \in 1 .. Trials \ {i} : child'[j] = child[j]
        BY <2>2, EnsembleStart
      <3> QED
        BY <3>1, <3>2, <3>3 DEF Threaded
    <2> QED
      BY <2>1, <2>2
  <1>6. Unjudged'
    BY DEF Unjudged, EnsembleStages
  <1>7. FirstCounts'
    <2>1. CASE stopping
      BY <2>1 DEF FirstCounts
    <2>2. CASE ~stopping
      <3>1. i \notin DOMAIN finished
        BY DEF GatheredInv
      <3>2. ~(i < nextResult)
        BY <3>1 DEF GatheredInv
      <3>3. \A j \in started' : j < nextResult => j \in started /\ exit'[j] = exit[j]
        <4>1. started' = started \cup {i} /\ \A j \in 1 .. Trials \ {i} : exit'[j] = exit[j]
          BY <2>2, EnsembleStart
        <4> QED
          BY <3>2, <4>1
      <3> QED
        BY <3>3 DEF FirstCounts
    <2> QED
      BY <2>1, <2>2
  <1>8. OneByOne'
    BY DEF OneByOne, EnsembleStages
  <1>9. SideBySide'
    BY DEF SideBySide, EnsembleStages
  <1>10. NoneLeft'
    BY DEF NoneLeft, EnsembleStages
  <1> QED
    BY <1>1, <1>2, <1>3, <1>4, <1>5, <1>6, <1>7, <1>8, <1>9, <1>10 DEF EnsembleInv

LEMMA EnsembleThreadFails ==
  ASSUME EnsembleInv, NEW i \in 1 .. Trials, Ensemble!ThreadFails(i)
  PROVE  EnsembleInv'
  BY EnsembleAssumption, SMTT(20) DEF EnsembleInv, EnsembleTypes, Concluded, Checkpointed,
    GatheredInv, Threaded, Unjudged, FirstCounts, OneByOne, SideBySide, NoneLeft, TrialStates,
    EnsembleStages, Outcomes, Ensemble!ThreadFails, Ensemble!children, Ensemble!world,
    Ensemble!progress

LEMMA EnsembleThreadEnds ==
  ASSUME EnsembleInv, NEW i \in 1 .. Trials, Ensemble!ThreadEnds(i)
  PROVE  EnsembleInv'
  BY EnsembleAssumption, SMTT(20) DEF EnsembleInv, EnsembleTypes, Concluded, Checkpointed,
    GatheredInv, Threaded, Unjudged, FirstCounts, OneByOne, SideBySide, NoneLeft, TrialStates,
    EnsembleStages, Outcomes, Ensemble!ThreadEnds, Ensemble!children, Ensemble!world,
    Ensemble!progress

LEMMA EnsembleGather ==
  ASSUME EnsembleInv, NEW i \in 1 .. Trials, Ensemble!Gather(i)
  PROVE  EnsembleInv'
  <1> USE EnsembleAssumption DEF EnsembleInv, EnsembleTypes, Ensemble!Gather,
    Ensemble!children, Ensemble!Collected, Ensemble!None, Ensemble!world, Ensemble!progress
  <1>1. EnsembleTypes'
    BY DEF TrialStates, EnsembleStages, Outcomes
  <1>2. Concluded'
    BY DEF Concluded, EnsembleStages
  <1>3. Checkpointed'
    BY DEF Concluded, Checkpointed, EnsembleStages
  <1>4. GatheredInv'
    BY DEF GatheredInv, Threaded, OneByOne, EnsembleStages
  <1>5. Threaded'
    BY DEF Threaded, EnsembleStages
  <1>6. Unjudged'
    BY DEF Unjudged, Threaded, OneByOne, EnsembleStages
  <1>7. FirstCounts'
    BY SMTT(40) DEF Concluded, FirstCounts, EnsembleStages
  <1>8. OneByOne'
    BY DEF OneByOne, EnsembleStages
  <1>9. SideBySide'
    BY DEF SideBySide, EnsembleStages
  <1>10. NoneLeft'
    BY DEF NoneLeft, EnsembleStages
  <1> QED
    BY <1>1, <1>2, <1>3, <1>4, <1>5, <1>6, <1>7, <1>8, <1>9, <1>10 DEF EnsembleInv

LEMMA EnsembleOrder ==
  ASSUME EnsembleInv, NEW i \in 1 .. Trials, Ensemble!Order(i)
  PROVE  EnsembleInv'
  <1> USE EnsembleAssumption DEF EnsembleInv, EnsembleTypes, Ensemble!Order,
    Ensemble!children, Ensemble!Judged, Ensemble!Valid, Ensemble!Due, Ensemble!None,
    Ensemble!world, Ensemble!progress
  <1>1. EnsembleTypes'
    <2>1. exit[i].data \in {0, 1}
      BY DEF Outcomes
    <2>2. baseline' \in {-1, 0, 1}
      BY <2>1
    <2>3. status' \in [1 .. Trials -> TrialStates] /\ disk' \in [1 .. Trials -> TrialStates]
      <3>1. /\ disk' = status'
            /\ \/ status' = status
               \/ \E said \in TrialStates : status' = [status EXCEPT ![i] = said]
        BY DEF TrialStates
      <3> QED
        BY <3>1
    <2> QED
      BY <2>2, <2>3
  <1>2. Concluded'
    <2>1. \A j \in 1 .. Trials : status[j] = "succeeded" => status'[j] = "succeeded"
      BY DEF GatheredInv, OneByOne
    <2>2. \A j \in 1 .. Trials \ {i} : status'[j] = status[j]
      OBVIOUS
    <2>3. \A j \in 1 .. Trials : status[j] = "succeeded" => baseline' = baseline
      <3>1. \A j \in 1 .. Trials : exit[j].data # -1
        BY DEF Outcomes
      <3>2. (\E j \in 1 .. Trials : status[j] = "succeeded") => baseline # -1
        BY <3>1 DEF Concluded
      <3>3. baseline # -1 => baseline' = baseline
        OBVIOUS
      <3> QED
        BY <3>2, <3>3
    <2>4. status'[i] = "succeeded" /\ status[i] # "succeeded" =>
            i \in started /\ exit[i].code = 0 /\ exit[i].git = 0 /\ exit[i].data = baseline'
      BY DEF GatheredInv
    <2>5. status'[i] = "succeeded" => child[i] = "dead"
      BY <2>4 DEF GatheredInv, Concluded
    <2>6. baseline' # -1 => \E j \in 1 .. Trials : status'[j] = "succeeded"
      BY <2>1 DEF Concluded
    <2> QED
      BY <2>1, <2>2, <2>3, <2>4, <2>5, <2>6 DEF Concluded
  <1>3. Checkpointed'
    BY DEF Checkpointed, EnsembleStages
  <1>4. GatheredInv'
    BY DEF GatheredInv, EnsembleStages
  <1>5. Threaded'
    BY DEF Threaded, EnsembleStages
  <1>6. Unjudged'
    BY DEF Unjudged, EnsembleStages
  <1>7. FirstCounts'
    <2> SUFFICES ASSUME head = 0, NEW k \in started, exit[k].code = 0, exit[k].git = 0,
                        k < nextResult'
                 PROVE  \E j \in 1 .. k : status'[j] = "succeeded"
      BY DEF FirstCounts
    <2>1. \A j \in 1 .. Trials : status[j] = "succeeded" => j < i /\ status'[j] = "succeeded"
      BY DEF GatheredInv, OneByOne
    <2>2. CASE k < i
      BY <2>1, <2>2, SMTT(40) DEF FirstCounts
    <2>3. CASE k = i
      <3>1. status[i] # "failed" /\ finished[i] = 0
        BY <2>3 DEF Unjudged, GatheredInv, OneByOne
      <3>2. CASE baseline \in {-1, exit[i].data}
        BY <2>3, <3>1, <3>2
      <3>3. CASE baseline \notin {-1, exit[i].data}
        BY <2>1, <2>3, <3>3 DEF Concluded
      <3> QED
        BY <3>2, <3>3
    <2> QED
      BY <2>2, <2>3
  <1>8. OneByOne'
    BY DEF OneByOne, EnsembleStages
  <1>9. SideBySide'
    BY DEF SideBySide, EnsembleStages
  <1>10. NoneLeft'
    BY DEF NoneLeft, EnsembleStages
  <1> QED
    BY <1>1, <1>2, <1>3, <1>4, <1>5, <1>6, <1>7, <1>8, <1>9, <1>10 DEF EnsembleInv

LEMMA EnsembleMark ==
  ASSUME EnsembleInv, Ensemble!Mark
  PROVE  EnsembleInv'
  <1> USE EnsembleAssumption DEF EnsembleInv, EnsembleTypes, Ensemble!Mark, Ensemble!children,
    Ensemble!world, Ensemble!progress
  <1>1. EnsembleTypes'
    BY DEF TrialStates, EnsembleStages, Outcomes
  <1>2. Concluded'
    BY DEF Concluded, GatheredInv, OneByOne, EnsembleStages
  <1>3. Checkpointed'
    BY DEF Checkpointed, EnsembleStages
  <1>4. GatheredInv'
    BY DEF GatheredInv, EnsembleStages
  <1>5. Threaded'
    BY DEF Threaded, EnsembleStages
  <1>6. Unjudged'
    BY DEF Unjudged, EnsembleStages
  <1>7. FirstCounts'
    BY DEF FirstCounts, GatheredInv, OneByOne, EnsembleStages
  <1>8. OneByOne'
    BY DEF OneByOne, EnsembleStages
  <1>9. SideBySide'
    BY DEF SideBySide, EnsembleStages
  <1>10. NoneLeft'
    BY DEF NoneLeft
  <1> QED
    BY <1>1, <1>2, <1>3, <1>4, <1>5, <1>6, <1>7, <1>8, <1>9, <1>10 DEF EnsembleInv

LEMMA EnsembleWait ==
  ASSUME EnsembleInv, Ensemble!Wait
  PROVE  EnsembleInv'
  BY EnsembleAssumption, SMTT(20) DEF EnsembleInv, EnsembleTypes, Concluded, Checkpointed,
    GatheredInv, Threaded, Unjudged, FirstCounts, OneByOne, SideBySide, NoneLeft, TrialStates,
    EnsembleStages, Outcomes, Ensemble!Wait, Ensemble!children, Ensemble!Futures,
    Ensemble!Trial, Ensemble!world, Ensemble!progress

\* The trial that is marked has neither a thread nor a child.
LEMMA EnsembleFresh ==
  ASSUME EnsembleInv, parent = "submit"
  PROVE  nextTrial \in 1 .. Trials /\ nextTrial \notin started /\ thread[nextTrial] = "none"
  <1>1. parallel /\ nextTrial \in 1 .. Trials
    BY DEF EnsembleInv, EnsembleTypes, Checkpointed, OneByOne
  <1>2. thread[nextTrial] = "none"
    BY <1>1 DEF EnsembleInv, EnsembleTypes, Threaded
  <1> QED
    BY <1>1, <1>2 DEF EnsembleInv, EnsembleTypes, Threaded

LEMMA EnsembleSubmit ==
  ASSUME EnsembleInv, NEW ok \in BOOLEAN, Ensemble!Submit(ok)
  PROVE  EnsembleInv'
  <1> USE EnsembleAssumption DEF EnsembleInv, EnsembleTypes, Ensemble!Submit,
    Ensemble!children, Ensemble!Collected, Ensemble!None, Ensemble!world, Ensemble!progress
  <1>1. EnsembleTypes'
    <2>1. nextTrial \in 1 .. Trials
      BY DEF Checkpointed
    <2>2. CASE ok
      BY <2>1, <2>2 DEF EnsembleStages
    <2>3. CASE ~ok
      <3>1. /\ DOMAIN finished' \in SUBSET (1 .. Trials)
            /\ \A i \in DOMAIN finished' : finished'[i] \in {-1, 0, 1}
        BY <2>1, <2>3
      <3>2. status' \in [1 .. Trials -> TrialStates] /\ disk' \in [1 .. Trials -> TrialStates]
        <4>1. status' = [status EXCEPT ![nextTrial] = "failed"] /\ disk' = status'
          BY <2>3
        <4> QED
          BY <2>1, <4>1 DEF TrialStates
      <3> QED
        BY <2>3, <3>1, <3>2 DEF EnsembleStages
    <2> QED
      BY <2>2, <2>3
  <1>2. Concluded'
    BY DEF Concluded, Checkpointed, EnsembleStages
  <1>3. Checkpointed'
    BY DEF Checkpointed, EnsembleStages
  <1>4. GatheredInv'
    <2>1. nextTrial \in 1 .. Trials /\ nextTrial \notin started /\ thread[nextTrial] = "none"
      BY EnsembleFresh
    <2>2. CASE ok
      <3>1. /\ \A i \in DOMAIN finished : thread'[i] = thread[i] /\ i < nextTrial'
            /\ UNCHANGED <<finished, status, started, child, exit, head, nextResult, parallel>>
        BY <2>1, <2>2 DEF GatheredInv
      <3> QED
        BY <3>1 DEF GatheredInv
    <2>3. CASE ~ok
      BY <2>1, <2>3 DEF GatheredInv
    <2> QED
      BY <2>2, <2>3
  <1>5. Threaded'
    <2>1. nextTrial \in 1 .. Trials /\ nextTrial \notin started /\ thread[nextTrial] = "none"
      BY EnsembleFresh
    <2>2. CASE ok
      <3>1. /\ thread' = [thread EXCEPT ![nextTrial] = "ready"] /\ nextTrial' = nextTrial + 1
            /\ parent = "submit" /\ UNCHANGED <<started, child, gathered, parallel>>
        BY <2>2
      <3> QED
        BY <2>1, <3>1 DEF Threaded
    <2>3. CASE ~ok
      BY <2>3 DEF Threaded, EnsembleStages
    <2> QED
      BY <2>2, <2>3
  <1>6. Unjudged'
    <2>1. nextTrial \in 1 .. Trials /\ nextTrial \notin started /\ thread[nextTrial] = "none"
      BY EnsembleFresh
    <2>2. CASE ok
      BY <2>1, <2>2 DEF Unjudged, Checkpointed
    <2>3. CASE ~ok
      BY <2>1, <2>3 DEF Unjudged
    <2> QED
      BY <2>2, <2>3
  <1>7. FirstCounts'
    BY DEF FirstCounts, Checkpointed, EnsembleStages
  <1>8. OneByOne'
    BY DEF OneByOne, EnsembleStages
  <1>9. SideBySide'
    BY DEF SideBySide, EnsembleStages
  <1>10. NoneLeft'
    BY DEF NoneLeft, EnsembleStages
  <1> QED
    BY <1>1, <1>2, <1>3, <1>4, <1>5, <1>6, <1>7, <1>8, <1>9, <1>10 DEF EnsembleInv

LEMMA EnsembleLaunch ==
  ASSUME EnsembleInv, NEW ok \in BOOLEAN, Ensemble!Launch(ok)
  PROVE  EnsembleInv'
  <1> USE EnsembleAssumption DEF EnsembleInv, EnsembleTypes, Ensemble!Launch,
    Ensemble!children, Ensemble!StartChild, Ensemble!world, Ensemble!progress
  <1>1. EnsembleTypes'
    <2>1. CASE ok
      BY <2>1, EnsembleStart DEF EnsembleStages, Checkpointed
    <2>2. CASE ~ok
      <3>1. status' \in [1 .. Trials -> TrialStates] /\ disk' \in [1 .. Trials -> TrialStates]
        <4>1. status' = [status EXCEPT ![nextTrial] = "failed"] /\ disk' = status'
          BY <2>2
        <4> QED
          BY <4>1 DEF TrialStates, Checkpointed
      <3>2. /\ nextTrial' = nextTrial + 1 /\ parent' = "sequence"
            /\ UNCHANGED <<child, exit, started>>
        BY <2>2
      <3> QED
        BY <2>2, <3>1, <3>2 DEF EnsembleStages
    <2> QED
      BY <2>1, <2>2
  <1>2. Concluded'
    BY DEF Concluded, Checkpointed, OneByOne, SideBySide, EnsembleStages
  <1>3. Checkpointed'
    BY DEF Checkpointed, EnsembleStages
  <1>4. GatheredInv'
    BY DEF GatheredInv, EnsembleStages
  <1>5. Threaded'
    BY DEF Threaded, OneByOne, SideBySide, EnsembleStages
  <1>6. Unjudged'
    BY DEF Unjudged, EnsembleStages
  <1>7. FirstCounts'
    BY <1>1 DEF OneByOne, SideBySide, FirstCounts
  <1>8. OneByOne'
    <2>1. CASE ok
      <3>1. nextTrial \in 1 .. Trials /\ ~parallel
        BY DEF Checkpointed, SideBySide
      <3>2. /\ child'[nextTrial] = "alive" /\ started' = started \cup {nextTrial}
            /\ \A j \in 1 .. Trials \ {nextTrial} : child'[j] = child[j]
        BY <2>1, <3>1, EnsembleStart
      <3> QED
        BY <2>1, <3>1, <3>2 DEF OneByOne
    <2>2. CASE ~ok
      <3>1. ~parallel
        BY DEF SideBySide
      <3>2. /\ nextTrial' = nextTrial + 1 /\ parent = "start" /\ parent' = "sequence"
            /\ UNCHANGED <<child, started, thread, nextResult, finished, parallel>>
        BY <2>2
      <3> QED
        BY <3>1, <3>2 DEF OneByOne
    <2> QED
      BY <2>1, <2>2
  <1>9. SideBySide'
    BY DEF SideBySide, EnsembleStages
  <1>10. NoneLeft'
    BY DEF NoneLeft, EnsembleStages
  <1> QED
    BY <1>1, <1>2, <1>3, <1>4, <1>5, <1>6, <1>7, <1>8, <1>9, <1>10 DEF EnsembleInv

LEMMA EnsembleTerminate ==
  ASSUME EnsembleInv, NEW ok \in BOOLEAN, Ensemble!Terminate(ok)
  PROVE  EnsembleInv'
  <1> USE EnsembleAssumption DEF EnsembleInv, EnsembleTypes, Ensemble!Terminate,
      Ensemble!Trial, Ensemble!Failed, Ensemble!world, Ensemble!progress
  <1>1. EnsembleTypes'
    BY DEF TrialStates, EnsembleStages, Outcomes
  <1>2. Concluded'
    BY DEF Concluded, EnsembleStages
  <1>3. Checkpointed'
    BY DEF Checkpointed, EnsembleStages
  <1>4. GatheredInv'
    BY DEF GatheredInv, EnsembleStages
  <1>5. Threaded'
    BY DEF Threaded, EnsembleStages
  <1>6. Unjudged'
    BY DEF Unjudged, EnsembleStages
  <1>7. FirstCounts'
    BY DEF FirstCounts, Outcomes
  <1>8. OneByOne'
    BY DEF OneByOne, EnsembleStages
  <1>9. SideBySide'
    BY DEF SideBySide, EnsembleStages
  <1>10. NoneLeft'
    BY DEF NoneLeft, EnsembleStages
  <1> QED
    BY <1>1, <1>2, <1>3, <1>4, <1>5, <1>6, <1>7, <1>8, <1>9, <1>10

LEMMA EnsembleKilled ==
  ASSUME EnsembleInv, NEW ok \in BOOLEAN, Ensemble!Killed(ok)
  PROVE  EnsembleInv'
  <1> USE EnsembleAssumption DEF EnsembleInv, EnsembleTypes, Ensemble!Killed,
    Ensemble!Working, Ensemble!Trial, Ensemble!Failed, Ensemble!world, Ensemble!progress
  <1>1. EnsembleTypes'
    BY DEF TrialStates, EnsembleStages, Outcomes
  <1>2. Concluded'
    BY DEF Concluded, EnsembleStages
  <1>3. Checkpointed'
    BY DEF Checkpointed, EnsembleStages
  <1>4. GatheredInv'
    BY DEF GatheredInv, EnsembleStages
  <1>5. Threaded'
    BY DEF Threaded, EnsembleStages
  <1>6. Unjudged'
    BY DEF Unjudged, EnsembleStages
  <1>7. FirstCounts'
    BY DEF FirstCounts, EnsembleStages
  <1>8. OneByOne'
    BY DEF OneByOne, EnsembleStages
  <1>9. SideBySide'
    BY DEF SideBySide, EnsembleStages
  <1>10. NoneLeft'
    BY DEF NoneLeft, EnsembleStages
  <1> QED
    BY <1>1, <1>2, <1>3, <1>4, <1>5, <1>6, <1>7, <1>8, <1>9, <1>10 DEF EnsembleInv

LEMMA EnsembleStop ==
  ASSUME EnsembleInv, Ensemble!Stop
  PROVE  EnsembleInv'
  <1> USE EnsembleAssumption DEF EnsembleInv, EnsembleTypes, Ensemble!Stop, Ensemble!children,
    Ensemble!Trial, Ensemble!world, Ensemble!progress
  <1>1. EnsembleTypes'
    BY DEF TrialStates, EnsembleStages, Outcomes
  <1>2. Concluded'
    BY DEF Concluded, EnsembleStages
  <1>3. Checkpointed'
    BY DEF Checkpointed, EnsembleStages
  <1>4. GatheredInv'
    BY DEF GatheredInv, EnsembleStages
  <1>5. Threaded'
    BY DEF Threaded, EnsembleStages
  <1>6. Unjudged'
    BY DEF Unjudged, EnsembleStages
  <1>7. FirstCounts'
    BY DEF FirstCounts, EnsembleStages
  <1>8. OneByOne'
    BY DEF OneByOne, EnsembleStages
  <1>9. SideBySide'
    BY DEF SideBySide, EnsembleStages
  <1>10. NoneLeft'
    BY DEF NoneLeft, EnsembleStages
  <1> QED
    BY <1>1, <1>2, <1>3, <1>4, <1>5, <1>6, <1>7, <1>8, <1>9, <1>10 DEF EnsembleInv

\* The parent may pass from one stage to another.
EnsembleMove ==
  /\ parent \in {"fill", "submit", "wait", "gather", "order", "caught", "finally", "leaving"}
  /\ parent' \in {"fill", "wait", "order", "caught", "finally", "leaving", "ended"}
  /\ parent' \in {"fill", "wait", "order"} => parent \in {"fill", "order"}
  /\ parent' = "ended" => \A i \in 1 .. Trials : thread[i] \in {"none", "done"}
  /\ interrupted' \in BOOLEAN
  /\ UNCHANGED <<head, data, parallel, status, disk, nextTrial, nextResult, thread, child, exit,
                 started, returned, gathered, finished, baseline, stopping>>

LEMMA EnsembleMoves ==
  ASSUME EnsembleInv, EnsembleMove
  PROVE  EnsembleInv'
  <1> USE DEF EnsembleInv, EnsembleTypes, EnsembleMove
  <1>1. EnsembleTypes'
    BY DEF EnsembleStages
  <1>2. Concluded'
    BY DEF Concluded
  <1>3. Checkpointed'
    BY DEF Checkpointed
  <1>4. GatheredInv'
    BY DEF GatheredInv
  <1>5. Threaded'
    BY DEF Threaded
  <1>6. Unjudged'
    BY DEF Unjudged
  <1>7. FirstCounts'
    BY DEF FirstCounts
  <1>8. OneByOne'
    BY DEF OneByOne
  <1>9. SideBySide'
    BY DEF SideBySide
  <1>10. NoneLeft'
    BY DEF NoneLeft, Threaded, OneByOne, Concluded
  <1> QED
    BY <1>1, <1>2, <1>3, <1>4, <1>5, <1>6, <1>7, <1>8, <1>9, <1>10

\* The steps that only move the parent.
LEMMA EnsembleMovers ==
  ASSUME EnsembleInv,
         \/ Ensemble!Filled \/ Ensemble!Ordered \/ Ensemble!Interrupt
         \/ Ensemble!InterruptAgain \/ Ensemble!CheckpointFails \/ Ensemble!Caught
         \/ Ensemble!Leave
  PROVE  EnsembleInv'
  <1> USE DEF Ensemble!world, Ensemble!children, Ensemble!progress, EnsembleMove
  <1>1. interrupted \in BOOLEAN /\ EnsembleTypes
    BY DEF EnsembleInv, EnsembleTypes
  <1>2. CASE Ensemble!Filled
    BY <1>1, <1>2, EnsembleMoves DEF Ensemble!Filled
  <1>3. CASE Ensemble!Ordered
    BY <1>1, <1>3, EnsembleMoves DEF Ensemble!Ordered
  <1>4. CASE Ensemble!Interrupt
    BY <1>1, <1>4, EnsembleMoves DEF Ensemble!Interrupt, Ensemble!Working
  <1>5. CASE Ensemble!InterruptAgain
    BY <1>1, <1>5, EnsembleMoves DEF Ensemble!InterruptAgain
  <1>6. CASE Ensemble!CheckpointFails
    BY <1>1, <1>6, EnsembleMoves DEF Ensemble!CheckpointFails
  <1>7. CASE Ensemble!Caught
    BY <1>1, <1>7, EnsembleMoves DEF Ensemble!Caught
  <1>8. CASE Ensemble!Leave
    BY <1>1, <1>8, EnsembleMoves DEF Ensemble!Leave, Ensemble!Trial
  <1> QED
    BY <1>2, <1>3, <1>4, <1>5, <1>6, <1>7, <1>8

LEMMA EnsembleBegin ==
  ASSUME EnsembleInv, Ensemble!Begin
  PROVE  EnsembleInv'
  <1> USE EnsembleAssumption DEF EnsembleInv, EnsembleTypes, Ensemble!Begin,
      Ensemble!children, Ensemble!world, Ensemble!progress
  <1>1. EnsembleTypes'
    BY SMTT(20) DEF TrialStates, EnsembleStages
  <1>2. Concluded'
    BY DEF Concluded, OneByOne, SideBySide
  <1>3. Checkpointed'
    BY DEF Checkpointed, EnsembleStages
  <1>4. GatheredInv'
    BY DEF GatheredInv, EnsembleStages
  <1>5. Threaded'
    BY DEF Threaded, EnsembleStages
  <1>6. Unjudged'
    BY DEF Unjudged, EnsembleStages
  <1>7. FirstCounts'
    BY DEF FirstCounts, OneByOne, SideBySide
  <1>8. OneByOne'
    BY DEF OneByOne, EnsembleStages
  <1>9. SideBySide'
    BY DEF SideBySide, EnsembleStages
  <1>10. NoneLeft'
    BY DEF NoneLeft, OneByOne, SideBySide
  <1> QED
    BY <1>1, <1>2, <1>3, <1>4, <1>5, <1>6, <1>7, <1>8, <1>9, <1>10

LEMMA EnsembleReap ==
  ASSUME EnsembleInv, Ensemble!Reap
  PROVE  EnsembleInv'
  <1> USE EnsembleAssumption DEF EnsembleInv, EnsembleTypes, Ensemble!Reap, Ensemble!Judged,
      Ensemble!Valid, Ensemble!None, Ensemble!children, Ensemble!world, Ensemble!progress
  <1>1. EnsembleTypes'
    BY DEF TrialStates, EnsembleStages, Outcomes, Checkpointed
  <1>2. Concluded'
    <2>1. /\ nextTrial \in 1 .. Trials /\ status[nextTrial] = "running"
          /\ child[nextTrial] = "dead" /\ nextTrial \in started
          /\ UNCHANGED <<started, child, exit>>
      BY DEF Checkpointed, Concluded
    <2>2. CASE exit[nextTrial].code = 0 /\ exit[nextTrial].git = 0 /\ head = 0
               /\ baseline \in {-1, exit[nextTrial].data}
      <3>1. /\ status' = [status EXCEPT ![nextTrial] = "succeeded"]
            /\ baseline' = exit[nextTrial].data
        BY <2>1, <2>2
      <3>2. exit[nextTrial].data # -1
        BY <2>1 DEF Outcomes
      <3>3. \A k \in 1 .. Trials :
              status'[k] = "succeeded" => k = nextTrial \/ status[k] = "succeeded"
        BY <3>1
      <3>4. \A k \in 1 .. Trials : status[k] = "succeeded" => exit[k].data = exit[nextTrial].data
        <4>1. \A k \in 1 .. Trials : exit[k] \in Outcomes
          OBVIOUS
        <4>2. \A o \in Outcomes : o.data # -1
          BY DEF Outcomes
        <4>3. \A k \in 1 .. Trials : exit[k].data # -1
          BY <4>1, <4>2
        <4> QED
          BY <2>2, <4>3 DEF Concluded
      <3>5. status'[nextTrial] = "succeeded"
        BY <2>1, <3>1
      <3> QED
        BY <2>1, <2>2, <3>1, <3>3, <3>4, <3>5 DEF Concluded
    <2>3. CASE ~(exit[nextTrial].code = 0 /\ exit[nextTrial].git = 0 /\ head = 0
               /\ baseline \in {-1, exit[nextTrial].data})
      <3>1. status' = [status EXCEPT ![nextTrial] = "failed"] /\ baseline' = baseline
        BY <2>1, <2>3
      <3> QED
        BY <2>1, <3>1 DEF Concluded
    <2> QED
      BY <2>2, <2>3
  <1>3. Checkpointed'
    BY DEF Checkpointed, EnsembleStages
  <1>4. GatheredInv'
    BY DEF GatheredInv, OneByOne, SideBySide
  <1>5. Threaded'
    BY DEF Threaded, EnsembleStages
  <1>6. Unjudged'
    BY DEF Unjudged, EnsembleStages
  <1>7. FirstCounts'
    BY DEF FirstCounts, OneByOne, SideBySide
  <1>8. OneByOne'
    BY DEF OneByOne, EnsembleStages
  <1>9. SideBySide'
    BY DEF SideBySide, EnsembleStages
  <1>10. NoneLeft'
    BY DEF NoneLeft, EnsembleStages
  <1> QED
    BY <1>1, <1>2, <1>3, <1>4, <1>5, <1>6, <1>7, <1>8, <1>9, <1>10

LEMMA EnsembleInterruptSequence ==
  ASSUME EnsembleInv, Ensemble!InterruptSequence
  PROVE  EnsembleInv'
  <1> USE EnsembleAssumption DEF EnsembleInv, EnsembleTypes, Ensemble!InterruptSequence,
      Ensemble!Trial, Ensemble!Failed, Ensemble!world, Ensemble!progress
  <1>1. EnsembleTypes'
    BY DEF TrialStates, EnsembleStages, Outcomes
  <1>2. Concluded'
    BY DEF Concluded, Checkpointed
  <1>3. Checkpointed'
    BY DEF Checkpointed, EnsembleStages
  <1>4. GatheredInv'
    BY DEF GatheredInv, EnsembleStages
  <1>5. Threaded'
    BY DEF Threaded, EnsembleStages
  <1>6. Unjudged'
    BY DEF Unjudged, EnsembleStages
  <1>7. FirstCounts'
    BY DEF FirstCounts, OneByOne, SideBySide
  <1>8. OneByOne'
    BY DEF OneByOne, EnsembleStages
  <1>9. SideBySide'
    BY DEF SideBySide, EnsembleStages
  <1>10. NoneLeft'
    BY DEF NoneLeft, OneByOne, SideBySide
  <1> QED
    BY <1>1, <1>2, <1>3, <1>4, <1>5, <1>6, <1>7, <1>8, <1>9, <1>10

LEMMA EnsembleInit ==
  ASSUME Ensemble!Init
  PROVE  EnsembleInv
  <1> USE EnsembleAssumption DEF Ensemble!Init, Ensemble!Trial
  <1>1. Ensemble!Failed \in Outcomes
    BY DEF Ensemble!Failed, Outcomes
  <1>2. EnsembleTypes
    <2>1. DOMAIN finished = {} /\ exit \in [1 .. Trials -> Outcomes]
      BY <1>1
    <2>2. status \in [1 .. Trials -> TrialStates] /\ disk \in [1 .. Trials -> TrialStates]
      BY DEF TrialStates
    <2>3. parent \in EnsembleStages
      BY DEF EnsembleStages
    <2>4. thread \in [1 .. Trials -> {"none", "ready", "waiting", "done"}]
      OBVIOUS
    <2>5. child \in [1 .. Trials -> {"none", "alive", "dead"}]
      OBVIOUS
    <2>6. baseline = -1
      BY DEF Ensemble!None
    <2>7. /\ head \in {0, 1} /\ data \in {0, 1} /\ nextTrial = 1 /\ nextResult = 1
          /\ parallel \in BOOLEAN /\ stopping \in BOOLEAN /\ interrupted \in BOOLEAN
          /\ started = {} /\ gathered = {}
      OBVIOUS
    <2> HIDE DEF Ensemble!Init
    <2> QED
      BY <2>1, <2>2, <2>3, <2>4, <2>5, <2>6, <2>7 DEF EnsembleTypes
  <1>3. Concluded /\ Checkpointed /\ GatheredInv /\ Threaded /\ Unjudged
    BY DEF Concluded, Checkpointed, GatheredInv, Threaded, Unjudged, Ensemble!None
  <1>4. FirstCounts /\ OneByOne /\ SideBySide /\ NoneLeft
    BY DEF FirstCounts, OneByOne, SideBySide, NoneLeft
  <1> QED
    BY <1>2, <1>3, <1>4 DEF EnsembleInv

\* No step of the ensemble breaks the invariant, nor does a step that leaves it alone.
LEMMA EnsembleStep ==
  ASSUME EnsembleInv, Ensemble!Next \/ UNCHANGED trialVars
  PROVE  EnsembleInv'
  <1>1. CASE UNCHANGED trialVars
    BY <1>1 DEF trialVars, EnsembleInv, EnsembleTypes, Concluded, Checkpointed, GatheredInv,
                Threaded, Unjudged, FirstCounts, OneByOne, SideBySide, NoneLeft
  <1>2. CASE Ensemble!Commit \/ Ensemble!TicksStored
    BY <1>2, EnsembleCommit, EnsembleTicksStored
  <1>3. ASSUME NEW i \in Ensemble!Trial,
               \/ \E code \in {0, 1} : Ensemble!ChildEnds(i, code)
               \/ Ensemble!ThreadStarts(i) \/ Ensemble!ThreadFails(i) \/ Ensemble!ThreadEnds(i)
               \/ Ensemble!Gather(i) \/ Ensemble!Order(i)
        PROVE  EnsembleInv'
    <2>1. i \in 1 .. Trials
      BY DEF Ensemble!Trial
    <2> QED
      BY <1>3, <2>1, EnsembleChildEnds, EnsembleThreadStarts, EnsembleThreadFails,
         EnsembleThreadEnds, EnsembleGather, EnsembleOrder
  <1>4. CASE Ensemble!Mark \/ Ensemble!Filled \/ Ensemble!Wait \/ Ensemble!Ordered
    BY <1>4, EnsembleMark, EnsembleWait, EnsembleMovers
  <1>5. ASSUME NEW ok \in BOOLEAN,
               \/ Ensemble!Submit(ok) \/ Ensemble!Launch(ok)
               \/ Ensemble!Terminate(ok) \/ Ensemble!Killed(ok)
        PROVE  EnsembleInv'
    BY <1>5, EnsembleSubmit, EnsembleLaunch, EnsembleTerminate, EnsembleKilled
  <1>6. CASE \/ Ensemble!Interrupt \/ Ensemble!InterruptAgain \/ Ensemble!CheckpointFails
             \/ Ensemble!Caught \/ Ensemble!Stop \/ Ensemble!Leave
    BY <1>6, EnsembleStop, EnsembleMovers
  <1>7. CASE Ensemble!Begin \/ Ensemble!Reap \/ Ensemble!InterruptSequence
    BY <1>7, EnsembleBegin, EnsembleReap, EnsembleInterruptSequence
  <1> QED
    BY <1>1, <1>2, <1>3, <1>4, <1>5, <1>6, <1>7 DEF Ensemble!Next

\* What a run of the ensemble ends in can be relied on.
LEMMA EnsembleImplies == EnsembleInv => EnsembleHonest
  <1> SUFFICES ASSUME EnsembleInv PROVE Ensemble!EnsembleHonest
    BY DEF EnsembleHonest
  <1> USE DEF EnsembleInv, Ensemble!Trial
  <1> DEFINE good == {i \in 1 .. Trials : status[i] = "succeeded"}
  <1>1. good \subseteq Ensemble!Sound /\ \A i \in good : exit[i].data = baseline
    BY DEF Concluded, Ensemble!Sound
  <1>2. ASSUME head = 0, NEW i \in Ensemble!Sound, i < nextResult, \A j \in good : i < j
        PROVE  FALSE
    <2>1. PICK j \in 1 .. i : status[j] = "succeeded"
      BY <1>2 DEF FirstCounts, Ensemble!Sound
    <2>2. i \in 1 .. Trials
      BY DEF EnsembleTypes, Ensemble!Sound
    <2> QED
      BY <1>2, <2>1, <2>2, EnsembleAssumption
  <1>3. \A i \in 1 .. Trials : /\ disk[i] = "planned" => i \notin started
                               /\ disk[i] = "succeeded" => i \in good
    BY DEF Checkpointed
  <1>4. parent = "ended" => \A i \in 1 .. Trials : child[i] # "alive"
    BY DEF NoneLeft
  <1> QED
    BY <1>1, <1>2, <1>3, <1>4 DEF Ensemble!EnsembleHonest

LEMMA EnsemblePart ==
  /\ PartsInit => Ensemble!Init
  /\ [PartsNext]_<<part, vars, storeVars, accountVars, replayVars, trialVars>>
       => Ensemble!Next \/ UNCHANGED trialVars
  BY DEF PartsInit, PartsNext

\* Whatever the number of trials and of children at a time, and however the children
\* end, fail or are interrupted: what succeeded ran on one baseline, what is said to be
\* planned never started, and an orderly end leaves no child (run_ensemble).
THEOREM TrialsAreComparable == PartsSpec => []EnsembleHonest
  <1>1. PartsInit => EnsembleInv
    BY EnsemblePart, EnsembleInit
  <1>2. ASSUME EnsembleInv,
               [PartsNext]_<<part, vars, storeVars, accountVars, replayVars, trialVars>>
        PROVE  EnsembleInv'
    BY <1>2, EnsemblePart, EnsembleStep
  <1> QED
    BY <1>1, <1>2, EnsembleImplies, PTL DEF PartsSpec
=============================================================================
