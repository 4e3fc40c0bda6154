--------------------------- MODULE ResearchMirror ---------------------------
(***************************************************************************)
(* storage/research_mirror.py, synchronize: the ticks of chosen symbols    *)
(* are copied into a research database by ranges of ids, each range one    *)
(* transaction, while writers append to the source (TickTable).  A run     *)
(* pins an id ceiling first, stops at a row limit, and may die between any *)
(* two transactions; the next run resumes behind the largest id the        *)
(* research database holds of the symbol.                                  *)
(*                                                                         *)
(* The code's premises hold here: every writer uses insert_many, no tick   *)
(* is updated or deleted (TickTable has no such action), and an advisory   *)
(* lock on the target admits one run at a time.  The replacement of the    *)
(* three small tables is one transaction and is not modelled.              *)
(*                                                                         *)
(* Bound: MaxRuns runs in a behaviour.                                     *)
(***************************************************************************)
EXTENDS TickTable, Sequences

CONSTANTS
  Symbols,    \* options.symbols, in their order
  ChunkSize,  \* the width of a range of ids
  RowLimits,  \* the values max_rows may take; NoLimit for None
  NoLimit,
  MaxRuns

Mirrored == {Symbols[i] : i \in DOMAIN Symbols}

ASSUME MirrorAssumption ==
  /\ Symbols \in Seq(Symbol)
  /\ ChunkSize \in Nat \ {0}
  /\ RowLimits \subseteq (Nat \ {0}) \cup {NoLimit}
  /\ NoLimit \notin Nat
  /\ MaxRuns \in Nat

VARIABLES
  target,    \* market_ticks of the research database
  sync,      \* where a run is: outside, before, or inside its loops
  ceiling,   \* report.ceiling; 0 for a source without ticks
  left,      \* what max_rows leaves to copy
  current,   \* index of the symbol whose key is passed, then of the one copied
  position,  \* ids up to it are copied; NoPosition before the symbol starts
  runs       \* runs so far

mirrorVars == <<target, sync, ceiling, left, current, position, runs>>
vars == <<tableVars, mirrorVars>>

NoPosition == -1

Init ==
  /\ TableInit
  /\ target = {}
  /\ sync = "idle"
  /\ ceiling = 0
  /\ left = NoLimit
  /\ current = 1
  /\ position = NoPosition
  /\ runs = 0

\* _pin_ticks, first statement: SELECT max(id).
Start(limit) ==
  /\ sync = "idle"
  /\ runs < MaxRuns
  /\ runs' = runs + 1
  /\ left' = limit
  /\ \/ rows = {} /\ ceiling' = 0
     \/ \E r \in rows : IsCeiling(r.id) /\ ceiling' = r.id
  /\ current' = 1
  /\ position' = NoPosition
  /\ sync' = "pinning"
  /\ UNCHANGED <<tableVars, target>>

Pin ==
  /\ sync = "pinning"
  /\ current \in DOMAIN Symbols
  /\ KeyFree(Symbols[current])
  /\ current' = current + 1
  /\ UNCHANGED <<tableVars, target, sync, ceiling, left, position, runs>>

AllPinned ==
  /\ sync = "pinning"
  /\ current \notin DOMAIN Symbols
  /\ sync' = "copying"
  /\ current' = 1
  /\ UNCHANGED <<tableVars, target, ceiling, left, position, runs>>

\* SELECT coalesce(max(id), 0) FROM market_ticks WHERE symbol = %s
CopiedIds(s) == {0} \cup {r.id : r \in {x \in target : x.tick.symbol = s}}
LastCopied(s, top) == top \in CopiedIds(s) /\ \A id \in CopiedIds(s) : id <= top

ReadPosition ==
  /\ sync = "copying"
  /\ current \in DOMAIN Symbols
  /\ position = NoPosition
  /\ position' \in CopiedIds(Symbols[current])
  /\ LastCopied(Symbols[current], position')
  /\ UNCHANGED <<tableVars, target, sync, ceiling, left, current, runs>>

\* Mutant: the last id of the range is left out.
IdRange_HalfOpen(s, upper) == {r \in rows : r.tick.symbol = s /\ r.id > position /\ r.id < upper}

\* id > position AND id <= upper
IdRange(s, upper) == {r \in rows : r.tick.symbol = s /\ r.id > position /\ r.id <= upper}

\* Mutant: LIMIT without ORDER BY.
FirstRows_Unordered(range, taken) ==
  /\ taken \subseteq range
  /\ IF left = NoLimit \/ Cardinality(range) <= left
       THEN taken = range ELSE Cardinality(taken) = left

\* ... ORDER BY id LIMIT remaining
FirstRows(range, taken) ==
  /\ taken \subseteq range
  /\ \A r \in taken, q \in range \ taken : r.id < q.id
  /\ IF left = NoLimit \/ Cardinality(range) <= left
       THEN taken = range ELSE Cardinality(taken) = left

Upper == IF position + ChunkSize < ceiling THEN position + ChunkSize ELSE ceiling

CopyChunk ==
  /\ sync = "copying"
  /\ current \in DOMAIN Symbols
  /\ position # NoPosition
  /\ position < ceiling
  /\ left # 0
  /\ \E taken \in SUBSET IdRange(Symbols[current], Upper) :
       /\ FirstRows(IdRange(Symbols[current], Upper), taken)
       /\ target' = target \cup taken
       /\ left' = IF left = NoLimit THEN NoLimit ELSE left - Cardinality(taken)
  /\ position' = Upper
  /\ UNCHANGED <<tableVars, sync, ceiling, current, runs>>

NextSymbol ==
  /\ sync = "copying"
  /\ current \in DOMAIN Symbols
  /\ position # NoPosition
  /\ position >= ceiling \/ left = 0
  /\ current' = current + 1
  /\ position' = NoPosition
  /\ UNCHANGED <<tableVars, target, sync, ceiling, left, runs>>

Finish ==
  /\ sync = "copying"
  /\ current \notin DOMAIN Symbols
  /\ sync' = "idle"
  /\ UNCHANGED <<tableVars, target, ceiling, left, current, position, runs>>

\* A lock_timeout, a failed COPY, a dead connection, Ctrl-C: the open chunk is
\* rolled back, the committed ones stay.
Abandon ==
  /\ sync # "idle"
  /\ sync' = "idle"
  /\ UNCHANGED <<tableVars, target, ceiling, left, current, position, runs>>

MirrorStep ==
  \/ \E limit \in RowLimits : Start(limit)
  \/ Pin
  \/ AllPinned
  \/ ReadPosition
  \/ CopyChunk
  \/ NextSymbol
  \/ Finish
  \/ Abandon

Next ==
  \/ \E w \in Writer : WriterStep(w) /\ UNCHANGED mirrorVars
  \/ MirrorStep

Spec == Init /\ [][Next]_vars

-----------------------------------------------------------------------------
(* Properties *)

TypeOK ==
  /\ TableTypeOK
  /\ target \subseteq Row
  /\ sync \in {"idle", "pinning", "copying"}
  /\ ceiling \in Nat
  /\ left \in Nat \cup {NoLimit}
  /\ current \in Nat \ {0}
  /\ position \in Nat \cup {NoPosition}
  /\ runs \in Nat

Of(s, table) == {r \in table : r.tick.symbol = s}
UpTo(s, top) == {r \in rows : r.tick.symbol = s /\ r.id <= top}

\* The research database holds of every symbol exactly the committed ticks up to
\* its last id: no tick is skipped for good, though ids commit out of order, a
\* limit cuts a range, and a run may die anywhere (the resume position of
\* synchronize is only right if this always holds).
NoGaps ==
  \A s \in Mirrored : \A top \in CopiedIds(s) :
    LastCopied(s, top) => Of(s, target) = UpTo(s, top)

\* A run without a row limit leaves no tick at or below its ceiling behind.
FinishedIsComplete ==
  [][Finish /\ left = NoLimit => \A s \in Mirrored : UpTo(s, ceiling) \subseteq target]_vars

\* Why: what the run has passed can no longer grow, and the position tells how
\* far the current symbol is copied.
PinnedSymbols ==
  CASE sync = "idle" -> {}
    [] sync = "pinning" -> {Symbols[i] : i \in {j \in DOMAIN Symbols : j < current}}
    [] sync = "copying" -> Mirrored
PinsHold == \A s \in PinnedSymbols : Settled(s, ceiling)
CopiesSettled ==
  \A s \in Mirrored : \A id \in CopiedIds(s) : Settled(s, id)
=============================================================================
