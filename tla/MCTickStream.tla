---------------------------- MODULE MCTickStream ----------------------------
(***************************************************************************)
(* Ticks and what is made of them, for TLC: the stream of a replay         *)
(* (TickStream) and the accounts of one (ReplayLedger).  A behaviour       *)
(* appends ticks from two writers, or edits the rows of one, or replays a  *)
(* few ticks to its result (part); the rest stays in its initial state.    *)
(***************************************************************************)
EXTENDS TickStream

CONSTANTS eurusd, usdjpy, gbpusd, w1, w2,
  BatchRows,
  InitialEquity, Offers, HalfSpread, Multiplier, Slippages, Through, StopDistance, Quantity,
  EvaluateFrom, HourLength, DayLength, JstShift, MaxFills \* ReplayLedger

\* Costs are never a gain.
ASSUME LedgerAssumption ==
  /\ InitialEquity \in Int /\ EvaluateFrom \in Int /\ StopDistance \in Int
  /\ HalfSpread \in Nat /\ Multiplier \in Nat /\ Through \in Nat /\ Slippages \subseteq Nat
  /\ Quantity \in Nat \ {0} /\ DayLength \in Nat \ {0} /\ JstShift \in Int
  /\ Offers \in Seq(SUBSET [mid: Int, skew: Int, later: Nat])

VARIABLES
  part,
  instant, phase, ticks, positions, owners, mark, realized, byDate, grossMid, fills, trades,
  snapshots, curve, peak, drawdown, lastHour, lastMinute, result \* ReplayLedger

ledgerVars == <<instant, phase, ticks, positions, owners, mark, realized, byDate, grossMid,
                fills, trades, snapshots, curve, peak, drawdown, lastHour, lastMinute, result>>

Ledger == INSTANCE ReplayLedger WITH now <- instant, seen <- ticks

\* Three symbols, two of which hash to one key; the order of the names is not
\* the order of the keys.
Colliding == [s \in {eurusd, usdjpy, gbpusd} |-> IF s = eurusd THEN 2 ELSE 1]

T(s, t, q) == [symbol |-> s, time |-> t, quote |-> q]
SameTime == {T(eurusd, 2, 1), T(usdjpy, 2, 1), T(usdjpy, 2, 2), T(usdjpy, 2, 3),
             T(gbpusd, 2, 1)}
EarlyAndLate == {T(usdjpy, 1, 1), T(usdjpy, 2, 1), T(usdjpy, 3, 1)}
AllTicks == SameTime \cup EarlyAndLate
\* A tick of the warm-up, then two on which an entry may be stopped or reach its
\* target at once, later, or by a tick that is late.
Offer(mid, skew, later) == [mid |-> mid, skew |-> skew, later |-> later]
ThreeOffers == <<{Offer(26, 0, 0)}, {Offer(22, 0, 2), Offer(24, -2, 1)},
                 {Offer(21, 0, 1), Offer(30, -2, 1)}>>

WriterStepOf(w, quotes) ==
  \/ \E some \in SUBSET quotes : Cardinality(some) <= BatchRows /\ Begin(w, some)
  \/ LockNext(w) \/ AllLocked(w) \/ Insert(w) \/ Commit(w) \/ Rollback(w)

\* Quotes of one second under three symbols; nothing is edited.
AppendsNext ==
  \/ \E w \in Writer : WriterStepOf(w, SameTime) /\ UNCHANGED <<readerVars, changes>>
  \/ ReaderStep

\* Rows of one writer are deleted, and moved in, out and across the cursor.
EditsNext ==
  \/ WriterStepOf(w1, EarlyAndLate) /\ UNCHANGED <<readerVars, changes>>
  \/ ReaderStep
  \/ \E r \in rows : Delete(r) \/ \E t \in EarlyAndLate : Update(r, t)

PartsInit == Init /\ Ledger!Init /\ part \in {"appends", "edits", "accounts"}
PartsNext ==
  \/ part = "appends" /\ AppendsNext /\ UNCHANGED <<part, ledgerVars>>
  \/ part = "edits" /\ EditsNext /\ UNCHANGED <<part, ledgerVars>>
  \/ part = "accounts" /\ Ledger!Next /\ UNCHANGED <<part, vars>>
PartsSpec == PartsInit /\ [][PartsNext]_<<vars, part, ledgerVars>> /\ WriterFairness

-----------------------------------------------------------------------------
\* ReplayLedger: the accounts of a backtest are those of its fills.
LedgerExact == Ledger!LedgerExact
=============================================================================
