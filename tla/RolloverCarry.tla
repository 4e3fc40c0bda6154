---------------------------- MODULE RolloverCarry ----------------------------
(***************************************************************************)
(* The overnight carry of a replay (backtest/engine.py, rollover.py and    *)
(* domain/swap.py).  Ticks arrive in the order they became known; one that *)
(* was received late carries an older broker time, and may open or close a *)
(* position on the far side of a rollover that was processed already.      *)
(* Broker times ahead of the known one, which the simulator also allows    *)
(* for, are left out: the corrections are for late ticks (ADR-016), and    *)
(* the axis of a replay is reconstructed from the known times.             *)
(*                                                                         *)
(* Broker time is laid on the axis of known time: the midnight label of a  *)
(* rollover is its instant.  Money is in points per unit.  Bounds: times   *)
(* up to MaxTime, the tickets, Units of an entry.                          *)
(***************************************************************************)
EXTENDS Integers, FiniteSets, Sequences, SequencesExt

CONSTANTS
  Tickets, Units, MaxTime,
  DayLength,          \* time between two rollovers
  FirstWeekday,       \* ENUM_DAY_OF_WEEK of server day 0
  TripleWeekday,      \* swap_triple_weekday of the configuration
  Feeds               \* the snapshot series to try

VARIABLES
  snapshots,      \* swap_snapshots of the run
  clock, label,   \* known and broker time of the tick
  pc,             \* "accrue": rollovers before the tick, "book": its fills
  next,           \* next_rollover, as a number of days, or 0
  processed,      \* processed_boundaries, as days
  book,           \* open positions: ticket -> [opened, units], units 0 if not open
  charged,        \* carry_charged: ticket -> day -> [perUnit, units]
  unpriced,       \* unpriced_crossings: day -> ticket -> units
  crossings,      \* unpriced_rollovers
  total,          \* carry_total
  trades,         \* set of closed quantities
  snapshot        \* <<carry_total>> of the first account snapshot of the instant, or NoSnapshot

vars == <<snapshots, clock, label, pc, next, processed, book, charged, unpriced,
          crossings, total, trades, snapshot>>

NoSnapshot == <<>>
Midnight(day) == day * DayLength
Nobody == [t \in Tickets |-> 0]
Days == 1 .. MaxTime
Uncharged == [d \in {} |-> 0]
With(f, key, v) == [k \in DOMAIN f \cup {key} |-> IF k = key THEN v ELSE f[k]]
\* What the values of a function add up to.
Total(f) ==
  LET keys == SetToSeq(DOMAIN f)
  IN FoldLeft(LAMBDA a, b : a + b, 0, [i \in DOMAIN keys |-> f[keys[i]]])

Init ==
  /\ snapshots \in Feeds
  /\ clock = 0 /\ label = 0 /\ pc = "accrue"
  /\ next = 0 /\ processed = {}
  /\ book = [t \in Tickets |-> [opened |-> 0, units |-> 0]]
  /\ charged = [t \in Tickets |-> Uncharged]
  /\ unpriced = [d \in Days |-> Nobody]
  /\ crossings = 0 /\ total = 0
  /\ trades = {} /\ snapshot = NoSnapshot

-----------------------------------------------------------------------------
(* domain/swap.py *)

\* rollover_multiplier: three days on the broker's weekday, or on the configured one
\* where the broker names none; nothing at the weekend.
Multiplier(s, day) ==
  LET weekday == (FirstWeekday + day) % 7
      triple == IF s.triple \in 0 .. 6 THEN s.triple ELSE TripleWeekday
  IN  CASE weekday \in DOMAIN s.perDay -> s.perDay[weekday]
        [] weekday \in {0, 6} -> 0
        [] OTHER -> IF weekday = triple THEN 3 ELSE 1

CarryPerUnit(s, day) == IF s.disabled THEN 0 ELSE s.points * Multiplier(s, day)

\* latest_known_before: the newest of the snapshots known at the boundary.
KnownAt(day) == {i \in DOMAIN snapshots : snapshots[i].known <= Midnight(day)}
Priced(day) == KnownAt(day) # {}
PerUnit(day) == CarryPerUnit(snapshots[Max(KnownAt(day))], day)

-----------------------------------------------------------------------------
(* engine.py *)

\* A tick becomes known, at its broker time or later: bars, features and the mark are
\* not part of this.
Tick(known, time) ==
  /\ pc = "book"
  /\ known >= clock /\ time <= known
  /\ clock' = known /\ label' = time
  /\ pc' = "accrue"
  /\ snapshot' = NoSnapshot
  /\ UNCHANGED <<snapshots, next, processed, book, charged, unpriced, crossings, total, trades>>

\* _accrue_carry of the next rollover the clock has reached: what is on the book with
\* an older broker time is charged, or counted where no price was known.
Rollover ==
  /\ pc = "accrue" /\ next # 0 /\ Midnight(next) <= clock
  /\ LET held == {t \in Tickets : book[t].units > 0 /\ book[t].opened < Midnight(next)}
     IN  /\ IF Priced(next)
            THEN /\ charged' = [t \in Tickets |->
                       IF t \in held
                       THEN With(charged[t], next,
                                 [perUnit |-> PerUnit(next), units |-> book[t].units])
                       ELSE charged[t]]
                 /\ total' = total + Total([t \in held |-> PerUnit(next) * book[t].units])
                 /\ UNCHANGED <<unpriced, crossings>>
            ELSE /\ unpriced' = [unpriced EXCEPT ![next] =
                       [t \in Tickets |-> IF t \in held THEN book[t].units ELSE 0]]
                 /\ crossings' = crossings + (IF held # {} THEN 1 ELSE 0)
                 /\ UNCHANGED <<charged, total>>
  /\ processed' = processed \cup {next} /\ next' = next + 1
  /\ UNCHANGED <<snapshots, clock, label, pc, book, trades, snapshot>>

\* No more rollovers: the hourly snapshot, if it is due, then the fills.
Accrued(hourly) ==
  /\ pc = "accrue" /\ (next = 0 \/ Midnight(next) > clock)
  /\ next' = IF next = 0 THEN clock \div DayLength + 1 ELSE next
  /\ pc' = "book"
  /\ snapshot' = IF hourly THEN <<total>> ELSE NoSnapshot
  /\ UNCHANGED <<snapshots, clock, label, processed, book, charged, unpriced, crossings, total, trades>>

\* Fills append a snapshot; corrections are written into those of the instant.
Snapshot(adjusted) ==
  snapshot' = IF adjusted \/ snapshot = NoSnapshot THEN <<total'>> ELSE snapshot

\* An entry is filled: rollovers it lies before, on a late tick, are charged now.
Open(t, units) ==
  /\ pc = "book"
  /\ book[t].units = 0 /\ ~\E trade \in trades : trade.ticket = t
  /\ LET missed == {d \in processed : label < Midnight(d)}
         paid == {d \in missed : Priced(d)}
         open == missed \ paid
     IN  /\ charged' = [charged EXCEPT ![t] =
               [d \in paid |-> [perUnit |-> PerUnit(d), units |-> units]]]
         /\ total' = total + Total([d \in paid |-> PerUnit(d) * units])
         /\ unpriced' = [d \in Days |->
               IF d \in open THEN [unpriced[d] EXCEPT ![t] = @ + units] ELSE unpriced[d]]
         /\ crossings' = crossings + Cardinality({d \in open : unpriced[d] = Nobody})
         /\ Snapshot(paid # {})
  /\ book' = [book EXCEPT ![t] = [opened |-> label, units |-> units]]
  /\ UNCHANGED <<snapshots, clock, label, pc, next, processed, trades>>

\* Mutant: a close at midnight itself is taken for one before it.
ClosedBefore_OrAt(at, day) == at <= Midnight(day)
ClosedBefore(at, day) == at < Midnight(day)

\* A quantity is closed (_settle_close, _reverse_carry_for_close): its part of every
\* charge is used up, and given back where the close lies before the rollover.
Close(t, units) ==
  /\ pc = "book" /\ units \in 1 .. book[t].units
  /\ LET Consumed(d) == IF units < charged[t][d].units THEN units ELSE charged[t][d].units
         back == {d \in DOMAIN charged[t] : ClosedBefore(label, d)}
         Money(days) == Total([d \in days |-> charged[t][d].perUnit * Consumed(d)])
         undone == {d \in Days : ClosedBefore(label, d) /\ unpriced[d][t] > 0}
     IN  /\ total' = total - Money(back)
         /\ charged' = [charged EXCEPT ![t] =
               [d \in {d \in DOMAIN @ : @[d].units > Consumed(d)} |->
                  [perUnit |-> @[d].perUnit, units |-> @[d].units - Consumed(d)]]]
         /\ unpriced' = [d \in Days |->
               IF d \in undone
               THEN [unpriced[d] EXCEPT ![t] = IF @ > units THEN @ - units ELSE 0]
               ELSE unpriced[d]]
         /\ crossings' = crossings - Cardinality({d \in undone : unpriced'[d] = Nobody})
         /\ trades' = trades \cup {[ticket |-> t, left |-> book[t].units - units, units |-> units,
                                    entry |-> book[t].opened, exit |-> label,
                                    carry |-> Money(DOMAIN charged[t] \ back)]}
         /\ Snapshot(back # {})
  /\ book' = [book EXCEPT ![t].units = @ - units]
  /\ UNCHANGED <<snapshots, clock, label, pc, next, processed>>

Next ==
  \/ \E known, time \in 0 .. MaxTime : Tick(known, time)
  \/ Rollover
  \/ \E hourly \in BOOLEAN : Accrued(hourly)
  \/ \E t \in Tickets : Open(t, Units)
  \/ \E t \in Tickets, units \in 1 .. Units : Close(t, units)

Spec == Init /\ [][Next]_vars

-----------------------------------------------------------------------------
(* Properties *)

Crossed(entry, exit) == {d \in processed : entry < Midnight(d) /\ Midnight(d) <= exit}
Due(days, units) == Total([d \in {d \in days : Priced(d)} |-> PerUnit(d) * units])

\* However late the ticks come, every closed quantity bears the carry of the rollovers
\* it was held through in broker time and nothing else, the sum of a run is that of its
\* trades and positions, a rollover without a price is counted while somebody crossed
\* it, and no snapshot of the instant lacks a correction (engine.py, _accrue_carry).
CarryExact ==
  LET Now(t) == Crossed(book[t].opened, Midnight(next))
      held == {t \in Tickets : book[t].units > 0}
  IN  /\ \A trade \in trades : trade.carry = Due(Crossed(trade.entry, trade.exit), trade.units)
      /\ total = Total([trade \in trades |-> trade.carry])
                 + Total([t \in Tickets |-> Due(Now(t), book[t].units)])
      /\ crossings = Cardinality({d \in processed :
            /\ ~Priced(d)
            /\ \/ \E trade \in trades : d \in Crossed(trade.entry, trade.exit)
               \/ \E t \in held : d \in Now(t)})
      /\ snapshot # NoSnapshot => snapshot = <<total>>
=============================================================================
