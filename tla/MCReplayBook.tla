---------------------------- MODULE MCReplayBook ----------------------------
(***************************************************************************)
(* The books of positions, for TLC: the replay's book (ReplayBook), its    *)
(* carry (RolloverCarry), the netted account of several strategies         *)
(* (NettingDesk) and the trade cycle that probes a broker (Preflight).  A  *)
(* behaviour runs one of them (part); the others stay in an initial state. *)
(***************************************************************************)
EXTENDS ReplayBook, TLC

CONSTANTS
  t1, t2,
  Tickets, Units, Horizon, DayLength, FirstWeekday, TripleWeekday, Feeds,  \* RolloverCarry
  Strategies, MaxUnits, MaxIntents,    \* NettingDesk
  VolumeMin, VolumeStep, Closes        \* Preflight

ASSUME BooksAssumption ==
  /\ Strategies \in Seq(STRING) /\ IsInjective(Strategies)
  /\ MaxUnits \in Nat /\ MaxIntents \in Nat
  /\ VolumeMin \in Nat \ {0} /\ VolumeStep \in Nat \ {0} /\ Closes \in Nat

\* A snapshot of the swap: when known, points, the triple weekday, multipliers
\* of single weekdays, whether the broker charges none.
IsSnapshot(s) ==
  /\ {s.known, s.points, s.triple} \subseteq Int /\ s.disabled \in BOOLEAN
  /\ \A day \in DOMAIN s.perDay : s.perDay[day] \in Int
ASSUME CarryAssumption ==
  /\ IsFiniteSet(Tickets)
  /\ Units \in Nat \ {0} /\ Horizon \in Nat /\ DayLength \in Nat \ {0}
  /\ FirstWeekday \in 0 .. 6 /\ TripleWeekday \in 0 .. 6
  /\ Feeds # {}
  /\ \A feed \in Feeds : /\ Len(feed) \in Nat /\ DOMAIN feed = 1 .. Len(feed)
                         /\ \A i \in DOMAIN feed : IsSnapshot(feed[i])

VARIABLES
  part,
  snapshots, clock, label, pc, next, processed, book, charged, unpriced,
  crossings, total, trades, snapshot,                              \* RolloverCarry
  target, books, net, batch, intent, order, sequence, intents,     \* NettingDesk
  stage, account, pos, hidden, dealt, fired, failed, ticket, before, chase,
  fresh, tries                                                     \* Preflight

carryVars == <<snapshots, clock, label, pc, next, processed, book, charged, unpriced,
               crossings, total, trades, snapshot>>
netVars == <<target, books, net, batch, intent, order, sequence, intents>>
probeVars == <<stage, account, pos, hidden, dealt, fired, failed, ticket, before,
               chase, fresh, tries>>

Snapshot(known, points, triple, perDay, disabled) ==
  [known |-> known, points |-> points, triple |-> triple, perDay |-> perDay,
   disabled |-> disabled]
NoDays == [d \in {} |-> 0]
\* A price that changes, on single days as well; one that comes after a rollover,
\* with the configured triple day, and is stopped at another.
TwoFeeds ==
  {<<Snapshot(0, 1, 3, NoDays, FALSE), Snapshot(2, 10, 9, (3 :> 2), FALSE)>>,
   <<Snapshot(2, 1, 9, NoDays, FALSE), Snapshot(3, 1, 3, NoDays, TRUE)>>}

Carry == INSTANCE RolloverCarry WITH MaxTime <- Horizon

Netting == INSTANCE NettingDesk WITH book <- books

Probe == INSTANCE Preflight WITH pc <- stage

LateOrNot == {-1, 0}
ThreeStrategies == <<"a", "b", "c">>
TicketSymmetry == Permutations({t1, t2})

-----------------------------------------------------------------------------
PartsInit ==
  /\ part \in {"replay", "carry", "netting", "probe"}
  /\ Init /\ Carry!Init /\ Netting!Init /\ Probe!Init
  /\ part # "probe" =>
       account = [mode |-> "HEDGING", expected |-> "HEDGING", trade |-> "DEMO",
                  cycle |-> TRUE, held |-> 0]
  /\ part # "carry" => snapshots = CHOOSE feed \in Feeds : TRUE

PartsNext ==
  \/ /\ part = "replay" /\ Next
     /\ UNCHANGED <<part, carryVars, netVars, probeVars>>
  \/ /\ part = "carry" /\ Carry!Next
     /\ UNCHANGED <<part, vars, netVars, probeVars>>
  \/ /\ part = "netting" /\ Netting!Next
     /\ UNCHANGED <<part, vars, carryVars, probeVars>>
  \/ /\ part = "probe" /\ Probe!Next
     /\ UNCHANGED <<part, vars, carryVars, netVars>>

PartsSpec == PartsInit /\ [][PartsNext]_<<part, vars, carryVars, netVars, probeVars>>

-----------------------------------------------------------------------------
(* The properties of the parts, in this module's names. *)

\* RolloverCarry: each rollover is charged once, at the swap known then.
CarryExact == Carry!CarryExact
\* NettingDesk: shares add up to the net, no order crosses zero, and only the exit of
\* a masked position enlarges the net without a stop.
NettingExact == Netting!NettingExact
\* Preflight: the probe leaves no position behind.
LeavesNoTrace == Probe!LeavesNoTrace
=============================================================================
