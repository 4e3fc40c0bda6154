------------------------------ MODULE ReplayBook ------------------------------
(***************************************************************************)
(* The position book of a backtest: BacktestEngine (backtest/engine.py)    *)
(* turning the signals of its one strategy on its one symbol into          *)
(* commands, and ExecutionSimulator (backtest/simulator.py) filling them   *)
(* on a hedging account after a latency, with rejects, partial fills and   *)
(* broker-side protection.                                                 *)
(*                                                                         *)
(* The engine is one thread: phase, ready and released are its control     *)
(* state inside the handling of one tick.  Between two ticks phase is      *)
(* "idle".  Ticks arrive in the order of their known time; their broker    *)
(* time may lie before that of earlier ones.  Prices are left out: a tick  *)
(* names the tickets whose stop or target it reaches.  The random numbers  *)
(* of the simulator and the checks of the risk engine other than the cap   *)
(* on open positions are choices; exits pass the risk engine, as its       *)
(* system checks are constants in a replay.                                *)
(*                                                                         *)
(* Bounds: MaxSignals signals in a run (hence as many tickets), MaxTime    *)
(* for the clock.                                                          *)
(***************************************************************************)
EXTENDS Integers, FiniteSets, Sequences, SequencesExt

CONSTANTS
  Latency,      \* CostModel.latency_ms
  MaxOpen,      \* max_open_positions_per_symbol
  Approvable,   \* quantities the risk engine may approve, in volume steps
  Skews,        \* broker time of a tick minus its known time
  MaxSignals, MaxTime

ASSUME ReplayAssumption ==
  /\ Latency \in Nat /\ MaxOpen \in Nat
  /\ Approvable \subseteq Nat \ {0}
  /\ Skews \subseteq Int
  /\ MaxSignals \in Nat /\ MaxTime \in Nat

VARIABLES
  now,          \* the replay clock
  tick,         \* the tick being handled, NoTick between two
  phase,        \* the step of its handling
  positions,    \* ExecutionSimulator._positions: ticket -> position
  openTickets,  \* _RunState.open_tickets of the slot
  ledger,       \* VirtualPositionLedger: signed quantity of the slot
  pending,      \* _RunState.pending
  barriers,     \* the _Barrier of each flip still in flight, by its signal
  deferred,     \* _RunState.deferred of the slot
  ready,        \* what is left of _apply_pending's snapshot
  released,     \* what is left of the signals _release_deferred popped
  signals,      \* signals emitted so far
  opened,       \* units each entry fill opened, by ticket
  traded        \* units the trade records closed, by ticket

bookVars == <<positions, openTickets, ledger, opened, traded>>
queueVars == <<pending, barriers, deferred, released>>
vars == <<now, tick, phase, bookVars, queueVars, ready, signals>>

Direction == {"LONG", "SHORT"}
Signal == [id: Nat, direction: Direction, exit_only: BOOLEAN]
Ticket == 1 .. MaxSignals
NoTicket == 0

Position == [direction: Direction, quantity: Nat \ {0}, opened_at: Int]
Barrier == [tickets: SUBSET Ticket, outstanding: Nat, follow_up: Direction]
Command == [kind: {"ENTRY", "EXIT"}, signal: Nat, direction: Direction,
            quantity: Nat \ {0}, ticket: Nat, created_at: Nat]
Phase == {"idle", "fills_before", "protection_before", "strategy",
          "fills_after", "protection_after"}

\* The phases of handle in their order.
After == [fills_before |-> "protection_before", protection_before |-> "strategy",
          strategy |-> "fills_after", fills_after |-> "protection_after",
          protection_after |-> "idle"]

EmptyBook == [t \in {} |-> NoTicket]
NoTick == [time |-> 0, hit |-> {}]

Init ==
  /\ now = 0
  /\ tick = NoTick
  /\ phase = "idle"
  /\ positions = EmptyBook /\ openTickets = <<>> /\ ledger = 0
  /\ pending = <<>> /\ barriers = EmptyBook
  /\ deferred = <<>> /\ ready = <<>> /\ released = <<>>
  /\ signals = 0
  /\ opened = EmptyBook /\ traded = EmptyBook

-----------------------------------------------------------------------------
(* The book *)

Signed(direction, quantity) == IF direction = "LONG" THEN quantity ELSE -quantity
Opposite(direction) == IF direction = "LONG" THEN "SHORT" ELSE "LONG"
Holds(direction) == ledger # 0 /\ (ledger > 0) = (direction = "LONG")

\* The elements of a sequence that are in S, in their order.
Among(seq, S) ==
  FoldLeft(LAMBDA kept, x : IF x \in S THEN Append(kept, x) ELSE kept, <<>>, seq)

\* The signed units of tickets, all held in book.
NetUnits(book, tickets) ==
  LET units == [i \in DOMAIN tickets |->
                  Signed(book[tickets[i]].direction, book[tickets[i]].quantity)]
  IN  FoldLeft(LAMBDA sum, n : sum + n, 0, units)

\* f with ticket t set to n.
With(f, t, n) == [u \in DOMAIN f \cup {t} |-> IF u = t THEN n ELSE f[u]]
Without(f, gone) == [u \in DOMAIN f \ gone |-> f[u]]

\* A partial fill is half the order, rounded down to the volume step, unless
\* nothing would be left of it.
FillQuantities(quantity) ==
  {quantity} \cup (IF quantity \div 2 > 0 THEN {quantity \div 2} ELSE {})

\* _settle_close after a fill of an exit or a protection: the remainder of a
\* partial fill keeps its ticket.
SettleClose(t, quantity) ==
  LET held == positions[t]
  IN  /\ positions' = IF quantity = held.quantity
                      THEN Without(positions, {t})
                      ELSE With(positions, t, [held EXCEPT !.quantity = @ - quantity])
      /\ openTickets' = IF quantity = held.quantity
                        THEN Among(openTickets, Ticket \ {t})
                        ELSE openTickets
      /\ ledger' = ledger - Signed(held.direction, quantity)
      /\ traded' = With(traded, t, traded[t] + quantity)
      /\ UNCHANGED opened

-----------------------------------------------------------------------------
(* Signals and intents *)

Entries(queue) == Cardinality({i \in DOMAIN queue : queue[i].kind = "ENTRY"})
PendingEntries == Entries(pending)

\* MAX_OPEN_POSITIONS_PER_SYMBOL, approved entries in flight included.
WithinCap(book, queue) == Cardinality(DOMAIN book) + Entries(queue) < MaxOpen

\* The queues after the risk engine has judged an entry and the OMS has built
\* its command.
EntryJudged(book, queue, signal, direction) ==
  {queue} \cup
  {Append(queue, [kind |-> "ENTRY", signal |-> signal, direction |-> direction,
                  quantity |-> quantity, ticket |-> NoTicket, created_at |-> now]) :
     quantity \in IF WithinCap(book, queue) THEN Approvable ELSE {}}

ExitCommand(signal, t) ==
  [kind |-> "EXIT", signal |-> signal, direction |-> positions[t].direction,
   quantity |-> positions[t].quantity, ticket |-> t, created_at |-> now]

\* A CLOSE of every ticket of the slot; prepare_exit selects each one afresh.
Legs(signal) ==
  LET found == Among(openTickets, DOMAIN positions)
  IN  [i \in DOMAIN found |-> ExitCommand(signal, found[i])]

\* intents_from_signal, then _process_intents.  An entry too small to be sized
\* drops the whole signal, the close of a flip included.
Nothing(s) ==
  /\ s.exit_only => ledger = 0 \/ Holds(s.direction)
  /\ UNCHANGED <<pending, barriers>>

Enter(s) ==
  /\ ~s.exit_only
  /\ ledger = 0 \/ Holds(s.direction)
  /\ pending' \in EntryJudged(positions, pending, s.id, s.direction)
  /\ UNCHANGED barriers

\* With no ticket left to close the rest of the intents follows at once.
Close(s) ==
  /\ Holds(Opposite(s.direction))
  /\ IF Legs(s.id) # <<>>
     THEN /\ pending' = pending \o Legs(s.id)
          /\ barriers' = IF s.exit_only THEN barriers
                         ELSE With(barriers, s.id,
                                   [tickets |-> ToSet(openTickets),
                                    outstanding |-> Len(Legs(s.id)),
                                    follow_up |-> s.direction])
     ELSE /\ pending' \in IF s.exit_only THEN {pending}
                          ELSE EntryJudged(positions, pending, s.id, s.direction)
          /\ UNCHANGED barriers

InFlight == pending # <<>>

Defer(s) == deferred' = Append(deferred, s) /\ UNCHANGED <<pending, barriers>>

\* _process_signal.
ProcessSignal(s) ==
  \/ InFlight /\ Defer(s)
  \/ /\ ~InFlight
     /\ Nothing(s) \/ Enter(s) \/ Close(s)
     /\ UNCHANGED deferred

-----------------------------------------------------------------------------
(* The broker: _apply_pending and _fill_pending *)

Executable(p) == p.created_at + Latency <= now /\ p.created_at + Latency <= tick.time

FillPhase == phase \in {"fills_before", "fills_after"}

\* A new snapshot of what can be filled on this tick, until there is nothing.
ApplyPending ==
  /\ FillPhase /\ ready = <<>> /\ released = <<>>
  /\ LET executable == Among(pending, {p \in ToSet(pending) : Executable(p)})
     IN  /\ ready' = executable
         /\ phase' = IF executable = <<>> THEN After[phase] ELSE phase
  /\ UNCHANGED <<now, tick, bookVars, queueVars, signals>>

\* Each command leaves the queue right before its own fill.
LeaveQueue(p) == Among(pending, ToSet(pending) \ {p})

\* Mutant: the reversal follows as soon as every leg is resolved.
Flat_Resolved(book, tickets) == TRUE
Flat(book, tickets) == tickets \cap DOMAIN book = {}

\* Mutant: an exit whose ticket was closed while it was queued leaves its leg uncounted.
StepsBarrier_FilledOnly(p, book) ==
  p.kind = "EXIT" /\ p.signal \in DOMAIN barriers /\ p.ticket \in DOMAIN positions
StepsBarrier(p, book) == p.kind = "EXIT" /\ p.signal \in DOMAIN barriers

\* _barrier_step over the book after the fill.
BarrierStep(p, book, queue) ==
  IF StepsBarrier(p, book)
  THEN LET b == barriers[p.signal]
       IN  IF b.outstanding > 1
           THEN /\ barriers' = With(barriers, p.signal, [b EXCEPT !.outstanding = @ - 1])
                /\ pending' = queue
           ELSE /\ barriers' = Without(barriers, {p.signal})
                /\ pending' \in IF Flat(book, b.tickets)
                                THEN EntryJudged(book, queue, p.signal, b.follow_up)
                                ELSE {queue}
  ELSE UNCHANGED barriers /\ pending' = queue

\* Every resolution of a command hands the held signals back.
ReleaseDeferred == released' = deferred /\ deferred' = <<>>

\* The end of _fill_pending: p has left the queue, the book is what it became.
Resolve(p) ==
  /\ BarrierStep(p, positions', LeaveQueue(p))
  /\ ReleaseDeferred
  /\ ready' = Tail(ready)
  /\ UNCHANGED <<now, tick, phase, signals>>

Filling(p) == FillPhase /\ released = <<>> /\ ready # <<>> /\ p = Head(ready)

\* The ticket was closed while the exit was queued, or the broker rejects.
NotExecuted(p) ==
  /\ Filling(p)
  /\ UNCHANGED bookVars
  /\ Resolve(p)

FillExit(p) ==
  /\ Filling(p)
  /\ p.kind = "EXIT" /\ p.ticket \in DOMAIN positions
  /\ \E quantity \in FillQuantities(p.quantity) :
       LET held == positions[p.ticket].quantity
       IN  SettleClose(p.ticket, IF quantity < held THEN quantity ELSE held)
  /\ Resolve(p)

NextTicket == Cardinality(DOMAIN opened) + 1

FillEntry(p) ==
  /\ Filling(p)
  /\ p.kind = "ENTRY"
  /\ \E quantity \in FillQuantities(p.quantity) :
       /\ positions' = With(positions, NextTicket,
                            [direction |-> p.direction, quantity |-> quantity,
                             opened_at |-> tick.time])
       /\ openTickets' = Append(openTickets, NextTicket)
       /\ ledger' = ledger + Signed(p.direction, quantity)
       /\ opened' = With(opened, NextTicket, quantity)
       /\ traded' = With(traded, NextTicket, 0)
  /\ Resolve(p)

\* One of the signals _release_deferred popped.
ReleaseSignal ==
  /\ released # <<>>
  /\ ProcessSignal(Head(released))
  /\ released' = Tail(released)
  /\ UNCHANGED <<now, tick, phase, bookVars, ready, signals>>

-----------------------------------------------------------------------------
(* Protection, the strategy and the ticks *)

\* check_protection: the price reaches the ticket's stop or target, and the
\* tick is not older than the position.
Fires(t) == t \in tick.hit /\ positions[t].opened_at <= tick.time

\* A protection fill takes what the book still holds.
Protected(t) == positions[t].quantity

\* _apply_protection over the whole book.
ApplyProtection ==
  /\ phase \in {"protection_before", "protection_after"}
  /\ LET fired == {t \in DOMAIN positions : Fires(t)}
     IN  /\ positions' = Without(positions, fired)
         /\ openTickets' = Among(openTickets, Ticket \ fired)
         /\ ledger' = ledger - NetUnits(positions, Among(openTickets, fired))
         /\ traded' = [t \in DOMAIN traded |->
                         traded[t] + IF t \in fired THEN Protected(t) ELSE 0]
  /\ phase' = After[phase]
  /\ tick' = IF phase' = "idle" THEN NoTick ELSE tick
  /\ UNCHANGED <<now, opened, queueVars, ready, signals>>

\* on_event returns one more signal ...
StrategySignal(direction, exitOnly) ==
  /\ phase = "strategy"
  /\ signals < MaxSignals
  /\ signals' = signals + 1
  /\ ProcessSignal([id |-> signals + 1, direction |-> direction, exit_only |-> exitOnly])
  /\ UNCHANGED <<now, tick, phase, bookVars, ready, released>>

\* ... or there is none left, or the tick belongs to the warm-up.
StrategyDone ==
  /\ phase = "strategy"
  /\ phase' = After[phase]
  /\ UNCHANGED <<now, tick, bookVars, queueVars, ready, signals>>

\* The next tick: received now or later, its broker time skewed either way.  The
\* stops and targets of closed tickets are left out of it, as nothing reads them.
TickArrives(later, skew, hit) ==
  /\ phase = "idle"
  /\ now + later <= MaxTime
  /\ hit \cap DOMAIN opened \subseteq DOMAIN positions
  /\ now' = now + later
  /\ tick' = [time |-> now' + skew, hit |-> hit]
  /\ phase' = "fills_before"
  /\ UNCHANGED <<bookVars, queueVars, ready, signals>>

-----------------------------------------------------------------------------
Next ==
  \/ ApplyPending
  \/ \E p \in ToSet(ready) : NotExecuted(p) \/ FillExit(p) \/ FillEntry(p)
  \/ ReleaseSignal
  \/ ApplyProtection
  \/ \E direction \in Direction, exitOnly \in BOOLEAN : StrategySignal(direction, exitOnly)
  \/ StrategyDone
  \/ \E later \in {0, 1}, skew \in Skews, hit \in SUBSET Ticket :
       TickArrives(later, skew, hit)

Spec == Init /\ [][Next]_vars

-----------------------------------------------------------------------------
(* Properties *)

TypeOK ==
  /\ now \in Nat
  /\ tick \in [time: Int, hit: SUBSET Ticket]
  /\ phase \in Phase
  /\ DOMAIN positions \subseteq Ticket
  /\ \A t \in DOMAIN positions : positions[t] \in Position
  /\ openTickets \in Seq(Ticket)
  /\ ledger \in Int
  /\ pending \in Seq(Command) /\ ready \in Seq(Command)
  /\ \A s \in DOMAIN barriers : barriers[s] \in Barrier
  /\ deferred \in Seq(Signal) /\ released \in Seq(Signal)
  /\ signals \in 0 .. MaxSignals
  /\ DOMAIN traded = DOMAIN opened

\* Whatever is rejected, filled in part or closed by protection, a flip never
\* stacks LONG and SHORT tickets, nor queues an entry against a held side
\* (engine.py, _Barrier).
NeverHedged ==
  /\ \A t, u \in DOMAIN positions : positions[t].direction = positions[u].direction
  /\ \A i \in DOMAIN pending : pending[i].kind = "ENTRY" =>
       \A t \in DOMAIN positions : positions[t].direction = pending[i].direction

\* One resolution at a time: the queue holds a single entry or the legs of a
\* single close, one leg per ticket; so no close and no reversal is duplicated.
OneResolution ==
  \A i, j \in DOMAIN pending : i # j =>
    /\ pending[i].kind = "EXIT"
    /\ pending[i].signal = pending[j].signal
    /\ pending[i].ticket # pending[j].ticket

\* Nobody waits for nothing: while a signal is held something in the queue will
\* hand it back, and a flip in flight has a leg whose resolution it waits for, so
\* that no reject and no no-op forgets a signal or a reversal.
WaitsEnd ==
  /\ deferred # <<>> => pending # <<>>
  /\ \A s \in DOMAIN barriers :
       \E i \in DOMAIN pending : pending[i].kind = "EXIT" /\ pending[i].signal = s

\* Held signals resolve in the order the strategy emitted them.
SignalsInOrder ==
  LET held == deferred \o released
  IN  \A i, j \in DOMAIN held : i < j => held[i].id < held[j].id

\* The strategy's ledger, the engine's tickets and the simulator's book agree
\* between any two steps, and every unit opened is traded once or still held.
BooksAgree ==
  /\ IsInjective(openTickets) /\ ToSet(openTickets) = DOMAIN positions
  /\ ledger = NetUnits(positions, openTickets)
  /\ DOMAIN positions \subseteq DOMAIN opened
  /\ \A t \in DOMAIN opened :
       opened[t] = traded[t] + IF t \in DOMAIN positions THEN positions[t].quantity ELSE 0

\* Entries approved one by one never exceed the cap together.
CapKept == Cardinality(DOMAIN positions) + PendingEntries <= MaxOpen

\* The broker's book stays within the rules of the account, and the three books
\* of it agree (engine.py, _Barrier, _pending_entry_load, _settle_close).
BookWithinRules == NeverHedged /\ CapKept /\ BooksAgree

\* The queue resolves one thing at a time, in order, and forgets nothing.
QueueOrderly == TypeOK /\ OneResolution /\ WaitsEnd /\ SignalsInOrder
=============================================================================
