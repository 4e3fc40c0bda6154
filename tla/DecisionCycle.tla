---------------------------- MODULE DecisionCycle ----------------------------
(***************************************************************************)
(* ShadowRunner (live/shadow.py) over its cycles: the strategies look at   *)
(* the market, PortfolioManager sizes their signals, the arbitrator picks  *)
(* the entries to grade, the risk engine grades them one by one, and every *)
(* result is written to the decision trail (PostgresDecisionRepository).   *)
(*                                                                         *)
(* A cycle reads everything at one frozen instant, so what the collectors  *)
(* write meanwhile is not seen: the market and the account change between  *)
(* two cycles.  Each write of the trail is a transaction of its own, and   *)
(* an exception in a cycle is caught by nobody: the process ends, and the  *)
(* next one starts with an empty memory and an empty ledger.               *)
(*                                                                         *)
(* Bound: MaxCycles cycles; a cycle is one unit of time.                   *)
(***************************************************************************)
EXTENDS Arbitration, StrategySetups

CONSTANTS
  Bound,         \* <<strategy, symbol>>: what each strategy looks at, in its order
  HorizonOf,     \* strategy -> its horizon, for the event calendar
  ValueOf,       \* strategy -> expected_edge_r * conviction of its signals
  Stops,         \* stop distances a set-up may ask for
  Markets,       \* what the tick collector may have written: symbol -> age
  Gates,         \* sets of symbols whose session gate may be open together
  Accounts,      \* what the account collector may have written
  Sights,        \* what a cycle may find: <<strategy, symbol>> -> direction -> set-up
  Ledgers,       \* the virtual books a process may start with
  MaxCycles

ASSUME CycleAssumption ==
  /\ MaxCycles \in Nat
  /\ Markets \subseteq [ToSet(Symbols) \cup ConversionSymbols -> QuoteAge]
  /\ \A a \in Accounts : a.age \in {"none", "stale", "fresh"}
  /\ Bound \in Seq(ToSet(Strategies) \X DOMAIN Base) /\ IsInjective(Bound)
  /\ \A b \in ToSet(Bound) : b[1] \in DOMAIN FirstLook
  /\ \A s \in ToSet(Strategies) : ValueOf[s] \in Int
  /\ Stops \subseteq Nat
  /\ \A book \in Ledgers :
       /\ IsFiniteSet(DOMAIN book) /\ DOMAIN book \subseteq ToSet(Strategies) \X DOMAIN Base
       /\ book \in [DOMAIN book -> Int]
  /\ Sights \subseteq [ToSet(Bound) -> [Side -> SetupId \cup {"none"}]]

VARIABLES
  now,        \* CycleClock: the instant of the last cycle
  market,     \* symbol -> age of its last quote
  account,    \* the last account snapshot
  ledger,     \* VirtualPositionLedger: <<strategy, symbol>> -> signed units
  signaled,   \* _signaled_setups: <<strategy, symbol>> -> memo
  watched,    \* _horizon_exits: <<strategy, symbol>> -> watch
  look,       \* what the strategies saw in the last cycle
  phase,      \* "idle", "collected", "grading" or "raised"
  collected,  \* signals of this cycle still to be sized
  queue,      \* verdicts still to be graded and recorded, in their order
  graded,     \* entries the risk engine graded in this cycle
  trail       \* the decision trail

memory == <<signaled, watched>>
vars == <<now, market, account, ledger, memory, look, phase, collected, queue, graded, trail>>

AllSymbols == ToSet(Symbols) \cup ConversionSymbols
EmptyMemo == [slot \in Side \X BOOLEAN |-> "none"]

HeldSide(book, b) ==
  CASE b \notin DOMAIN book -> "none"
    [] b \in DOMAIN book /\ book[b] = 0 -> "none"
    [] OTHER -> IF book[b] > 0 THEN "LONG" ELSE "SHORT"

Init ==
  /\ now = 0
  /\ market = [s \in AllSymbols |-> "none"]
  /\ account = [age |-> "none", connected |-> FALSE, loss_ok |-> FALSE, margin_ok |-> FALSE]
  /\ ledger \in Ledgers
  /\ signaled = [b \in ToSet(Bound) |-> EmptyMemo]
  /\ watched = [b \in ToSet(Bound) |-> NotWatching]
  /\ look = [b \in {} |-> "none"]
  /\ phase = "idle"
  /\ collected = <<>> /\ queue = <<>> /\ graded = <<>> /\ trail = {}

-----------------------------------------------------------------------------
(* Sizing: PortfolioManager *)

\* The quantity of an entry; 0 is a size left open for want of a rate.
ProposedUnits(signal) ==
  IF ConversionError(market, Quote[signal.symbol], "RISK_INCREASING") # "none" THEN 0
  ELSE TradeBudget \div (100 * signal.stop)

Intent(signal, action, direction, units) ==
  [signal |-> signal, action |-> action, symbol |-> signal.symbol,
   direction |-> direction, units |-> units]

\* intents_from_signal.  A reversal closes what is held and then opens; a signal
\* too small for one step gives nothing.
IntentsFromSignal(signal) ==
  LET held == HeldSide(ledger, <<signal.strategy, signal.symbol>>)
      reverses == held = Opposite(signal.direction)
      close == IF reverses THEN <<Intent(signal, "CLOSE", held, 0)>> ELSE <<>>
      entry == Intent(signal, IF held = signal.direction THEN "INCREASE" ELSE "OPEN",
                      signal.direction, ProposedUnits(signal))
      sizeable == ProposedUnits(signal) > 0
                  \/ ConversionError(market, Quote[signal.symbol], "RISK_INCREASING") # "none"
  IN  CASE signal.exit_only -> close
        [] ~signal.exit_only /\ (signal.stop = 0 \/ ~sizeable) -> <<>>
        [] OTHER -> Append(close, entry)

IntentsOf(signals) ==
  FoldLeft(LAMBDA intents, c : intents \o IntentsFromSignal(c), <<>>, signals)

-----------------------------------------------------------------------------
(* The cycle *)

\* The book the ledger stands for; its positions carry no stop.
LedgerBook ==
  LET held == SetToSeq({b \in DOMAIN ledger : ledger[b] # 0})
  IN  [i \in DOMAIN held |-> [symbol |-> held[i][2], units |-> ledger[held[i]], stop |-> 0]]

Candidate(item) ==
  [strategy |-> item.signal.strategy, symbol |-> item.symbol,
   direction |-> item.direction, value |-> ValueOf[item.signal.strategy],
   exposure |-> [symbol |-> item.symbol, units |-> Signed(item.direction, item.units),
                 stop |-> item.signal.stop],
   expired |-> FALSE, enabled |-> TRUE, item |-> item]

\* What _pretrade_context puts before the risk engine: nothing here has used the
\* order path, so it is reported as unusable.
Context(item, book) ==
  [market |-> market, account |-> account, spread_ok |-> ToSet(Symbols),
   book |-> book, event_mode |-> EventMode(item.symbol, HorizonOf[item.signal.strategy], now),
   kill_switch |-> "NONE", execution_enabled |-> FALSE, account_reconciled |-> FALSE,
   unknown_commands |-> 0, position_mismatch |-> FALSE, untracked_fills |-> 0,
   stop |-> item.signal.stop, requested |-> item.units]

Record(kind, item, action) == [kind |-> kind, signal |-> item, action |-> action]

\* What on_event returns for one bound symbol.
Looked(found, open, b) ==
  Look(b[1], signaled[b], watched[b], found[b], b[2] \in open, HeldSide(ledger, b), 0, now')

Quoted == {s \in ToSet(Symbols) : market[s] \in {"fresh", "crossed"}}

\* Mutant: a signal of a blocked symbol is dropped.
RecordedAtOnce_Sized(signal) == signal.symbol \in Quoted /\ IntentsFromSignal(signal) = <<>>
\* Recorded without a grade: no quote to size it with, or nothing left of it.
RecordedAtOnce(signal) ==
  \/ signal.symbol \in ToSet(Symbols) \ Quoted
  \/ signal.symbol \in Quoted /\ IntentsFromSignal(signal) = <<>>

\* Mutant: every accepted entry is graded against the book the cycle began with.
Verdicts_OneBook(exits, selection) ==
  [i \in DOMAIN exits |-> [kind |-> "exit", item |-> exits[i], book |-> LedgerBook]]
  \o [i \in DOMAIN selection.accepted |->
        [kind |-> "accepted", item |-> selection.accepted[i].candidate.item,
         book |-> LedgerBook]]
  \o [i \in DOMAIN selection.rejected |->
        [kind |-> "rejected", item |-> selection.rejected[i].candidate.item,
         book |-> <<>>]]

\* Exits against the book as it is, accepted entries in their rank against the
\* book with those before them, rejected ones last and ungraded.
Verdicts(exits, selection) ==
  [i \in DOMAIN exits |-> [kind |-> "exit", item |-> exits[i], book |-> LedgerBook]]
  \o [i \in DOMAIN selection.accepted |->
        [kind |-> "accepted", item |-> selection.accepted[i].candidate.item,
         book |-> selection.accepted[i].book_before]]
  \o [i \in DOMAIN selection.rejected |->
        [kind |-> "rejected", item |-> selection.rejected[i].candidate.item,
         book |-> <<>>]]

\* The collectors write, time passes, and the cycle begins at a frozen instant.
Begin(seen, snapshot) ==
  /\ phase = "idle" /\ now < MaxCycles
  /\ now' = now + 1
  /\ \A s \in AllSymbols : market[s] # "none" => seen[s] # "none"
  /\ market' = seen
  /\ account.age # "none" => snapshot.age # "none"
  /\ account' = snapshot

QuotedIn(seen) == {s \in ToSet(Symbols) : seen[s] \in {"fresh", "crossed"}}

\* No account, an old account, or no quote fresh enough: nobody is asked.
BlockedCycle(seen, snapshot) ==
  /\ Begin(seen, snapshot)
  /\ snapshot.age # "fresh" \/ QuotedIn(seen) = {}
  /\ look' = [b \in {} |-> "none"] /\ graded' = <<>>
  /\ UNCHANGED <<ledger, memory, phase, collected, queue, trail>>

\* The strategies look at the market, each at all of its symbols.
Dispatch(seen, snapshot, found, open, stop) ==
  /\ Begin(seen, snapshot)
  /\ snapshot.age = "fresh" /\ QuotedIn(seen) # {}
  /\ look' = [b \in ToSet(Bound) |-> [found |-> found[b], open |-> b[2] \in open,
                                      held |-> HeldSide(ledger, b)]]
  /\ LET seenBy == [b \in ToSet(Bound) |-> Looked(found, open, b)]
         firing == Among(Bound, {b \in ToSet(Bound) : seenBy[b].signal # NoSignal})
     IN  /\ signaled' = [b \in ToSet(Bound) |-> seenBy[b].memo]
         /\ watched' = [b \in ToSet(Bound) |-> seenBy[b].watch]
         /\ collected' = [i \in DOMAIN firing |->
              [strategy |-> firing[i][1], symbol |-> firing[i][2],
               direction |-> seenBy[firing[i]].signal.direction,
               setup |-> seenBy[firing[i]].signal.setup,
               exit_only |-> seenBy[firing[i]].signal.exit_only,
               stop |-> IF seenBy[firing[i]].signal.setup = "horizon" THEN 0 ELSE stop]]
         /\ phase' = IF firing = <<>> THEN "idle" ELSE "collected"
  /\ graded' = <<>>
  /\ UNCHANGED <<ledger, queue, trail>>

Blind == {c \in ToSet(collected) : c.symbol \in ToSet(Symbols) \ Quoted}
Sizeable == Among(collected, {c \in ToSet(collected) : c.symbol \in Quoted})
MarkMissing == \E b \in DOMAIN ledger : ledger[b] # 0 /\ b[2] \notin Quoted

\* A position of a symbol without a fresh quote: quotes[position.symbol] raises,
\* after the signals of such symbols were recorded.
MarkRaises ==
  /\ phase = "collected"
  /\ Sizeable # <<>> /\ MarkMissing
  /\ trail' = trail \cup {Record("signal", c, "none") : c \in Blind}
  /\ phase' = "raised" /\ collected' = <<>>
  /\ UNCHANGED <<now, market, account, ledger, memory, look, queue, graded>>

\* The signals are sized and the entries among them arbitrated.
Plan ==
  /\ phase = "collected"
  /\ Sizeable = <<>> \/ ~MarkMissing
  /\ trail' = trail \cup {Record("signal", c, "none") :
                            c \in {d \in ToSet(collected) : RecordedAtOnce(d)}}
  /\ LET sized == IntentsOf(Sizeable)
         entries == Among(sized, {i \in ToSet(sized) : i.action \in Opening})
     IN  queue' = Verdicts(Among(sized, {i \in ToSet(sized) : i.action = "CLOSE"}),
                           Select([i \in DOMAIN entries |-> Candidate(entries[i])],
                                  LedgerBook))
  /\ phase' = IF queue' = <<>> THEN "idle" ELSE "grading"
  /\ collected' = <<>>
  /\ UNCHANGED <<now, market, account, ledger, memory, look, graded>>

\* The exposure of the book cannot be valued: nobody catches the exception.
GradeRaises ==
  /\ phase = "grading"
  /\ Head(queue).kind # "rejected"
  /\ SnapshotFails(market, Head(queue).book)
  /\ phase' = "raised"
  /\ UNCHANGED <<now, market, account, ledger, memory, look, collected, queue, graded, trail>>

\* One verdict is graded and recorded.
Grade ==
  /\ phase = "grading"
  /\ LET v == Head(queue)
         decision == Evaluate(v.item, Context(v.item, v.book))
     IN  /\ v.kind # "rejected"
         /\ ~SnapshotFails(market, v.book)
         /\ graded' = Append(graded, [item |-> v.item, book |-> v.book,
                                      rejects |-> decision.rejects,
                                      quantity |-> decision.quantity])
         /\ trail' = trail \cup {Record("graded", v.item.signal, v.item.action)}
  /\ queue' = Tail(queue)
  /\ phase' = IF Len(queue) = 1 THEN "idle" ELSE "grading"
  /\ UNCHANGED <<now, market, account, ledger, memory, look, collected>>

RecordRejected ==
  /\ phase = "grading"
  /\ Head(queue).kind = "rejected"
  /\ trail' = trail \cup {Record("arbitrated", Head(queue).item.signal,
                                 Head(queue).item.action)}
  /\ queue' = Tail(queue)
  /\ phase' = IF Len(queue) = 1 THEN "idle" ELSE "grading"
  /\ UNCHANGED <<now, market, account, ledger, memory, look, collected, graded>>

\* The process is started again: memory and ledger are its own and start empty.
Restart ==
  /\ phase = "raised"
  /\ phase' = "idle"
  /\ ledger' = [b \in {} |-> 0]
  /\ signaled' = [b \in ToSet(Bound) |-> EmptyMemo]
  /\ watched' = [b \in ToSet(Bound) |-> NotWatching]
  /\ look' = [b \in {} |-> "none"]
  /\ queue' = <<>> /\ graded' = <<>>
  /\ UNCHANGED <<now, market, account, collected, trail>>

Next ==
  \/ \E seen \in Markets, snapshot \in Accounts : BlockedCycle(seen, snapshot)
  \/ \E seen \in Markets, snapshot \in Accounts, found \in Sights,
        open \in Gates, stop \in Stops : Dispatch(seen, snapshot, found, open, stop)
  \/ MarkRaises \/ Plan
  \/ Grade \/ GradeRaises \/ RecordRejected \/ Restart

Spec == Init /\ [][Next]_vars

-----------------------------------------------------------------------------
(* Properties *)

Signals == [strategy: ToSet(Strategies), symbol: DOMAIN Base, direction: Side,
            setup: SetupId \cup {"horizon"}, exit_only: BOOLEAN, stop: Stops \cup {0}]
Actions == Opening \cup {"CLOSE"}

TypeOK ==
  /\ now \in 0 .. MaxCycles
  /\ market \in [AllSymbols -> QuoteAge]
  /\ account.age \in {"none", "stale", "fresh"}
  /\ \A b \in DOMAIN ledger : ledger[b] \in Int
  /\ signaled \in [ToSet(Bound) -> [Side \X BOOLEAN -> SetupId \cup {"none"}]]
  /\ watched \in [ToSet(Bound) -> Watch]
  /\ phase \in {"idle", "collected", "grading", "raised"}
  /\ \A i \in DOMAIN collected : collected[i] \in Signals
  /\ phase = "idle" => queue = <<>>
  /\ \A i \in DOMAIN queue : queue[i].item.signal \in Signals
                             /\ queue[i].item.action \in Actions
  /\ \A i \in DOMAIN graded : graded[i].quantity \in Nat
  /\ \A r \in trail : r.signal \in Signals /\ r.action \in Actions \cup {"none"}

\* A set-up is signalled once, so between two cycles everything a strategy has
\* used up is in the trail: what was blocked, sized to nothing or arbitrated out
\* included; and no reversal is recorded without the close it begins with
\* (shadow.py, "the dedupe alone would be consumed").
TrailComplete ==
  /\ TypeOK
  /\ phase = "idle" => \A b \in ToSet(Bound) : b[2] \in ToSet(Symbols) =>
       /\ \A slot \in Side \X BOOLEAN : signaled[b][slot] # "none" =>
            \E r \in trail :
              /\ <<r.signal.strategy, r.signal.symbol>> = b
              /\ <<r.signal.direction, r.signal.exit_only>> = slot
              /\ r.signal.setup = signaled[b][slot]
       /\ watched[b].fired =>
            \E r \in trail : <<r.signal.strategy, r.signal.symbol>> = b
                            /\ r.signal.setup = "horizon"
  /\ \A i \in DOMAIN graded :
       LET signal == graded[i].item.signal
       IN  graded[i].item.action = "OPEN"
           /\ HeldSide(ledger, <<signal.strategy, signal.symbol>>) = Opposite(signal.direction)
             => Record("graded", signal, "CLOSE") \in trail

\* While the gate is closed, the reversal of what is held comes through: neither
\* a set-up on the held side nor the entry's slot hides it (the comments in
\* strategy/*/*.py before the first branch).
ReversalNotMasked ==
  phase # "raised" => \A b \in DOMAIN look :
    LET seen == look[b]
        reversal == IF seen.held = "none" THEN "none" ELSE seen.found[Opposite(seen.held)]
    IN  ~seen.open /\ reversal # "none" =>
          \/ signaled[b][<<Opposite(seen.held), TRUE>>] = reversal
          \/ watched[b].fired

\* Entries the risk engine has nothing against but that the order path was never
\* used.
Unexercised == {"EXECUTION_ENABLED", "ACCOUNT_RECONCILED"}
Cleared(g) == g.item.action \in Opening /\ g.rejects \subseteq Unexercised
Granted(g) == [symbol |-> g.item.symbol, stop |-> g.item.signal.stop,
               units |-> Signed(g.item.direction, g.quantity)]
\* The book with what is granted of a sequence of graded entries.
BookWith(grades) ==
  FoldLeft(LAMBDA book, g : IF Cleared(g) THEN Append(book, Granted(g)) ELSE book,
           LedgerBook, grades)
GrantedBook == BookWith(graded)
StopDistance(e) == 100 * e.stop * Abs(e.units)

\* Entries graded one by one keep the limits together: the stop risk of all that
\* is granted stays in the portfolio's budget, and so do the positions and the
\* units of each symbol in their caps.
LimitsTogether ==
  /\ Total(StopDistance, GrantedBook) <= StopBudget
  /\ (\E i \in DOMAIN graded : Cleared(graded[i])) => PortfolioCount(GrantedBook) <= MaxPortfolio
  /\ \A i \in DOMAIN graded : Cleared(graded[i]) =>
       LET s == graded[i].item.symbol
       IN  /\ OpenCount(GrantedBook, s) <= MaxPerSymbol
           /\ IF AccountMode = "NETTING" THEN Abs(Net(GrantedBook, s)) <= MaxUnits[s]
              ELSE Gross(GrantedBook, s) <= MaxUnits[s]

\* The strongest signal wins: an entry only loses to a stronger one that is taken,
\* and the entries taken share no currency leg and complete no triangle.
Accepted == Among(queue, {v \in ToSet(queue) : v.kind = "accepted"})
Exposing == Among(graded, {g \in ToSet(graded) : g.item.action \in Opening})
Taken == [i \in DOMAIN Exposing |-> Exposing[i].item]
         \o [i \in DOMAIN Accepted |-> Accepted[i].item]
Legged(t) == Legs(t.symbol, t.direction)
StrongestWin ==
  /\ \A i, j \in DOMAIN Taken : i # j => Legged(Taken[i]) \cap Legged(Taken[j]) = {}
  /\ LET all == {Taken[i].symbol : i \in DOMAIN Taken} \cup SymbolsOf(LedgerBook)
     IN  Taken # <<>> => \A t \in Triangles(all) :
           Cardinality(t) <= MaxPairs \/ t \subseteq SymbolsOf(LedgerBook)
  /\ \A i \in DOMAIN queue : queue[i].kind = "rejected" =>
       \/ \E j \in DOMAIN Taken :
            /\ Before(Candidate(Taken[j]), Candidate(queue[i].item), LedgerBook)
            /\ \/ Legged(Taken[j]) \cap Legged(queue[i].item) # {}
               \/ \E t \in Triangles(DOMAIN Base) :
                    {Taken[j].symbol, queue[i].item.symbol} \subseteq t
       \/ Capped(Candidate(queue[i].item), LedgerBook, DOMAIN Base)

\* An intent whose size is left open for want of a rate goes to the risk engine
\* all the same, and its reject code is in the trail (manager.py, the comment in
\* intents_from_signal).
UnsizedIsGraded ==
  phase = "raised" => \A i \in DOMAIN queue : queue[i].item.units # 0

\* The book with the entries the risk engine has refused is the stricter one to
\* grade the next entry against (ADR-029, Consequences).
RefusedBookIsStricter ==
  \A i \in DOMAIN graded : Cleared(graded[i]) =>
    Evaluate(graded[i].item,
             Context(graded[i].item, BookWith(SubSeq(graded, 1, i - 1)))).rejects
      \subseteq Unexercised
=============================================================================
