----------------------------- MODULE NettingDesk -----------------------------
(***************************************************************************)
(* One symbol of a netting account, shared by several strategies: their    *)
(* targets (PortfolioManager), the order that takes the broker's net       *)
(* position to the sum of them (OMSService.command_for_netting), and the   *)
(* attribution of its fills (allocate_pro_rata, VirtualPositionLedger).    *)
(*                                                                         *)
(* Strategies that want the same at the same time may share an order; the  *)
(* others go one after another, the default of one primary strategy delta  *)
(* per command.  The parts are not wired to each other yet: the actions    *)
(* are the calls, in the order the documents and the tests make them, and  *)
(* the broker's net does not move between the making and the filling of an *)
(* order (the queue does not compute the difference again).                *)
(*                                                                         *)
(* Bounds: MaxUnits units of a target, MaxIntents intents.                 *)
(***************************************************************************)
EXTENDS Integers, FiniteSets, Sequences, SequencesExt

CONSTANTS
  Strategies,   \* strategy ids, in their order
  MaxUnits,
  MaxIntents

VARIABLES
  target,     \* PortfolioManager._targets
  book,       \* VirtualPositionLedger: strategy -> signed units
  net,        \* the broker's net position
  batch,      \* strategy -> units of the intent that are still to be filled
  intent,     \* the intent being realised, or NoIntent
  order,      \* the command at the broker, or NoOrder
  sequence,   \* sequence of the next command of the intent
  intents     \* intents so far

vars == <<target, book, net, batch, intent, order, sequence, intents>>

StrategyId == ToSet(Strategies)
Direction == {"LONG", "SHORT"}
Opening == {"OPEN", "INCREASE"}
NoIntent == [action |-> "none", direction |-> "LONG"]
NoOrder == [side |-> "none", action |-> "none", direction |-> "LONG", quantity |-> 0,
            protected |-> FALSE]
NothingLeft == [s \in StrategyId |-> 0]

Abs(n) == IF n < 0 THEN -n ELSE n
Signed(direction, units) == IF direction = "LONG" THEN units ELSE -units
SideOf(n) == IF n > 0 THEN "LONG" ELSE "SHORT"
\* Over the strategies, in the order of their ids.
Sum(f) == FoldLeft(LAMBDA x, y : x + y, 0, [i \in DOMAIN Strategies |-> f[Strategies[i]]])

Init ==
  /\ target = NothingLeft /\ book = NothingLeft
  /\ net = 0
  /\ batch = NothingLeft
  /\ intent = NoIntent /\ order = NoOrder
  /\ sequence = 0 /\ intents = 0

-----------------------------------------------------------------------------
(* allocate_pro_rata, with a volume step of one *)

\* Shares are cut to whole steps; what is left goes, a step each, to the largest
\* fractions, ties by the order of the ids.
Allocation(requests, filled) ==
  LET total == Sum(requests)
      Cut(s) == (filled * requests[s]) \div total
      Fraction(s) == (filled * requests[s]) % total
      left == filled - Sum([s \in DOMAIN requests |-> Cut(s)])
      Index(s) == CHOOSE i \in DOMAIN Strategies : Strategies[i] = s
      AheadOf(s) == {t \in DOMAIN requests :
                       \/ Fraction(t) > Fraction(s)
                       \/ Fraction(t) = Fraction(s) /\ Index(t) < Index(s)}
  IN  [s \in DOMAIN requests |-> Cut(s) + IF Cardinality(AheadOf(s)) < left THEN 1 ELSE 0]

-----------------------------------------------------------------------------
(* command_for_netting *)

CrossesZero(current, desired) ==
  current # 0 /\ desired # 0 /\ (current > 0) # (desired > 0)

\* Mutant: a delta through zero is one order.
Resulting_Delta(current, desired) == desired
\* The net position the order is to leave: one command never crosses zero.
Resulting(current, desired) == IF CrossesZero(current, desired) THEN 0 ELSE desired

\* The command, or NoOrder: an entry waits until the book is on its side.  An
\* order that shrinks the net is labelled as such and has no protection; others
\* keep the labels of the intent.
CommandForNetting(current, desired, wish) ==
  LET result == Resulting(current, desired)
      shrinks == Abs(result) < Abs(current)
  IN  IF (wish.action \in Opening /\ CrossesZero(current, desired)) \/ desired = current
      THEN NoOrder
      ELSE [side |-> IF desired > current THEN "BUY" ELSE "SELL",
            action |-> CASE shrinks /\ result = 0 -> "CLOSE"
                         [] shrinks /\ result # 0 -> "REDUCE"
                         [] OTHER -> wish.action,
            direction |-> IF shrinks THEN SideOf(current) ELSE wish.direction,
            quantity |-> Abs(result - current),
            protected |-> ~shrinks /\ wish.action \in Opening]

-----------------------------------------------------------------------------
(* The calls *)

Idle == intent = NoIntent

\* Strategies want to move alike: entries of the same units, or exits.  set_target
\* for each of them.
Intend(wants, action, direction, units) ==
  /\ Idle /\ intents < MaxIntents
  /\ wants # {}
  /\ \A s \in wants :
       CASE action = "OPEN" -> book[s] = 0
         [] action = "INCREASE" -> book[s] # 0 /\ SideOf(book[s]) = direction
         [] OTHER -> book[s] # 0 /\ SideOf(book[s]) = direction
  /\ LET aims == [s \in StrategyId |->
                    CASE s \notin wants -> target[s]
                      [] s \in wants /\ action \in Opening -> book[s] + Signed(direction, units)
                      [] OTHER -> 0]
     IN  /\ \A s \in StrategyId : Abs(aims[s]) <= MaxUnits
         /\ target' = aims
         /\ batch' = [s \in StrategyId |-> Abs(aims[s] - book[s])]
  /\ intent' = [action |-> action, direction |-> direction]
  /\ intents' = intents + 1 /\ sequence' = 0
  /\ UNCHANGED <<book, net, order>>

\* The order for what the broker's net still lacks.
Build ==
  /\ ~Idle /\ order = NoOrder
  /\ order' = CommandForNetting(net, Sum(target), intent)
  /\ order' # NoOrder
  /\ sequence' = sequence + 1
  /\ UNCHANGED <<target, book, net, batch, intent, intents>>

\* No order is made: the entry is given up and the target goes back.
Blocked ==
  /\ ~Idle /\ order = NoOrder
  /\ CommandForNetting(net, Sum(target), intent) = NoOrder
  /\ target' = book
  /\ batch' = NothingLeft /\ intent' = NoIntent
  /\ UNCHANGED <<book, net, order, sequence, intents>>

\* The order is filled, perhaps in part, and the rest of it cancelled: the fill is
\* attributed, the rest stays as pending virtual deltas.
Fill(filled) ==
  /\ order # NoOrder
  /\ filled \in 1 .. order.quantity
  /\ LET shares == Allocation(batch, filled)
         sign == IF order.side = "BUY" THEN 1 ELSE -1
     IN  /\ net' = net + sign * filled
         /\ book' = [s \in StrategyId |-> book[s] + sign * shares[s]]
         /\ batch' = [s \in StrategyId |-> batch[s] - shares[s]]
  /\ order' = NoOrder
  /\ intent' = IF batch' = NothingLeft THEN NoIntent ELSE intent
  /\ UNCHANGED <<target, sequence, intents>>

Next ==
  \/ \E wants \in SUBSET StrategyId, action \in {"OPEN", "INCREASE", "CLOSE"},
        direction \in Direction, units \in 1 .. MaxUnits :
       Intend(wants, action, direction, IF action = "CLOSE" THEN 1 ELSE units)
  \/ Build \/ Blocked
  \/ \E filled \in 1 .. MaxUnits * Cardinality(StrategyId) : Fill(filled)

Spec == Init /\ [][Next]_vars

-----------------------------------------------------------------------------
(* Properties *)

TypeOK ==
  /\ target \in [StrategyId -> -MaxUnits .. MaxUnits]
  /\ book \in [StrategyId -> -MaxUnits .. MaxUnits]
  /\ batch \in [StrategyId -> 0 .. 2 * MaxUnits]
  /\ net \in Int /\ sequence \in Nat /\ intents \in 0 .. MaxIntents
  /\ order.quantity \in Nat /\ (order # NoOrder => order.quantity > 0)

\* However its fills are cut, the virtual positions add up to the broker's net,
\* what a strategy holds and is still owed is what it asked for, and an order never
\* buys more than is owed (portfolio/allocation.py).
SharesAddUp ==
  /\ net = Sum(book)
  /\ \A s \in StrategyId : Abs(target[s] - book[s]) = batch[s]
  /\ order.quantity <= Sum(batch)

\* Somebody's position is opposite to the one the intent is about, and hides it, or
\* part of it, in the net.
Masked == \E s \in StrategyId : book[s] # 0 /\ SideOf(book[s]) # intent.direction

\* No fill takes the net position through zero, and a fill that leaves a larger one
\* than before has the stop loss of its entry, unless it is the exit of a position
\* that others mask in the net: only such an exit enlarges the net, and it has no stop
\* (service.py, command_for_netting, "One command never crosses zero").
OneSideAtATime ==
  [][/\ net * net' >= 0
     /\ Abs(net') > Abs(net) => order.protected \/ (intent.action = "CLOSE" /\ Masked)]_net

\* The desk's account (oms/service.py, portfolio/allocation.py).
NettingExact == [](TypeOK /\ SharesAddUp) /\ OneSideAtATime
=============================================================================
