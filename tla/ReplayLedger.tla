----------------------------- MODULE ReplayLedger -----------------------------
(***************************************************************************)
(* The accounts of a backtest: what BacktestEngine (backtest/engine.py)    *)
(* makes of fills, prices and time: realized and unrealized profit, the    *)
(* snapshots the loss limits read, the equity curve, the drawdown and the  *)
(* metrics of the result.  ExecutionSimulator (backtest/simulator.py)      *)
(* prices a fill at the stressed side of the tick.                         *)
(*                                                                         *)
(* Which commands are filled when is ReplayBook's; here any entry or exit  *)
(* may be, in the phases of the handling of a tick.  Carry is              *)
(* RolloverCarry's: no rollover falls due.  A tick has a mid price and a   *)
(* half spread; it is received at a known time, and its broker time may    *)
(* lie before that of earlier ones.  Hours, broker days and the days of    *)
(* the loss limit (JST, not those of the broker) are lengths of time; a    *)
(* minute is 1.                                                            *)
(*                                                                         *)
(* Bounds: the ticks of Offers; no command is filled after MaxFills fills. *)
(***************************************************************************)
EXTENDS Integers, Sequences, FiniteSets, SequencesExt

CONSTANTS
  InitialEquity,
  Offers,             \* what tick may come n-th: sets of [mid, skew, later]
  HalfSpread,         \* observed
  Multiplier,         \* CostModel.spread_multiplier
  Slippages,          \* adverse slippage of a fill
  Through,            \* stop_through_pips
  StopDistance,       \* of every entry, and of its target
  Quantity,           \* of every entry, in volume steps
  EvaluateFrom,       \* the end of the warm-up
  HourLength, DayLength, JstShift,
  MaxFills

VARIABLES
  now, phase,
  seen,         \* the ticks so far, with the fills there were after each
  positions,    \* ExecutionSimulator._positions
  owners,       \* entry_price and entry_mid of the engine, by ticket
  mark,         \* _RunState.marking_tick: its place in seen, 0: none
  realized, byDate, grossMid,
  fills, trades,
  snapshots, curve, peak, drawdown,
  lastHour, lastMinute,
  result

account == <<realized, byDate, grossMid, fills, trades>>
series == <<curve, peak, drawdown, lastMinute>>
vars == <<now, phase, seen, positions, owners, mark, account, snapshots, series, lastHour,
          result>>

None == -1
NoTickets == [t \in {} |-> 0]
Sign(direction) == IF direction = "LONG" THEN 1 ELSE -1
With(f, key, v) == [k \in DOMAIN f \cup {key} |-> IF k = key THEN v ELSE f[k]]
Without(f, gone) == [k \in DOMAIN f \ gone |-> f[k]]
Greater(a, b) == IF a > b THEN a ELSE b
Summed(s) == FoldLeft(LAMBDA a, b : a + b, 0, s)
\* What the keys of a dictionary add up to.
Total(f) ==
  LET keys == SetToSeq(DOMAIN f) IN Summed([i \in DOMAIN keys |-> f[keys[i]]])

-----------------------------------------------------------------------------
(* Prices *)

\* The side of a tick a direction is opened at and closed at.
OpenPrice(direction, t) == t.mid + Sign(direction) * HalfSpread * Multiplier
ClosePrice(direction, t) == t.mid - Sign(direction) * HalfSpread * Multiplier

SignedPnl(direction, entry, exit, quantity) == Sign(direction) * (exit - entry) * quantity

-----------------------------------------------------------------------------
(* The account *)

Unrealized(book, price) ==
  Total([t \in DOMAIN book |->
           SignedPnl(book[t].direction, book[t].entry,
                     ClosePrice(book[t].direction, price), book[t].quantity)])

\* The day of the loss limit, on the broker's clock.
JstStart(t) == ((t + JstShift) \div DayLength) * DayLength - JstShift

RealizedDay(dates, t) ==
  Total([at \in {d \in DOMAIN dates : JstStart(t) <= d /\ d <= t} |-> dates[at]])

\* The account as it will be after the step, with the fills it knows.
Snapshot ==
  LET unrealized == Unrealized(positions', seen'[mark'])
      equity == InitialEquity + realized' + unrealized
      top == Greater(peak, equity)
  IN [at |-> now', balance |-> InitialEquity + realized', equity |-> equity,
      day |-> RealizedDay(byDate', now'), drawdown |-> top - equity,
      fills |-> Len(fills'), ticks |-> Len(seen')]

Init ==
  /\ now = 0 /\ phase = "idle" /\ seen = <<>>
  /\ positions = NoTickets /\ owners = NoTickets /\ mark = 0
  /\ realized = 0 /\ byDate = NoTickets /\ grossMid = 0
  /\ fills = <<>> /\ trades = <<>>
  /\ snapshots = <<[at |-> EvaluateFrom, balance |-> InitialEquity, equity |-> InitialEquity,
                    day |-> 0, drawdown |-> 0, fills |-> 0, ticks |-> 0]>>
  /\ curve = <<>> /\ peak = InitialEquity /\ drawdown = 0
  /\ lastHour = None /\ lastMinute = None
  /\ result = <<>>

Evaluating(t) == t >= EvaluateFrom
Current == seen[Len(seen)]

-----------------------------------------------------------------------------
(* One tick *)

\* Mutant: the last tick received is the price.
Marks_Rewinding(t) == TRUE
\* Valuation does not go back to a tick that is late.
Marks(t) == mark = 0 \/ t.time >= seen[mark].time

Arrive(offer) ==
  /\ phase = "idle" /\ result = <<>>
  /\ now' = now + offer.later
  /\ seen' = Append(seen, [mid |-> offer.mid, time |-> now' + offer.skew, known |-> now',
                           fills |-> Len(fills)])
  /\ mark' = IF Marks(seen'[Len(seen')]) THEN Len(seen') ELSE mark
  /\ phase' = "fills"
  /\ UNCHANGED <<positions, owners, account, series, result>>
  /\ LET hour == now' \div HourLength
     IN IF Evaluating(now')
        THEN /\ lastHour' = Greater(lastHour, hour)
             /\ snapshots' = IF lastHour # None /\ hour > lastHour
                             THEN Append(snapshots, Snapshot) ELSE snapshots
        ELSE UNCHANGED <<lastHour, snapshots>>

InFills == phase \in {"fills", "fills again"}

NextTicket == Cardinality({i \in DOMAIN fills : fills[i].opens}) + 1
Fill(ticket, direction, price, quantity, opens) ==
  [ticket |-> ticket, direction |-> direction, price |-> price, quantity |-> quantity,
   opens |-> opens, mid |-> Current.mid, at |-> Current.time]

Parts(quantity) == {quantity} \cup (IF quantity \div 2 > 0 THEN {quantity \div 2} ELSE {})

FillEntry(direction, slippage, quantity) ==
  /\ InFills /\ Evaluating(now) /\ NextTicket <= MaxFills
  /\ LET price == OpenPrice(direction, Current) + Sign(direction) * slippage
     IN /\ positions' = With(positions, NextTicket,
              [direction |-> direction, quantity |-> quantity, entry |-> price,
               stop |-> price - Sign(direction) * StopDistance,
               target |-> price + Sign(direction) * StopDistance, opened_at |-> Current.time])
        /\ owners' = With(owners, NextTicket, [price |-> price, mid |-> Current.mid])
        /\ fills' = Append(fills, Fill(NextTicket, direction, price, quantity, TRUE))
  /\ UNCHANGED <<now, phase, seen, mark, realized, byDate, grossMid, trades, series, lastHour,
                 result>>
  /\ snapshots' = Append(snapshots, Snapshot)

\* _settle_close: the profit belongs to the fill's broker time; the rest of a
\* partial exit keeps its entry.
SettleClose(ticket, quantity, price) ==
  LET p == positions[ticket]
      net == SignedPnl(p.direction, owners[ticket].price, price, quantity)
      left == p.quantity - quantity
  IN /\ realized' = realized + net
     /\ byDate' = With(byDate, Current.time,
                       net + IF Current.time \in DOMAIN byDate THEN byDate[Current.time] ELSE 0)
     /\ grossMid' = grossMid + SignedPnl(p.direction, owners[ticket].mid, Current.mid, quantity)
     /\ trades' = Append(trades, [ticket |-> ticket, quantity |-> quantity, net |-> net,
                                  at |-> Current.time])
     /\ fills' = Append(fills, Fill(ticket, p.direction, price, quantity, FALSE))
     /\ positions' = IF left = 0 THEN Without(positions, {ticket})
                     ELSE [positions EXCEPT ![ticket].quantity = left]
     /\ owners' = IF left = 0 THEN Without(owners, {ticket}) ELSE owners
     /\ UNCHANGED <<now, seen, mark, series, lastHour, result>>
     /\ snapshots' = Append(snapshots, Snapshot)

FillExit(ticket, slippage) ==
  /\ InFills /\ Evaluating(now) /\ Len(fills) < MaxFills
  /\ \E quantity \in Parts(positions[ticket].quantity) :
       SettleClose(ticket, quantity,
                   ClosePrice(positions[ticket].direction, Current)
                     - Sign(positions[ticket].direction) * slippage)
  /\ UNCHANGED phase

\* _apply_pending finds nothing more to fill.
Filled ==
  /\ InFills
  /\ phase' = IF phase = "fills" THEN "protection" ELSE "protection again"
  /\ UNCHANGED <<now, seen, positions, owners, mark, account, snapshots, series, lastHour,
                 result>>

\* check_protection: the stop first, and no tick from before the position.
Stopped(p) == Sign(p.direction) * (ClosePrice(p.direction, Current) - p.stop) <= 0
Reached(p) == Sign(p.direction) * (ClosePrice(p.direction, Current) - p.target) >= 0
Fired == {t \in DOMAIN positions : /\ Current.time >= positions[t].opened_at
                                   /\ Stopped(positions[t]) \/ Reached(positions[t])}

InProtection == phase \in {"protection", "protection again"}
Protect(ticket) ==
  /\ InProtection /\ ticket \in Fired
  /\ \A t \in Fired : ticket <= t
  /\ LET p == positions[ticket]
     IN SettleClose(ticket, p.quantity,
                    ClosePrice(p.direction, Current)
                      - (IF Stopped(p) THEN Sign(p.direction) * Through ELSE 0))
  /\ UNCHANGED phase

Protected ==
  /\ phase = "protection" /\ Fired = {}
  /\ phase' = "fills again"
  /\ UNCHANGED <<now, seen, positions, owners, mark, account, snapshots, series, lastHour,
                 result>>

Equity == InitialEquity + realized + Unrealized(positions, seen[mark])

\* The end of the handling: drawdown on every tick, the curve by the minute.
EndTick ==
  /\ phase = "protection again" /\ Fired = {}
  /\ phase' = "idle"
  /\ seen' = [seen EXCEPT ![Len(seen)].fills = Len(fills)]
  /\ UNCHANGED <<now, positions, owners, mark, account, snapshots, lastHour, result>>
  /\ IF Evaluating(now)
     THEN /\ peak' = Greater(peak, Equity)
          /\ drawdown' = Greater(drawdown, peak' - Equity)
          /\ IF now # lastMinute \/ Len(fills) # Current.fills
             THEN /\ lastMinute' = now
                  /\ curve' = Append(curve, [at |-> now, equity |-> Equity])
             ELSE UNCHANGED <<lastMinute, curve>>
     ELSE UNCHANGED series

\* What is held, at the mid it was entered at and the mid of the mark.
OpenMid ==
  Total([t \in DOMAIN owners |->
           SignedPnl(positions[t].direction, owners[t].mid, seen[mark].mid,
                     positions[t].quantity)])

\* The end of the replay, and _result.
Finish ==
  /\ phase = "idle" /\ seen # <<>> /\ result = <<>>
  /\ UNCHANGED <<now, phase, seen, positions, owners, mark, account, snapshots, peak, drawdown,
                 lastHour, lastMinute>>
  /\ LET closing == [at |-> now, equity |-> Equity]
     IN curve' = IF curve = <<>> THEN curve
                 ELSE IF Last(curve).at = now THEN Append(Front(curve), closing)
                 ELSE Append(curve, closing)
  /\ LET net == realized + Unrealized(positions, seen[mark])
     IN result' = <<[net |-> net, gross |-> grossMid + OpenMid,
                     cost |-> (grossMid + OpenMid) - net, equity |-> InitialEquity + net,
                     drawdown |-> drawdown]>>

Next ==
  \/ Len(seen) < Len(Offers) /\ \E offer \in Offers[Len(seen) + 1] : Arrive(offer)
  \/ \E direction \in {"LONG", "SHORT"}, slippage \in Slippages, quantity \in Parts(Quantity) :
       FillEntry(direction, slippage, quantity)
  \/ \E ticket \in DOMAIN positions, slippage \in Slippages : FillExit(ticket, slippage)
  \/ Filled
  \/ \E ticket \in DOMAIN positions : Protect(ticket)
  \/ Protected \/ EndTick \/ Finish

Spec == Init /\ [][Next]_vars

-----------------------------------------------------------------------------
(* Properties *)

\* The account by cash: what n fills paid and took, and what they left open at
\* the close price of the last of k ticks in the order of the broker.
LatestOf(k) ==
  CHOOSE i \in 1 .. k : \A j \in 1 .. k :
    seen[j].time < seen[i].time \/ (seen[j].time = seen[i].time /\ j <= i)
Bought(f) == (f.direction = "LONG") = f.opens
Units(f) == IF Bought(f) THEN f.quantity ELSE -f.quantity
CashEquity(n, k) ==
  LET price(direction) == ClosePrice(direction, seen[LatestOf(k)])
  IN InitialEquity
     + Summed([i \in 1 .. n |->
                 Units(fills[i]) * (price(fills[i].direction) - fills[i].price)])

\* What the fills cost against the mid, and what closing the rest would.
CashCost ==
  Summed([i \in 1 .. Len(fills) |-> Units(fills[i]) * (fills[i].price - fills[i].mid)])
  + Total([t \in DOMAIN positions |-> positions[t].quantity * HalfSpread * Multiplier])

Closings(n) == Cardinality({i \in 1 .. n : ~fills[i].opens})
DayResult(n, t) ==
  Summed([i \in 1 .. Closings(n) |->
            IF JstStart(t) <= trades[i].at /\ trades[i].at <= t THEN trades[i].net ELSE 0])

\* The accounts are those of the fills, at every instant they are read: each
\* snapshot, when it is taken, has the equity of the cash paid and of what is
\* open at the latest price the broker had, though a late tick came after it;
\* its day's result is that of the trades of the day; the drawdown is the
\* deepest fall between any two ticks, though the curve is thinned to minutes;
\* and the result's cost is what the fills gave away, never a gain (engine.py,
\* _snapshot, _realized_pnl_day, _result).
LedgerExact ==
  /\ realized = Summed([i \in DOMAIN trades |-> trades[i].net])
  /\ DOMAIN owners = DOMAIN positions
  /\ Len(snapshots) > 1 =>
       LET s == Last(snapshots)
       IN /\ s.equity = CashEquity(s.fills, s.ticks)
          /\ s.day = DayResult(s.fills, s.at)
  /\ result # <<>> =>
       LET r == result[1]
           ends == {i \in DOMAIN seen : Evaluating(seen[i].known)}
           at(i) == IF i = 0 THEN InitialEquity ELSE CashEquity(seen[i].fills, i)
       IN /\ r.equity = CashEquity(Len(fills), Len(seen))
          /\ r.cost = CashCost /\ r.cost >= 0
          /\ \A i \in ends \cup {0}, j \in ends : i <= j => at(i) - at(j) <= r.drawdown
          /\ r.drawdown # 0 => \E i \in ends \cup {0}, j \in ends :
                                  i <= j /\ at(i) - at(j) = r.drawdown
          /\ curve # <<>> => Last(curve) = [at |-> now, equity |-> r.equity]
=============================================================================
