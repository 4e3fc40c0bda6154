---------------------------- MODULE AccountSeries ----------------------------
(***************************************************************************)
(* The account snapshots and the losses measured over them: the collector  *)
(* (data/account/collector.py) that samples the broker and appends a row,  *)
(* the high-water mark each row carries forward from the one before, the   *)
(* day's realized result summed from the deals (realized_pnl.py), and the  *)
(* three loss measures of risk/limits.py over the history a decision cycle *)
(* reads (live/shadow.py): a window plus one row from before it.           *)
(*                                                                         *)
(* The broker's equity moves and deals are booked while the collector is   *)
(* between two of its calls, down, or restarting; a missed period stays    *)
(* missing.  Instants are whole steps; the broker's clock label of an      *)
(* instant keeps its order and is left out.                                *)
(***************************************************************************)
EXTENDS Integers, Sequences, FiniteSetsExt

CONSTANTS
  Levels,       \* equities the account can have
  DayLength,    \* steps of one JST day
  Rolling,      \* steps of the rolling window (24 hours)
  LossWindow,   \* steps a cycle reads back (48 hours)
  Results,      \* results of one deal
  MaxTime,      \* bound on the clock
  MaxDeals      \* bound on the deals booked

VARIABLES
  now,      \* the clock
  equity,   \* the account's equity at the broker
  deals,    \* deals booked: time, whether it is a trade, result
  rows,     \* the stored series: at, equity, mark, result of the day
  sample,   \* the collector's sample not yet stored, or <<>>
  losses    \* the losses the last cycle measured, or <<>>

vars == <<now, equity, deals, rows, sample, losses>>

-----------------------------------------------------------------------------
\* The rows are in the order of their instants, and known by their place.
KnownBy(t) == {i \in DOMAIN rows : rows[i].at <= t}

\* The latest row known at an instant: one, or none.
LatestKnownBefore(t) == IF KnownBy(t) = {} THEN {} ELSE {Max(KnownBy(t))}

JstDayStart(t) == t - (t % DayLength)

\* The mark a new row carries.
HighWaterMark(previous, e) == Max({rows[i].mark : i \in previous} \cup {e})

\* Trading results over [start, end]: funding deals are no result.
ResultOf(traded) == FoldSet(LAMBDA d, sum : sum + d.result, 0, traded)
RealizedBetween(start, end) ==
  ResultOf({d \in deals : d.trade /\ start <= d.at /\ d.at <= end})

\* Mutant: only the window is read.
History_WindowOnly(t) == {i \in KnownBy(t) : rows[i].at >= t - LossWindow}

\* What a cycle reads: the window, and one row from before it.
History(t) ==
  {i \in KnownBy(t) : rows[i].at >= t - LossWindow} \cup LatestKnownBefore(t - LossWindow)

\* The equity a window's loss is measured from.
BaselineEquity(snapshots, start, t) ==
  LET known    == snapshots \cap KnownBy(t)
      eligible == known \cap KnownBy(start)
  IN  IF eligible # {} THEN rows[Max(eligible)].equity
      ELSE IF known # {} THEN rows[Min(known)].equity ELSE 0

\* In per cent of the baseline, never negative.
LossPct(baseline, current) ==
  IF baseline <= 0 \/ current > baseline THEN 0
  ELSE ((baseline - current) * 100) \div baseline

-----------------------------------------------------------------------------
Init ==
  /\ now = 0
  /\ equity \in Levels
  /\ deals = {}
  /\ rows = <<>>
  /\ sample = <<>>
  /\ losses = <<>>

\* account_info, the clock and the row before: the collector's first calls.
Sample ==
  /\ sample = <<>>
  /\ \A i \in DOMAIN rows : rows[i].at < now
  /\ sample' = <<[at |-> now, equity |-> equity,
                  mark |-> HighWaterMark(LatestKnownBefore(now), equity)]>>
  /\ UNCHANGED <<now, equity, deals, rows, losses>>

\* The deals of the day are read and the row is inserted.
Insert ==
  /\ sample # <<>>
  /\ LET s == sample[1]
     IN  rows' = Append(rows, [at |-> s.at, equity |-> s.equity, mark |-> s.mark,
                               result |-> RealizedBetween(JstDayStart(s.at), s.at)])
  /\ sample' = <<>>
  /\ UNCHANGED <<now, equity, deals, losses>>

\* A broker call fails: the process exits with its sample and is restarted.
Fail ==
  /\ sample # <<>>
  /\ sample' = <<>>
  /\ UNCHANGED <<now, equity, deals, rows, losses>>

\* A decision cycle measures the losses of the newest row.
Measure ==
  /\ \E latest \in LatestKnownBefore(now) :
     LET current == rows[latest]
         Loss(start) == LossPct(BaselineEquity(History(now), start, now),
                                current.equity)
     IN  losses' = <<[at |-> now, count |-> Len(rows),
                      daily |-> Loss(JstDayStart(now)),
                      rolling |-> Loss(now - Rolling),
                      fromMark |-> LossPct(current.mark, current.equity)]>>
  /\ UNCHANGED <<now, equity, deals, rows, sample>>

\* Time passes and the equity moves.
Move ==
  /\ now < MaxTime
  /\ now' = now + 1
  /\ equity' \in Levels
  /\ UNCHANGED <<deals, rows, sample, losses>>

\* A deal is booked at the next instant: a trade's result, or funding.
Book ==
  /\ now < MaxTime
  /\ Cardinality(deals) < MaxDeals
  /\ now' = now + 1
  /\ \E trade \in BOOLEAN, result \in Results :
       deals' = deals \cup {[at |-> now + 1, trade |-> trade, result |-> result]}
  /\ UNCHANGED <<equity, rows, sample, losses>>

Next == Sample \/ Insert \/ Fail \/ Measure \/ Move \/ Book

Spec == Init /\ [][Next]_vars

-----------------------------------------------------------------------------
\* The mark of a row is the highest equity ever recorded up to it, through
\* outages and however far the row before lies back.
MarkNeverDecays ==
  \A i \in DOMAIN rows :
    rows[i].mark = Max({rows[k].equity : k \in 1 .. i})

\* A row's result of the day is that of the day's trades up to the row,
\* whenever the deals were read and whatever was deposited.
DayResultIsTrading ==
  \A i \in DOMAIN rows :
    rows[i].result = RealizedBetween(JstDayStart(rows[i].at), rows[i].at)

\* The losses a cycle measured are those of the whole series, however long
\* the outage before the cycle: nothing is forgiven because the row a window
\* starts from was too old to be read.
LossesSeen ==
  losses # <<>> =>
    LET m == losses[1]
        whole == 1 .. m.count
        Loss(start) ==
          LET before == whole \cap KnownBy(start)
              from == IF before = {} THEN 1 ELSE Max(before)
          IN  LossPct(rows[from].equity, rows[m.count].equity)
    IN  /\ m.daily = Loss(JstDayStart(m.at))
        /\ m.rolling = Loss(m.at - Rolling)
        /\ m.fromMark = LossPct(Max({rows[k].equity : k \in whole}), rows[m.count].equity)

\* The account's history cannot hide a loss (limits.py, collector.py).
LossesHonest == MarkNeverDecays /\ DayResultIsTrading /\ LossesSeen
=============================================================================
