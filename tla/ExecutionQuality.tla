--------------------------- MODULE ExecutionQuality ---------------------------
(***************************************************************************)
(* The execution quality study: the stored rows of an order are exported   *)
(* up to an instant (backtest/execution_quality_export.py over             *)
(* storage/execution_observations.py) and measured                         *)
(* (backtest/execution_quality_study.py), while the order lives on.        *)
(*                                                                         *)
(* Around it: the order, which moves along the OMS's transition table with *)
(* a row of execution_state_observations per saved change, and its fills,  *)
(* which arrive when they please.  The recorder of the changes may miss    *)
(* one (Lossy).  All stamps are of one basis; complete fills come from a   *)
(* source other than the exporter, which never claims them.                *)
(*                                                                         *)
(* Bounds: MaxTime, MaxChanges of state, Quantity filled one by one, and   *)
(* four states of the order, from its submission.                          *)
(***************************************************************************)
EXTENDS Integers, FiniteSets, Sequences, SequencesExt

CONSTANTS
  Quantity, MaxTime, MaxChanges,
  Quotes,        \* instants a quote was received at
  MaxAge         \* quote_max_age_seconds

Allowed == [SUBMITTING |-> {"PARTIAL_FILL", "FILLED", "REJECTED", "UNKNOWN"},
            PARTIAL_FILL |-> {"PARTIAL_FILL", "FILLED", "CANCELLED", "UNKNOWN"},
            UNKNOWN |-> {"FILLED", "PARTIAL_FILL", "CANCELLED", "REJECTED"},
            FILLED |-> {}, REJECTED |-> {}, CANCELLED |-> {}]
Terminal == {"FILLED", "REJECTED", "CANCELLED"}
Watched == {"UNKNOWN", "PARTIAL_FILL"}

VARIABLES
  now,
  order,    \* the command's row: state, revision, changed (state_changed_at)
  states,   \* its observed changes: [state, revision, at]
  life,     \* the state of the order at each instant, for the properties
  fills,    \* received: the instants, one unit each
  result    \* of the last measure
vars == <<now, order, states, life, fills, result>>

NoResult == [status |-> "none"]

Init ==
  /\ now = 0
  /\ order = [state |-> "SUBMITTING", revision |-> 0, changed |-> 0]
  /\ states = <<[state |-> "SUBMITTING", revision |-> 0, at |-> 0]>>
  /\ life = [t \in {0} |-> "SUBMITTING"]
  /\ fills = <<>>
  /\ result = NoResult

-----------------------------------------------------------------------------
(* The order *)

Passes ==
  /\ now < MaxTime
  /\ now' = now + 1
  /\ life' = [t \in 0 .. now' |-> IF t = now' THEN order.state ELSE life[t]]
  /\ result' = NoResult
  /\ UNCHANGED <<order, states, fills>>

Fills ==
  /\ Len(fills) < Quantity
  /\ order.state \notin Terminal
  /\ fills' = Append(fills, now)
  /\ result' = NoResult
  /\ UNCHANGED <<now, order, states, life>>

\* A change of state agrees with the fills received; its observation may be lost.
Changes(new, observed) ==
  /\ new \in Allowed[order.state] /\ order.revision < MaxChanges
  /\ new = "FILLED" => Len(fills) = Quantity
  /\ new = "PARTIAL_FILL" => Len(fills) \in 1 .. Quantity - 1
  /\ new \in {"REJECTED", "CANCELLED"} => Len(fills) < Quantity
  /\ order' = [state |-> new, revision |-> order.revision + 1, changed |-> now]
  /\ states' = IF observed
               THEN Append(states, [state |-> new, revision |-> order'.revision, at |-> now])
               ELSE states
  /\ life' = [life EXCEPT ![now] = new]
  /\ result' = NoResult
  /\ UNCHANGED <<now, fills>>

-----------------------------------------------------------------------------
(* The export *)

Steps(history) == 1 .. Len(history) - 1

\* _complete_history
CompleteHistory ==
  /\ [i \in DOMAIN states |-> states[i].revision] = [i \in 1 .. order.revision + 1 |-> i - 1]
  /\ Last(states).state = order.state /\ Last(states).at = order.changed
  /\ \A i \in Steps(states) : /\ states[i].at <= states[i + 1].at
                              /\ states[i + 1].state \in Allowed[states[i].state]

Visible(end) == SelectSeq(states, LAMBDA s : s.at <= end)
FutureState(end) == order.changed > end \/ \E i \in DOMAIN states : states[i].at > end

\* Mutant: an unfinished history is cut as if nothing had been missed.
Exportable_Anyway(end) == TRUE

\* An incomplete history is exported only when nothing in it happened after the end.
\* (The exporter refuses some of these as well: rows saved after the end on the
\* observed clock, last observations that are not the row's on another.  Here such an
\* export is measured.)
Exportable(end) == CompleteHistory \/ ~FutureState(end)

\* The observation of the order the study gets.
Observation(end, fillsComplete) ==
  [states |-> Visible(end),
   final |-> IF CompleteHistory THEN Last(Visible(end)).state ELSE order.state,
   history_complete |-> CompleteHistory,
   fills_complete |-> fillsComplete,
   fills |-> SelectSeq(fills, LAMBDA t : t <= end)]

-----------------------------------------------------------------------------
(* The measure *)

\* order_errors
Errors(o, end) ==
  {e \in {"state_after_terminal", "final_state_mismatch", "complete_history_requires_creation",
          "invalid_state_transition", "overfilled", "filled_state_quantity_mismatch"} :
     CASE e = "state_after_terminal" ->
            \E i \in Steps(o.states) : o.states[i].state \in Terminal
       [] e = "final_state_mismatch" ->
            o.history_complete /\ Last(o.states).state # o.final
       [] e = "complete_history_requires_creation" ->
            o.history_complete /\ o.states[1] # states[1]
       [] e = "invalid_state_transition" ->
            o.history_complete /\ \E i \in Steps(o.states) :
              o.states[i + 1].state \notin Allowed[o.states[i].state]
       [] e = "overfilled" -> Len(o.fills) > Quantity
       [] e = "filled_state_quantity_mismatch" ->
            o.fills_complete /\ o.final = "FILLED" /\ Len(o.fills) # Quantity}

\* The quantity left over an interval, piece by piece between its fills.
Area(o, start, end) ==
  LET within == SelectSeq(o.fills, LAMBDA t : start < t /\ t < end)
      before == Len(SelectSeq(o.fills, LAMBDA t : t <= start))
      pieces == FoldLeft(LAMBDA acc, t : [left |-> acc.left - 1, cursor |-> t,
                                          area |-> acc.area + acc.left * (t - acc.cursor)],
                         [left |-> Quantity - before, cursor |-> start, area |-> 0], within)
  IN  pieces.area + pieces.left * (end - pieces.cursor)

\* pending_intervals
Pending(o, end) ==
  IF ~o.history_complete THEN [status |-> "incomplete_state_history", intervals |-> {}]
  ELSE IF ~o.fills_complete THEN [status |-> "incomplete_fill_history", intervals |-> {}]
  ELSE [status |-> "ok",
        intervals |->
          {[state |-> o.states[i].state, index |-> i,
            censored |-> i = Len(o.states),
            seconds |-> (IF i = Len(o.states) THEN end ELSE o.states[i + 1].at) - o.states[i].at,
            area |-> Area(o, o.states[i].at,
                          IF i = Len(o.states) THEN end ELSE o.states[i + 1].at)] :
             i \in {j \in DOMAIN o.states : o.states[j].state \in Watched}}]

\* quote_at: the last quote not after the instant, if it is not too old.
QuoteAt(t, end) ==
  LET known == {q \in Quotes : q <= t}
      last == CHOOSE q \in known : \A r \in known : r <= q
  IN  IF t > end THEN "right_censored"
      ELSE IF known = {} THEN "missing_quote"
      ELSE IF t - last > MaxAge THEN "stale_quote" ELSE "ok"

\* fill_metrics: the mark of each fill one horizon later.
Marks(o, horizon, end) == [i \in DOMAIN o.fills |-> QuoteAt(o.fills[i] + horizon, end)]

\* The study over an export that ends at end, or over a fuller source.
Measure(end, fillsComplete) ==
  /\ result.status = "none" /\ end <= now
  /\ IF ~Exportable(end)
     THEN result' = [status |-> "refused"]
     ELSE LET o == Observation(end, fillsComplete)
              errors == Errors(o, end)
          IN  result' = [status |-> IF errors = {} THEN "ok" ELSE "invalid",
                         end |-> end, order |-> o,
                         pending |-> IF errors = {} THEN Pending(o, end)
                                     ELSE [status |-> "invalid_order", intervals |-> {}],
                         marks |-> IF errors = {} THEN Marks(o, 1, end) ELSE <<>>]
  /\ UNCHANGED <<now, order, states, life, fills>>

Next ==
  \/ Passes \/ Fills
  \/ \E new \in DOMAIN Allowed, observed \in BOOLEAN : Changes(new, observed)
  \/ \E end \in 0 .. MaxTime, fillsComplete \in BOOLEAN : Measure(end, fillsComplete)

Spec == Init /\ [][Next]_vars

-----------------------------------------------------------------------------
(* Properties *)

\* The state of the order held all over the second after t, and the quantity left.
Left(t) == Quantity - Len(SelectSeq(fills, LAMBDA f : f <= t))
Held(end) == {t \in 0 .. end - 1 : life[t] \in Watched}

\* What the study says of an order is true of it as it was at the end of the
\* window, though it lived on and some of its changes went unseen: no order is
\* called inconsistent, the final state is the one it had, and the seconds and
\* the quantity-seconds it waited in UNKNOWN or PARTIAL_FILL are those it waited
\* (order_errors, pending_intervals, build_input).
ObservationHonest ==
  result.status \notin {"none", "refused"} =>
    /\ result.status = "ok"
    /\ result.order.final = life[result.end]
    /\ \A i \in DOMAIN result.marks :
         result.marks[i] = "ok" => \E q \in Quotes : q \in fills[i] + 1 - MaxAge .. result.end
    /\ result.pending.status = "ok" =>
         /\ MapThenSumSet(LAMBDA i : i.seconds, result.pending.intervals)
              = Cardinality(Held(result.end))
         /\ MapThenSumSet(LAMBDA i : i.area, result.pending.intervals)
              = MapThenSumSet(Left, Held(result.end))
         /\ Cardinality({i \in result.pending.intervals : i.censored}) <= 1
=============================================================================
