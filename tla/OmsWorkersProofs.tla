-------------------------- MODULE OmsWorkersProofs --------------------------
(***************************************************************************)
(* Proofs about OmsWorkers for every set of workers and commands, every    *)
(* lease, timeout and bound: the state is well typed, order_send is called *)
(* at most once for a command, a command is submitted before its signal    *)
(* and its lease expire, a claim changes hands only by release, a resolved *)
(* command stays as it is, and a claim is released only when its lease is  *)
(* over.  For workers that call order_send within the timeout of a         *)
(* submission, the rows say of the broker what the broker did, and each    *)
(* step is a step of CommandEffect or a stutter.                           *)
(***************************************************************************)
EXTENDS OmsWorkers, TLAPS

-----------------------------------------------------------------------------
(* The operators of OmsCommand: the proofs below use these facts in place of *)
(* the definitions.                                                          *)

\* The table only names states.
LEMMA AllowedType ==
  ASSUME NEW s \in CommandState
  PROVE  Allowed[s] \subseteq CommandState
  BY DEF Allowed, CommandState

\* transition keeps the type of a command, counts one revision and touches
\* the claim only when it returns the command to READY.
LEMMA TransitionFacts ==
  ASSUME NEW cmd \in ExecutionCommand, NEW new \in CommandState
  PROVE  /\ Transition(cmd, new) \in ExecutionCommand
         /\ Transition(cmd, new).state = new
         /\ Transition(cmd, new).state_revision = cmd.state_revision + 1
         /\ Transition(cmd, new).quantity = cmd.quantity
         /\ Transition(cmd, new).submitting_at = cmd.submitting_at
         /\ Transition(cmd, new).claimed_by = IF new = "READY" THEN Nobody ELSE cmd.claimed_by
         /\ Transition(cmd, new).claim_expires_at =
              IF new = "READY" THEN NoTime ELSE cmd.claim_expires_at
         /\ Transition(cmd, new).broker_request_started_at = cmd.broker_request_started_at
  <1> DEFINE owner == IF new = "READY" THEN Nobody ELSE cmd.claimed_by
             lease == IF new = "READY" THEN NoTime ELSE cmd.claim_expires_at
             stated == [cmd EXCEPT !.state = new]
             counted == [stated EXCEPT !.state_revision = cmd.state_revision + 1]
             owned == [counted EXCEPT !.claimed_by = owner]
  <1>1. owner \in Worker \cup {Nobody} /\ lease \in TimeOrNull
    BY DEF ExecutionCommand, TimeOrNull
  <1>2. Transition(cmd, new) = [owned EXCEPT !.claim_expires_at = lease]
    BY Zenon DEF Transition
  <1>3. stated \in ExecutionCommand
    BY DEF ExecutionCommand
  <1>4. counted \in ExecutionCommand
    <2>1. cmd.state_revision + 1 \in Nat
      BY DEF ExecutionCommand
    <2> HIDE DEF stated
    <2>2. QED
      BY <1>3, <2>1 DEF ExecutionCommand
  <1>5. owned \in ExecutionCommand
    BY <1>1, <1>4 DEF ExecutionCommand
  <1>6. Transition(cmd, new) \in ExecutionCommand
    BY <1>1, <1>2, <1>5 DEF ExecutionCommand
  <1>7. QED
    BY <1>6 DEF Transition, ExecutionCommand

\* A claim carries its worker and a lease that ends after now.
LEMMA MarkClaimedFacts ==
  ASSUME NEW cmd \in ExecutionCommand, NEW w \in Worker, NEW t \in Nat
  PROVE  /\ MarkClaimed(cmd, w, t) \in ExecutionCommand
         /\ MarkClaimed(cmd, w, t).state = "CLAIMED"
         /\ MarkClaimed(cmd, w, t).claimed_by = w
         /\ MarkClaimed(cmd, w, t).claim_expires_at = t + LeaseSeconds
         /\ MarkClaimed(cmd, w, t).claim_expires_at > t
         /\ MarkClaimed(cmd, w, t).submitting_at = cmd.submitting_at
  <1>1. "CLAIMED" \in CommandState
    BY DEF CommandState
  <1>2. Transition(cmd, "CLAIMED") \in ExecutionCommand
    BY <1>1, TransitionFacts
  <1>3. t + LeaseSeconds \in Nat /\ t + LeaseSeconds > t
    BY LeaseAssumption
  <1>4. QED
    BY <1>1, <1>2, <1>3, TransitionFacts
    DEF MarkClaimed, ExecutionCommand, TimeOrNull, Time

\* A submission keeps the claim it was decided under.
LEMMA MarkSubmittingFacts ==
  ASSUME NEW cmd \in ExecutionCommand, NEW t \in Nat
  PROVE  /\ MarkSubmitting(cmd, t) \in ExecutionCommand
         /\ MarkSubmitting(cmd, t).state = "SUBMITTING"
         /\ MarkSubmitting(cmd, t).claimed_by = cmd.claimed_by
         /\ MarkSubmitting(cmd, t).claim_expires_at = cmd.claim_expires_at
         /\ MarkSubmitting(cmd, t).submitting_at = t
  <1>1. "SUBMITTING" \in CommandState
    BY DEF CommandState
  <1>2. Transition(cmd, "SUBMITTING") \in ExecutionCommand
    BY <1>1, TransitionFacts
  <1>3. QED
    BY <1>1, <1>2, TransitionFacts DEF MarkSubmitting, ExecutionCommand, TimeOrNull, Time

\* Recording the broker request changes nothing but its time.
LEMMA MarkBrokerRequestStartedFacts ==
  ASSUME NEW cmd \in ExecutionCommand, NEW t \in Nat
  PROVE  /\ MarkBrokerRequestStarted(cmd, t) \in ExecutionCommand
         /\ MarkBrokerRequestStarted(cmd, t).state = cmd.state
         /\ MarkBrokerRequestStarted(cmd, t).claimed_by = cmd.claimed_by
         /\ MarkBrokerRequestStarted(cmd, t).claim_expires_at = cmd.claim_expires_at
         /\ MarkBrokerRequestStarted(cmd, t).submitting_at = cmd.submitting_at
  BY DEF MarkBrokerRequestStarted, ExecutionCommand, TimeOrNull, Time

\* The sweep gives a command back only from CLAIMED and otherwise calls it
\* UNKNOWN; from SUBMITTING there is no way back to READY.
LEMMA RecoveryFacts ==
  ASSUME NEW cmd \in ExecutionCommand, NEW t \in Nat, IsStale(cmd, t)
  PROVE  /\ RecoveryState(cmd) \in {"READY", "UNKNOWN"}
         /\ RecoveryState(cmd) = "READY" => cmd.state = "CLAIMED"
         /\ cmd.state \in {"CLAIMED", "SUBMITTING"}
  BY DEF IsStale, RecoveryState

\* resolve_unknown never makes a command claimable again.
LEMMA ResolvedFacts ==
  ASSUME NEW cmd, NEW found, NEW live, NEW filled,
         NEW s \in ResolvedState(cmd, found, live, filled)
  PROVE  s \in {"FILLED", "PARTIAL_FILL", "CANCELLED", "REJECTED"}
  BY DEF ResolvedState

-----------------------------------------------------------------------------
(* Types *)

\* The states the steps below name are states of a command.
LEMMA CommandStateNames ==
  /\ {"READY", "CLAIMED", "SUBMITTING", "UNKNOWN", "EXPIRED", "CANCELLED",
      "ACKNOWLEDGED", "PARTIAL_FILL", "FILLED", "REJECTED"} \subseteq CommandState
  BY DEF CommandState

\* The fresh select leaves a copy a command, with its claim and its state.
LEMMA AdjustedFacts ==
  ASSUME NEW w \in Worker, work[w] \in Work, NEW position \in Positions
  PROVE  /\ Adjusted(w, position) \in ExecutionCommand
         /\ Adjusted(w, position).state = work[w].command.state
         /\ Adjusted(w, position).claimed_by = work[w].command.claimed_by
         /\ Adjusted(w, position).claim_expires_at = work[w].command.claim_expires_at
         /\ Adjusted(w, position).submitting_at = work[w].command.submitting_at
  <1>1. position \in Nat
    BY WorkersAssumption DEF Positions
  <1>2. work[w].command \in ExecutionCommand
    BY DEF Work
  <1>3. work[w].command.quantity \in Nat
    BY <1>2 DEF ExecutionCommand
  <1>4. FreshQuantity(work[w].id, work[w].command.quantity, position) \in Nat
    BY <1>1, <1>3 DEF FreshQuantity
  <1>5. QED
    BY <1>2, <1>4 DEF Adjusted, ExecutionCommand

\* What a response can be.
LEMMA ResponseStates ==
  ASSUME NEW o, NEW s \in Responses(o)
  PROVE  s \in {"ACKNOWLEDGED", "PARTIAL_FILL", "FILLED", "REJECTED"}
  BY DEF Responses

\* The state after intake is well typed.
LEMMA InitTypeOK == Init => TypeOK
  <1> SUFFICES ASSUME Init PROVE TypeOK
    OBVIOUS
  <1>1. \A c \in Command : ReadyRow(c) \in ExecutionCommand
    BY WorkersAssumption
    DEF ReadyRow, ExecutionCommand, CommandState, TimeOrNull
  <1>2. NoOrder \in BrokerOrder
    BY DEF NoOrder, BrokerOrder
  <1>3. QED
    BY <1>1, <1>2 DEF Init, TypeOK, PC

\* A step of the dispatch that sets a worker's place and work.
LEMMA ContinueType ==
  ASSUME TypeOK, NEW w \in Worker, NEW next \in PC, NEW c \in Command,
         NEW cmd \in ExecutionCommand, Continue(w, next, c, cmd)
  PROVE  /\ pc' \in [Worker -> PC]
         /\ work' \in [Worker -> Work \cup {NoWork}]
         /\ \A v \in Worker : pc'[v] \notin {"down", "idle"} => work'[v] \in Work
         /\ work'[w] \in Work
         /\ pc'[w] = next /\ work'[w].id = c /\ work'[w].command = cmd
         /\ \A v \in Worker \ {w} : pc'[v] = pc[v] /\ work'[v] = work[v]
  <1>1. [id |-> c, command |-> cmd] \in Work
    BY DEF Work
  <1>2. QED
    BY <1>1 DEF Continue, TypeOK

\* A worker that ends its loop iteration keeps no work.
LEMMA BackToIdleType ==
  ASSUME TypeOK, NEW w \in Worker, BackToIdle(w)
  PROVE  /\ pc' \in [Worker -> PC]
         /\ work' \in [Worker -> Work \cup {NoWork}]
         /\ \A v \in Worker : pc'[v] \notin {"down", "idle"} => work'[v] \in Work
         /\ pc'[w] = "idle"
         /\ \A v \in Worker \ {w} : pc'[v] = pc[v] /\ work'[v] = work[v]
  BY DEF BackToIdle, TypeOK, PC

\* save_state writes one row.
LEMMA SaveType ==
  ASSUME TypeOK, NEW c \in Command, NEW cmd \in ExecutionCommand, Save(c, cmd)
  PROVE  /\ rows' \in [Command -> ExecutionCommand]
         /\ rows'[c] = cmd
         /\ \A d \in Command \ {c} : rows'[d] = rows[d]
  BY DEF Save, TypeOK

\* allows and record keep only requests.
LEMMA RecordType ==
  ASSUME TypeOK, NEW w \in Worker, NEW c \in Command
  PROVE  /\ Recent(requests[w], now) \subseteq Request
         /\ Record(requests[w], c, now) \subseteq Request
  BY DEF Recent, Record, TypeOK, Request, Time

\* claim_next and enqueue preserve the types.
LEMMA ClaimTypeOK ==
  ASSUME TypeOK, NEW w \in Worker, NEW c \in Command, ClaimNext(w, c)
  PROVE  TypeOK'
  <1> DEFINE claimed == MarkClaimed(rows[c], w, now)
  <1>1. claimed \in ExecutionCommand
    BY MarkClaimedFacts DEF TypeOK
  <1>2. Save(c, claimed) /\ Enqueue(w, c, claimed)
    BY DEF ClaimNext
  <1>3. rows' \in [Command -> ExecutionCommand]
    BY <1>1, <1>2, SaveType
  <1>4. queue' \in [Worker -> SUBSET QueuedCommand] /\ sequence' \in [Worker -> Nat]
    <2>1. sequence[w] \in Nat /\ queue[w] \subseteq QueuedCommand
      BY DEF TypeOK
    <2>2. [id |-> c, command |-> claimed, sequence |-> sequence[w]] \in QueuedCommand
      BY <1>1, <2>1 DEF QueuedCommand
    <2> HIDE DEF claimed
    <2>3. QED
      BY <1>2, <2>1, <2>2 DEF Enqueue, TypeOK
  <1>5. QED
    BY <1>3, <1>4 DEF ClaimNext, lockVars, TypeOK

\* The first half of dispatch preserves the types.
LEMMA DispatchStartTypeOK ==
  ASSUME TypeOK, NEW w \in Worker, DispatchStart(w)
  PROVE  TypeOK'
  <1>1. PICK e \in Chosen(queue[w], requests[w], now) :
          /\ TakeFromQueue(w, e)
          /\ \/ Continue(w, "decided", e.id, Transition(e.command, "EXPIRED"))
             \/ UNCHANGED <<pc, work>>
             \/ Continue(w, "selected", e.id, e.command)
    BY DEF DispatchStart
  <1>2. e \in QueuedCommand
    BY DEF Chosen, TypeOK
  <1>3. e.id \in Command /\ e.command \in ExecutionCommand
    BY <1>2 DEF QueuedCommand
  <1>4. Transition(e.command, "EXPIRED") \in ExecutionCommand
    BY <1>3, TransitionFacts, CommandStateNames
  <1>5. /\ pc' \in [Worker -> PC]
        /\ work' \in [Worker -> Work \cup {NoWork}]
        /\ \A v \in Worker : pc'[v] \notin {"down", "idle"} => work'[v] \in Work
    <2>1. "decided" \in PC /\ "selected" \in PC
      BY DEF PC
    <2>2. CASE Continue(w, "decided", e.id, Transition(e.command, "EXPIRED"))
      BY <1>3, <1>4, <2>1, <2>2, ContinueType
    <2>3. CASE UNCHANGED <<pc, work>>
      BY <2>3 DEF TypeOK
    <2>4. CASE Continue(w, "selected", e.id, e.command)
      BY <1>3, <2>1, <2>4, ContinueType
    <2>5. QED
      BY <1>1, <2>2, <2>3, <2>4
  <1>6. queue' \in [Worker -> SUBSET QueuedCommand] /\ requests' \in [Worker -> SUBSET Request]
    <2>1. Recent(requests[w], now) \subseteq Request
      BY DEF Recent, TypeOK
    <2>2. QED
      BY <1>1, <2>1 DEF TakeFromQueue, TypeOK
  <1>7. QED
    BY <1>5, <1>6 DEF DispatchStart, lockVars, TypeOK

\* Any step after the selection that only moves a worker on.
LEMMA MoveTypeOK ==
  ASSUME TypeOK, NEW w \in Worker,
         \/ BackToIdle(w)
         \/ \E next \in PC, c \in Command, cmd \in ExecutionCommand : Continue(w, next, c, cmd),
         UNCHANGED <<now, rows, order, queueVars, lockVars, jobs, faults>>
  PROVE  TypeOK'
  <1>1. /\ pc' \in [Worker -> PC]
        /\ work' \in [Worker -> Work \cup {NoWork}]
        /\ \A v \in Worker : pc'[v] \notin {"down", "idle"} => work'[v] \in Work
    BY ContinueType, BackToIdleType
  <1>2. QED
    BY <1>1 DEF TypeOK, queueVars, lockVars

\* The second half of dispatch preserves the types.
LEMMA DispatchFinishTypeOK ==
  ASSUME TypeOK, NEW w \in Worker,
         \/ AlreadyClosed(w)
         \/ DispatchDropped(w)
         \/ \E position \in Positions : \/ RevalidationRejected(w, position)
                                         \/ ExpiredBeforeSend(w, position)
                                         \/ ConfirmSend(w, position)
  PROVE  TypeOK'
  <1>1. pc[w] = "selected"
    BY DEF AlreadyClosed, DispatchDropped, RevalidationRejected, ExpiredBeforeSend, ConfirmSend
  <1>2. work[w] \in Work
    BY <1>1 DEF TypeOK
  <1>3. work[w].id \in Command /\ work[w].command \in ExecutionCommand /\ now \in Nat
    BY <1>2 DEF Work, TypeOK
  <1>4. "decided" \in PC
    BY DEF PC
  <1>5. CASE AlreadyClosed(w)
    <2>1. Transition(work[w].command, "CANCELLED") \in ExecutionCommand
      BY <1>3, TransitionFacts, CommandStateNames
    <2>2. QED
      BY <1>3, <1>4, <1>5, <2>1, MoveTypeOK DEF AlreadyClosed
  <1>6. CASE DispatchDropped(w)
    BY <1>6, MoveTypeOK DEF DispatchDropped
  <1>7. ASSUME NEW position \in Positions, RevalidationRejected(w, position)
        PROVE  TypeOK'
    <2>1. Transition(Adjusted(w, position), "CANCELLED") \in ExecutionCommand
      BY <1>2, AdjustedFacts, TransitionFacts, CommandStateNames
    <2>2. QED
      BY <1>3, <1>4, <1>7, <2>1, MoveTypeOK DEF RevalidationRejected
  <1>8. ASSUME NEW position \in Positions, ExpiredBeforeSend(w, position)
        PROVE  TypeOK'
    <2>1. Transition(Adjusted(w, position), "EXPIRED") \in ExecutionCommand
      BY <1>2, AdjustedFacts, TransitionFacts, CommandStateNames
    <2>2. QED
      BY <1>3, <1>4, <1>8, <2>1, MoveTypeOK DEF ExpiredBeforeSend
  <1>9. ASSUME NEW position \in Positions, ConfirmSend(w, position)
        PROVE  TypeOK'
    <2>1. MarkSubmitting(Adjusted(w, position), now) \in ExecutionCommand
      BY <1>2, <1>3, AdjustedFacts, MarkSubmittingFacts
    <2>2. Continue(w, "decided", work[w].id, MarkSubmitting(Adjusted(w, position), now))
      BY <1>9 DEF ConfirmSend
    <2>3. /\ pc' \in [Worker -> PC]
          /\ work' \in [Worker -> Work \cup {NoWork}]
          /\ \A v \in Worker : pc'[v] \notin {"down", "idle"} => work'[v] \in Work
      BY <1>3, <1>4, <2>1, <2>2, ContinueType
    <2>4. requests' \in [Worker -> SUBSET Request]
      <3>1. Record(requests[w], work[w].id, now) \subseteq Request
        BY <1>3, RecordType
      <3>2. QED
        BY <1>9, <3>1 DEF ConfirmSend, TypeOK
    <2>5. QED
      BY <1>9, <2>3, <2>4 DEF ConfirmSend, lockVars, TypeOK
  <1>10. QED
    BY <1>5, <1>6, <1>7, <1>8, <1>9

\* A save of the command in hand, or none, and a move of the worker.
LEMMA SaveMoveTypeOK ==
  ASSUME TypeOK, NEW w \in Worker, NEW c \in Command, NEW cmd \in ExecutionCommand,
         Save(c, cmd) \/ UNCHANGED rows,
         BackToIdle(w) \/ \E next \in PC : Continue(w, next, c, cmd),
         UNCHANGED <<now, order, queueVars, lockVars, jobs, faults>>
  PROVE  TypeOK'
  <1>1. /\ pc' \in [Worker -> PC]
        /\ work' \in [Worker -> Work \cup {NoWork}]
        /\ \A v \in Worker : pc'[v] \notin {"down", "idle"} => work'[v] \in Work
    BY ContinueType, BackToIdleType
  <1>2. rows' \in [Command -> ExecutionCommand]
    BY SaveType DEF TypeOK
  <1>3. QED
    BY <1>1, <1>2 DEF TypeOK, queueVars, lockVars

\* The steps from the decision to the end of the call preserve the types.
LEMMA SendTypeOK ==
  ASSUME TypeOK, NEW w \in Worker, SendStep(w)
  PROVE  TypeOK'
  <1>1. pc[w] \in {"decided", "submitting", "requested", "sent"}
    BY DEF SendStep, SaveDispatch, StartRequest, OrderSend, SaveResponse, LoseResponse
  <1>2. work[w] \in Work
    BY <1>1 DEF TypeOK
  <1>3. work[w].id \in Command /\ work[w].command \in ExecutionCommand /\ now \in Nat
    BY <1>2 DEF Work, TypeOK
  <1>4. {"submitting", "requested", "sent"} \subseteq PC
    BY DEF PC
  <1>5. CASE SaveDispatch(w)
    BY <1>3, <1>4, <1>5, SaveMoveTypeOK DEF SaveDispatch
  <1>6. CASE StartRequest(w)
    <2>1. MarkBrokerRequestStarted(work[w].command, now) \in ExecutionCommand
      BY <1>3, MarkBrokerRequestStartedFacts
    <2>2. QED
      BY <1>3, <1>4, <1>6, <2>1, SaveMoveTypeOK DEF StartRequest
  <1>7. ASSUME NEW status \in {"live", "refused"}, OrderSend(w, status)
        PROVE  TypeOK'
    <2>1. order[work[w].id] \in BrokerOrder
      BY <1>3 DEF TypeOK
    <2>2. [status |-> status, quantity |-> work[w].command.quantity,
           filled |-> 0, sends |-> order[work[w].id].sends + 1] \in BrokerOrder
      BY <1>3, <2>1 DEF BrokerOrder, ExecutionCommand
    <2>3. order' \in [Command -> BrokerOrder]
      BY <1>7, <2>2 DEF OrderSend, TypeOK
    <2>4. pc' \in [Worker -> PC]
      BY <1>4, <1>7 DEF OrderSend, TypeOK
    <2>5. \A v \in Worker : pc'[v] \notin {"down", "idle"} => work'[v] \in Work
      BY <1>2, <1>7 DEF OrderSend, TypeOK
    <2>6. QED
      BY <1>7, <2>3, <2>4, <2>5 DEF OrderSend, queueVars, lockVars, TypeOK
  <1>8. CASE SaveResponse(w)
    <2>1. PICK s \in Responses(order[work[w].id]) :
            \/ Save(work[w].id, Transition(work[w].command, s))
            \/ UNCHANGED rows
      BY <1>8 DEF SaveResponse
    <2>2. s \in CommandState
      BY ResponseStates, CommandStateNames
    <2>3. Transition(work[w].command, s) \in ExecutionCommand
      BY <1>3, <2>2, TransitionFacts
    <2>4. QED
      BY <1>3, <1>8, <2>1, <2>3, SaveMoveTypeOK DEF SaveResponse
  <1>9. CASE LoseResponse(w)
    BY <1>9, MoveTypeOK DEF LoseResponse
  <1>10. QED
    BY <1>5, <1>6, <1>7, <1>8, <1>9 DEF SendStep

\* The lock, a crash and a restart preserve the types.
LEMMA ProcessTypeOK ==
  ASSUME TypeOK, NEW w \in Worker, LockStep(w) \/ Crash(w) \/ Restart(w) \/ EndSession
  PROVE  TypeOK'
  <1>1. CASE AcquireLock(w)
    BY <1>1 DEF AcquireLock, queueVars, TypeOK
  <1>2. CASE LoseSession(w)
    BY <1>2 DEF LoseSession, DropSession, queueVars, TypeOK
  <1>3. CASE Crash(w)
    <2>1. "down" \in PC
      BY DEF PC
    <2>2. QED
      BY <1>3, <2>1 DEF Crash, DropSession, TypeOK
  <1>4. CASE Restart(w)
    <2>1. "idle" \in PC
      BY DEF PC
    <2>2. QED
      BY <1>4, <2>1 DEF Restart, queueVars, TypeOK
  <1>5. CASE EndSession
    BY <1>5 DEF EndSession, queueVars, TypeOK
  <1>6. QED
    BY <1>1, <1>2, <1>3, <1>4, <1>5 DEF LockStep

\* A planned save holds a command.
LEMMA PlanTypeOK ==
  ASSUME TypeOK, NEW c \in Command, NEW cmd \in ExecutionCommand,
         NEW expected \in {"CLAIMED", "SUBMITTING", "UNKNOWN"}, Plan(c, cmd, expected)
  PROVE  TypeOK'
  <1>1. \A p \in 1 .. MaxJobs : [by |-> p, command |-> cmd, expected |-> expected] \in Job
    BY WorkersAssumption DEF Job
  <1>2. jobs' \in [Command -> SUBSET Job]
    BY <1>1 DEF Plan, TypeOK
  <1>3. QED
    BY <1>2 DEF Plan, queueVars, lockVars, TypeOK

\* The recovery steps preserve the types.
LEMMA RecoveryTypeOK ==
  ASSUME TypeOK, NEW c \in Command,
         Sweep(c) \/ Reconcile(c) \/ SaveRecovery(c) \/ LoseRecovery(c)
  PROVE  TypeOK'
  <1>1. rows[c] \in ExecutionCommand /\ now \in Nat
    BY DEF TypeOK
  <1>2. CASE Sweep(c)
    <2>1. IsStale(rows[c], now) /\ Plan(c, Transition(rows[c], RecoveryState(rows[c])),
                                          rows[c].state)
      BY <1>2 DEF Sweep
    <2>2. RecoveryState(rows[c]) \in CommandState /\ rows[c].state \in {"CLAIMED", "SUBMITTING"}
      BY <1>1, <2>1, RecoveryFacts, CommandStateNames
    <2>3. Transition(rows[c], RecoveryState(rows[c])) \in ExecutionCommand
      BY <1>1, <2>2, TransitionFacts
    <2>4. QED
      BY <2>1, <2>2, <2>3, PlanTypeOK
  <1>3. CASE Reconcile(c)
    <2>1. PICK found \in Findable(order[c]) :
            \E s \in ResolvedState(rows[c], found, order[c].status = "live", order[c].filled) :
              Plan(c, Transition(rows[c], s), "UNKNOWN")
      BY <1>3 DEF Reconcile
    <2>2. PICK s \in ResolvedState(rows[c], found, order[c].status = "live", order[c].filled) :
              Plan(c, Transition(rows[c], s), "UNKNOWN")
      BY <2>1
    <2>3. s \in CommandState
      BY <1>1, <2>2, ResolvedFacts, CommandStateNames
    <2>4. Transition(rows[c], s) \in ExecutionCommand
      BY <1>1, <2>3, TransitionFacts
    <2>5. QED
      BY <2>2, <2>4, PlanTypeOK
  <1>4. CASE SaveRecovery(c)
    <2>1. PICK j \in jobs[c] : /\ jobs' = [jobs EXCEPT ![c] = @ \ {j}]
                               /\ Save(c, j.command) \/ UNCHANGED rows
      BY <1>4 DEF SaveRecovery
    <2>2. j.command \in ExecutionCommand
      BY DEF TypeOK, Job
    <2>3. rows' \in [Command -> ExecutionCommand]
      BY <2>1, <2>2, SaveType DEF TypeOK
    <2>4. jobs' \in [Command -> SUBSET Job]
      BY <2>1 DEF TypeOK
    <2>5. QED
      BY <1>4, <2>3, <2>4 DEF SaveRecovery, queueVars, lockVars, TypeOK
  <1>5. CASE LoseRecovery(c)
    <2>1. jobs' \in [Command -> SUBSET Job]
      BY <1>5 DEF LoseRecovery, TypeOK
    <2>2. QED
      BY <1>5, <2>1 DEF LoseRecovery, queueVars, lockVars, TypeOK
  <1>6. QED
    BY <1>2, <1>3, <1>4, <1>5

\* The broker's own steps and the clock preserve the types.
LEMMA OutsideTypeOK ==
  ASSUME TypeOK, Tick \/ \E c \in Command : BrokerFill(c) \/ BrokerClose(c)
  PROVE  TypeOK'
  <1>1. ASSUME NEW c \in Command, BrokerFill(c)
        PROVE  TypeOK'
    <2>1. order[c] \in BrokerOrder
      BY DEF TypeOK
    <2>2. DEFINE fuller == [order[c] EXCEPT !.filled = @ + 1]
                 after == IF order[c].filled + 1 = order[c].quantity THEN "done" ELSE "live"
    <2>3. fuller \in BrokerOrder
      BY <2>1 DEF BrokerOrder
    <2>4. [fuller EXCEPT !.status = after] \in BrokerOrder
      BY <2>3 DEF BrokerOrder
    <2>5. order' = [order EXCEPT ![c] = [fuller EXCEPT !.status = after]]
      BY <1>1 DEF BrokerFill, TypeOK
    <2>6. QED
      BY <1>1, <2>4, <2>5 DEF BrokerFill, queueVars, lockVars, TypeOK
  <1>2. ASSUME NEW c \in Command, BrokerClose(c)
        PROVE  TypeOK'
    <2>1. [order[c] EXCEPT !.status = "done"] \in BrokerOrder
      BY DEF TypeOK, BrokerOrder
    <2>2. order' \in [Command -> BrokerOrder]
      BY <1>2, <2>1 DEF BrokerClose, TypeOK
    <2>3. QED
      BY <1>2, <2>2 DEF BrokerClose, queueVars, lockVars, TypeOK
  <1>3. CASE Tick
    BY <1>3 DEF Tick, queueVars, lockVars, TypeOK
  <1>4. QED
    BY <1>1, <1>2, <1>3

\* Every step preserves the types.
LEMMA NextTypeOK == TypeOK /\ [Next]_vars => TypeOK'
  <1> SUFFICES ASSUME TypeOK, [Next]_vars PROVE TypeOK'
    OBVIOUS
  <1>1. ASSUME NEW w \in Worker, DispatchStep(w)
        PROVE  TypeOK'
    BY <1>1, DispatchStartTypeOK, DispatchFinishTypeOK DEF DispatchStep
  <1>2. CASE UNCHANGED vars
    BY <1>2 DEF vars, queueVars, lockVars, TypeOK
  <1>3. CASE EndSession
    BY <1>3 DEF EndSession, queueVars, TypeOK
  <1>4. QED
    BY <1>1, <1>2, <1>3, ClaimTypeOK, SendTypeOK, ProcessTypeOK, RecoveryTypeOK,
       OutsideTypeOK DEF Next

\* Every reachable state is well typed, for every instance of the system.
THEOREM TypeCorrect == Spec => []TypeOK
  <1>1. Init => TypeOK
    BY InitTypeOK
  <1>2. TypeOK /\ [Next]_vars => TypeOK'
    BY NextTypeOK
  <1>3. QED
    BY <1>1, <1>2, PTL DEF Spec

-----------------------------------------------------------------------------
(* One send: SendOwnership is inductive. *)

\* A save of an owned copy finds its own claim in the row.
LEMMA SaveKeepsOwner ==
  ASSUME NEW c \in Command, NEW cmd, NEW expected, CanSave(c, cmd, expected)
  PROVE  /\ rows[c].state = expected
         /\ cmd.claimed_by \in Worker => rows[c].claimed_by = cmd.claimed_by
  BY NobodyAssumption DEF CanSave, SaveMatches

\* After intake nothing is claimed, queued, planned or sent.
LEMMA InitOwnership == Init => SendOwnership
  BY DEF Init, ReadyRow, NoOrder, SendOwnership, RowsOwned, QueueOwned, WorkOwned, JobsOwned,
         SubmissionOwned, UnsentUntilSent, AtMostOneSend, Submitting, Unsubmitted

\* A worker claims a READY row: nobody submits it and nothing was sent.
LEMMA ClaimOwnership ==
  ASSUME TypeOK, SendOwnership, NEW w \in Worker, NEW c \in Command, ClaimNext(w, c)
  PROVE  SendOwnership'
  <1> DEFINE claimed == MarkClaimed(rows[c], w, now)
  <1>1. /\ claimed \in ExecutionCommand
        /\ claimed.state = "CLAIMED" /\ claimed.claimed_by = w
    BY MarkClaimedFacts DEF TypeOK
  <1>2. /\ Save(c, claimed) /\ Enqueue(w, c, claimed)
        /\ rows[c].state = "READY"
        /\ UNCHANGED <<order, pc, work, jobs>>
    BY DEF ClaimNext
  <1>3. rows'[c] = claimed /\ \A d \in Command \ {c} : rows'[d] = rows[d]
    BY <1>1, <1>2, SaveType
  <1> HIDE DEF claimed
  <1>4. RowsOwned'
    BY <1>1, <1>3 DEF SendOwnership, RowsOwned
  <1>5. QueueOwned'
    <2>1. CASE UNCHANGED queue
      BY <2>1 DEF SendOwnership, QueueOwned
    <2>2. CASE queue' = [queue EXCEPT ![w] =
                 @ \cup {[id |-> c, command |-> claimed, sequence |-> sequence[w]]}]
      BY <1>1, <2>2 DEF SendOwnership, QueueOwned, TypeOK
    <2>3. QED
      BY <1>2, <2>1, <2>2 DEF Enqueue
  <1>6. WorkOwned' /\ JobsOwned' /\ AtMostOneSend'
    BY <1>2 DEF SendOwnership, WorkOwned, JobsOwned, AtMostOneSend, Submitting
  <1>7. SubmissionOwned'
    <2> SUFFICES ASSUME NEW v \in Worker, Submitting(v)
                 PROVE  /\ rows'[work[v].id].claimed_by = v
                        /\ rows'[work[v].id].state \notin Unsubmitted
      BY <1>2 DEF SubmissionOwned, Submitting
    <2>1. work[v].id \in Command
      BY DEF Submitting, TypeOK, Work
    <2>2. work[v].id # c
      BY <1>2 DEF SendOwnership, SubmissionOwned, Unsubmitted
    <2>3. QED
      BY <1>3, <2>1, <2>2 DEF SendOwnership, SubmissionOwned
  <1>8. UnsentUntilSent'
    BY <1>2, <1>3 DEF SendOwnership, UnsentUntilSent, Unsubmitted
  <1>9. QED
    BY <1>4, <1>5, <1>6, <1>7, <1>8 DEF SendOwnership

\* Dispatch takes an owned copy from the queue and decides about it.
LEMMA DispatchStartOwnership ==
  ASSUME TypeOK, SendOwnership, NEW w \in Worker, DispatchStart(w)
  PROVE  SendOwnership'
  <1>1. PICK e \in Chosen(queue[w], requests[w], now) :
          /\ TakeFromQueue(w, e)
          /\ \/ Continue(w, "decided", e.id, Transition(e.command, "EXPIRED"))
             \/ UNCHANGED <<pc, work>>
             \/ Continue(w, "selected", e.id, e.command)
    BY DEF DispatchStart
  <1>2. UNCHANGED <<rows, order, jobs>> /\ pc[w] = "idle"
    BY DEF DispatchStart
  <1>3. e \in queue[w] /\ e \in QueuedCommand
    BY DEF Chosen, TypeOK
  <1>4. e.id \in Command /\ e.command \in ExecutionCommand
    BY <1>3 DEF QueuedCommand
  <1>5. e.command.state = "CLAIMED" /\ e.command.claimed_by = w
    BY <1>3 DEF SendOwnership, QueueOwned
  <1>6. /\ Transition(e.command, "EXPIRED") \in ExecutionCommand
        /\ Transition(e.command, "EXPIRED").state = "EXPIRED"
        /\ Transition(e.command, "EXPIRED").claimed_by = w
    BY <1>4, <1>5, TransitionFacts, CommandStateNames
  <1>7. QueueOwned'
    BY <1>1 DEF TakeFromQueue, SendOwnership, QueueOwned, TypeOK
  <1>8. /\ pc'[w] \in {"idle", "decided", "selected"}
        /\ pc'[w] # "idle" => work'[w].command.claimed_by = w
        /\ pc'[w] = "selected" => work'[w].command.state = "CLAIMED"
        /\ pc'[w] = "decided" => work'[w].command.state = "EXPIRED"
        /\ \A v \in Worker \ {w} : pc'[v] = pc[v] /\ work'[v] = work[v]
    <2>1. "decided" \in PC /\ "selected" \in PC
      BY DEF PC
    <2>2. CASE Continue(w, "decided", e.id, Transition(e.command, "EXPIRED"))
      BY <1>4, <1>6, <2>1, <2>2, ContinueType
    <2>3. CASE UNCHANGED <<pc, work>>
      BY <1>2, <2>3
    <2>4. CASE Continue(w, "selected", e.id, e.command)
      BY <1>4, <1>5, <2>1, <2>4, ContinueType
    <2>5. QED
      BY <1>1, <2>2, <2>3, <2>4
  <1>9. WorkOwned'
    BY <1>8 DEF SendOwnership, WorkOwned, Submitting
  <1>10. SubmissionOwned'
    BY <1>2, <1>8 DEF SendOwnership, SubmissionOwned, Submitting
  <1>11. UnsentUntilSent'
    BY <1>2, <1>8 DEF SendOwnership, UnsentUntilSent
  <1>12. RowsOwned' /\ JobsOwned' /\ AtMostOneSend'
    BY <1>2 DEF SendOwnership, RowsOwned, JobsOwned, AtMostOneSend
  <1>13. QED
    BY <1>7, <1>9, <1>10, <1>11, <1>12 DEF SendOwnership

\* A worker that goes idle or down, or keeps an owned copy it has decided about,
\* disturbs nobody's submission.
LEMMA MoveOwnership ==
  ASSUME TypeOK, SendOwnership, NEW w \in Worker,
         UNCHANGED <<rows, order, jobs>>,
         \A v \in Worker : queue'[v] \subseteq queue[v],
         \A v \in Worker \ {w} : pc'[v] = pc[v] /\ work'[v] = work[v],
         \/ pc'[w] \in {"idle", "down"}
         \/ /\ pc'[w] = "decided"
            /\ work'[w].command.claimed_by = w
            /\ work'[w].command.state \in {"SUBMITTING", "CANCELLED", "EXPIRED"}
  PROVE  SendOwnership'
  <1>1. QueueOwned'
    BY DEF SendOwnership, QueueOwned
  <1>2. WorkOwned'
    BY DEF SendOwnership, WorkOwned, Submitting
  <1>3. SubmissionOwned'
    BY DEF SendOwnership, SubmissionOwned, Submitting
  <1>4. UnsentUntilSent'
    BY DEF SendOwnership, UnsentUntilSent
  <1>5. RowsOwned' /\ JobsOwned' /\ AtMostOneSend'
    BY DEF SendOwnership, RowsOwned, JobsOwned, AtMostOneSend
  <1>6. QED
    BY <1>1, <1>2, <1>3, <1>4, <1>5 DEF SendOwnership

\* A copy that moves on, anywhere but back to READY, keeps its claim.
LEMMA KeptCopyFacts ==
  ASSUME NEW cmd \in ExecutionCommand, NEW new \in CommandState, new # "READY"
  PROVE  /\ Transition(cmd, new) \in ExecutionCommand
         /\ Transition(cmd, new).state = new
         /\ Transition(cmd, new).claimed_by = cmd.claimed_by
         /\ Transition(cmd, new).claim_expires_at = cmd.claim_expires_at
         /\ Transition(cmd, new).submitting_at = cmd.submitting_at
  BY TransitionFacts

\* A copy dispatch closes keeps its owner.
LEMMA ClosedCopyFacts ==
  ASSUME NEW cmd \in ExecutionCommand, NEW new \in {"CANCELLED", "EXPIRED"}
  PROVE  /\ Transition(cmd, new) \in ExecutionCommand
         /\ Transition(cmd, new).state = new
         /\ Transition(cmd, new).claimed_by = cmd.claimed_by
         /\ Transition(cmd, new).claim_expires_at = cmd.claim_expires_at
         /\ Transition(cmd, new).submitting_at = cmd.submitting_at
  <1>1. new \in CommandState /\ new # "READY"
    BY CommandStateNames
  <1>2. QED
    BY <1>1, KeptCopyFacts

\* The second half of dispatch keeps the copy's owner.
LEMMA DispatchFinishOwnership ==
  ASSUME TypeOK, SendOwnership, NEW w \in Worker,
         \/ AlreadyClosed(w)
         \/ DispatchDropped(w)
         \/ \E position \in Positions : \/ RevalidationRejected(w, position)
                                         \/ ExpiredBeforeSend(w, position)
                                         \/ ConfirmSend(w, position)
  PROVE  SendOwnership'
  <1>1. /\ pc[w] = "selected"
        /\ UNCHANGED <<now, rows, order, queue, jobs>>
    BY DEF AlreadyClosed, DispatchDropped, RevalidationRejected, ExpiredBeforeSend, ConfirmSend,
           queueVars
  <1>2. work[w] \in Work /\ work[w].command.claimed_by = w
    BY <1>1 DEF TypeOK, SendOwnership, WorkOwned
  <1>3. work[w].id \in Command /\ work[w].command \in ExecutionCommand /\ now \in Nat
    BY <1>2 DEF Work, TypeOK
  <1>4. CASE DispatchDropped(w)
    BY <1>1, <1>4, BackToIdleType, MoveOwnership DEF DispatchDropped
  <1>5. ASSUME NEW cmd \in ExecutionCommand, cmd.claimed_by = w,
               cmd.state \in {"SUBMITTING", "CANCELLED", "EXPIRED"},
               Continue(w, "decided", work[w].id, cmd)
        PROVE  SendOwnership'
    <2>1. "decided" \in PC
      BY DEF PC
    <2>2. /\ pc'[w] = "decided" /\ work'[w].command = cmd
          /\ \A v \in Worker \ {w} : pc'[v] = pc[v] /\ work'[v] = work[v]
      BY <1>3, <1>5, <2>1, ContinueType
    <2>3. QED
      BY <1>1, <1>5, <2>2, MoveOwnership
  <1>6. CASE AlreadyClosed(w)
    <2>1. Continue(w, "decided", work[w].id, Transition(work[w].command, "CANCELLED"))
      BY <1>6 DEF AlreadyClosed
    <2>2. QED
      BY <1>2, <1>3, <1>5, <2>1, ClosedCopyFacts
  <1>7. ASSUME NEW position \in Positions,
               \/ RevalidationRejected(w, position)
               \/ ExpiredBeforeSend(w, position)
               \/ ConfirmSend(w, position)
        PROVE  SendOwnership'
    <2>1. Adjusted(w, position) \in ExecutionCommand /\ Adjusted(w, position).claimed_by = w
      BY <1>2, AdjustedFacts
    <2>2. CASE RevalidationRejected(w, position)
      <3>1. Continue(w, "decided", work[w].id, Transition(Adjusted(w, position), "CANCELLED"))
        BY <2>2 DEF RevalidationRejected
      <3>2. QED
        BY <1>5, <2>1, <3>1, ClosedCopyFacts
    <2>3. CASE ExpiredBeforeSend(w, position)
      <3>1. Continue(w, "decided", work[w].id, Transition(Adjusted(w, position), "EXPIRED"))
        BY <2>3 DEF ExpiredBeforeSend
      <3>2. QED
        BY <1>5, <2>1, <3>1, ClosedCopyFacts
    <2>4. CASE ConfirmSend(w, position)
      BY <1>3, <1>5, <2>1, <2>4, MarkSubmittingFacts DEF ConfirmSend
    <2>5. QED
      BY <1>7, <2>2, <2>3, <2>4
  <1>8. QED
    BY <1>4, <1>6, <1>7

\* Saves of a worker that holds an owned copy: only its own submission moves.
LEMMA SendSaveOwnership ==
  ASSUME TypeOK, SendOwnership, NEW w \in Worker,
         NEW cmd \in ExecutionCommand, NEW expected,
         pc[w] \notin {"down", "idle"},
         cmd.claimed_by = w, cmd.state \notin Unsubmitted,
         CanSave(work[w].id, cmd, expected), Save(work[w].id, cmd),
         UNCHANGED <<order, queue, jobs>>,
         \/ BackToIdle(w)
         \/ \E next \in {"submitting", "requested"} :
              /\ Continue(w, next, work[w].id, cmd)
              /\ cmd.state = "SUBMITTING"
              /\ order[work[w].id].sends = 0
  PROVE  SendOwnership'
  <1> DEFINE c == work[w].id
  <1>1. c \in Command /\ work[w] \in Work
    BY DEF TypeOK, Work
  <1>2. rows'[c] = cmd /\ \A d \in Command \ {c} : rows'[d] = rows[d]
    BY <1>1, SaveType
  <1>3. rows[c].claimed_by = w
    BY <1>1, SaveKeepsOwner
  <1>4. /\ \A v \in Worker \ {w} : pc'[v] = pc[v] /\ work'[v] = work[v]
        /\ \/ pc'[w] = "idle"
           \/ /\ pc'[w] \in {"submitting", "requested"}
              /\ work'[w].id = c /\ work'[w].command = cmd
              /\ cmd.state = "SUBMITTING"
              /\ order[c].sends = 0
    <2>1. CASE BackToIdle(w)
      BY <2>1, BackToIdleType
    <2>2. ASSUME NEW next \in {"submitting", "requested"},
                 Continue(w, next, c, cmd), cmd.state = "SUBMITTING", order[c].sends = 0
          PROVE  <1>4!:
      <3>1. next \in PC
        BY DEF PC
      <3>2. QED
        BY <1>1, <2>2, <3>1, ContinueType
    <2>3. QED
      BY <2>1, <2>2
  <1> HIDE DEF c
  <1>5. RowsOwned'
    BY <1>2, <1>3 DEF SendOwnership, RowsOwned
  <1>6. WorkOwned'
    BY <1>4 DEF SendOwnership, WorkOwned, Submitting
  <1>7. SubmissionOwned'
    <2> SUFFICES ASSUME NEW v \in Worker, Submitting(v)'
                 PROVE  /\ rows'[work'[v].id].claimed_by = v
                        /\ rows'[work'[v].id].state \notin Unsubmitted
      BY DEF SubmissionOwned
    <2>1. CASE v = w
      BY <1>2, <1>4, <2>1 DEF Submitting
    <2>2. CASE v # w
      <3>1. Submitting(v) /\ work'[v] = work[v]
        BY <1>4, <2>2 DEF Submitting
      <3>2. rows[work[v].id].claimed_by = v /\ rows[work[v].id].state \notin Unsubmitted
        BY <3>1 DEF SendOwnership, SubmissionOwned
      <3>3. work[v].id \in Command
        BY <3>1 DEF Submitting, TypeOK, Work
      <3>4. work[v].id # c
        BY <1>3, <2>2, <3>2
      <3>5. QED
        BY <1>2, <3>1, <3>2, <3>3, <3>4
    <2>3. QED
      BY <2>1, <2>2
  <1>8. UnsentUntilSent'
    <2>1. \A d \in Command : rows'[d].state \in Unsubmitted => order'[d].sends = 0
      BY <1>2 DEF SendOwnership, UnsentUntilSent
    <2>2. \A v \in Worker : pc'[v] \in {"submitting", "requested"} => order'[work'[v].id].sends = 0
      BY <1>4 DEF SendOwnership, UnsentUntilSent
    <2>3. QED
      BY <2>1, <2>2 DEF UnsentUntilSent, Unsubmitted
  <1>9. QueueOwned' /\ JobsOwned' /\ AtMostOneSend'
    BY DEF SendOwnership, QueueOwned, JobsOwned, AtMostOneSend
  <1>10. QED
    BY <1>5, <1>6, <1>7, <1>8, <1>9 DEF SendOwnership

\* Persist, request, send, response: the call belongs to the claim in the row.
LEMMA SendStepOwnership ==
  ASSUME TypeOK, SendOwnership, NEW w \in Worker, SendStep(w)
  PROVE  SendOwnership'
  <1> DEFINE c == work[w].id
             cmd == work[w].command
  <1>1. pc[w] \in {"decided", "submitting", "requested", "sent"}
    BY DEF SendStep, SaveDispatch, StartRequest, OrderSend, SaveResponse, LoseResponse
  <1>2. c \in Command /\ cmd \in ExecutionCommand /\ cmd.claimed_by = w /\ now \in Nat
    BY <1>1 DEF TypeOK, Work, SendOwnership, WorkOwned
  <1>3. /\ pc[w] = "decided" => cmd.state \in {"SUBMITTING", "CANCELLED", "EXPIRED"}
        /\ Submitting(w) => cmd.state = "SUBMITTING"
    BY DEF SendOwnership, WorkOwned
  <1>4. ASSUME BackToIdle(w), UNCHANGED <<rows, order, queue, jobs>>
        PROVE  SendOwnership'
    BY <1>4, BackToIdleType, MoveOwnership
  <1>5. CASE SaveDispatch(w)
    <2>1. UNCHANGED <<order, queue, jobs>> /\ pc[w] = "decided"
      BY <1>5 DEF SaveDispatch, queueVars
    <2>2. CASE CanSave(c, cmd, "CLAIMED") /\ Save(c, cmd)
      <3>1. order[c].sends = 0
        BY <1>2, <2>2, SaveKeepsOwner DEF SendOwnership, UnsentUntilSent, Unsubmitted
      <3>2. cmd.state \notin Unsubmitted
        BY <1>3, <2>1 DEF Unsubmitted
      <3>3. \/ BackToIdle(w)
            \/ Continue(w, "submitting", c, cmd) /\ cmd.state = "SUBMITTING"
        BY <1>5, <2>2 DEF SaveDispatch
      <3>4. QED
        BY <1>2, <2>1, <2>2, <3>1, <3>2, <3>3, SendSaveOwnership
    <2>3. CASE BackToIdle(w) /\ UNCHANGED rows
      BY <1>4, <2>1, <2>3
    <2>4. QED
      BY <1>5, <2>2, <2>3 DEF SaveDispatch
  <1>6. CASE StartRequest(w)
    <2> DEFINE started == MarkBrokerRequestStarted(cmd, now)
    <2>1. UNCHANGED <<order, queue, jobs>> /\ pc[w] = "submitting"
      BY <1>6 DEF StartRequest, queueVars
    <2>2. started \in ExecutionCommand /\ started.state = "SUBMITTING" /\ started.claimed_by = w
      BY <1>2, <1>3, <2>1, MarkBrokerRequestStartedFacts DEF Submitting
    <2>3. started.state \notin Unsubmitted
      BY <2>2 DEF Unsubmitted
    <2>4. CASE CanSave(c, started, "SUBMITTING") /\ Save(c, started)
      <3>1. order[c].sends = 0
        BY <2>1 DEF SendOwnership, UnsentUntilSent
      <3>2. Continue(w, "requested", c, started)
        BY <1>6, <2>4 DEF StartRequest
      <3> HIDE DEF started
      <3>3. QED
        BY <1>2, <2>1, <2>2, <2>3, <2>4, <3>1, <3>2, SendSaveOwnership
    <2>5. CASE BackToIdle(w) /\ UNCHANGED rows
      BY <1>4, <2>1, <2>5
    <2>6. QED
      BY <1>6, <2>4, <2>5 DEF StartRequest
  <1>7. ASSUME NEW status \in {"live", "refused"}, OrderSend(w, status)
        PROVE  SendOwnership'
    <2>1. /\ UNCHANGED <<rows, work, queue, jobs>>
          /\ pc[w] = "requested"
          /\ pc' = [pc EXCEPT ![w] = "sent"]
      BY <1>7 DEF OrderSend, queueVars
    <2>2. order[c].sends = 0
      BY <2>1 DEF SendOwnership, UnsentUntilSent
    <2>3. order'[c].sends = 1 /\ \A d \in Command \ {c} : order'[d] = order[d]
      BY <1>2, <1>7, <2>2 DEF OrderSend, TypeOK
    <2>4. \A v \in Worker : Submitting(v)' <=> Submitting(v)
      BY <2>1 DEF Submitting, TypeOK
    <2>5. rows[c].claimed_by = w /\ rows[c].state \notin Unsubmitted
      BY <2>1 DEF SendOwnership, SubmissionOwned, Submitting
    <2>6. RowsOwned' /\ QueueOwned' /\ JobsOwned'
      BY <2>1 DEF SendOwnership, RowsOwned, QueueOwned, JobsOwned
    <2>7. WorkOwned'
      BY <1>2, <1>3, <2>1, <2>4 DEF SendOwnership, WorkOwned, Submitting, TypeOK
    <2>8. SubmissionOwned'
      BY <2>1, <2>4 DEF SendOwnership, SubmissionOwned
    <2>9. UnsentUntilSent'
      <3>1. \A d \in Command : rows'[d].state \in Unsubmitted => order'[d].sends = 0
        BY <2>1, <2>3, <2>5 DEF SendOwnership, UnsentUntilSent
      <3>2. ASSUME NEW v \in Worker, pc'[v] \in {"submitting", "requested"}
            PROVE  order'[work'[v].id].sends = 0
        <4>1. v # w /\ pc[v] \in {"submitting", "requested"}
          BY <2>1, <3>2 DEF TypeOK
        <4>2. rows[work[v].id].claimed_by = v
          BY <4>1 DEF SendOwnership, SubmissionOwned, Submitting
        <4>3. work[v].id # c
          BY <2>5, <4>1, <4>2
        <4>4. work[v].id \in Command /\ order[work[v].id].sends = 0
          BY <4>1 DEF TypeOK, Work, SendOwnership, UnsentUntilSent
        <4>5. QED
          BY <2>1, <2>3, <4>3, <4>4
      <3>3. QED
        BY <3>1, <3>2 DEF UnsentUntilSent, Unsubmitted
    <2>10. AtMostOneSend'
      BY <2>3 DEF SendOwnership, AtMostOneSend
    <2>11. QED
      BY <2>6, <2>7, <2>8, <2>9, <2>10 DEF SendOwnership
  <1>8. CASE SaveResponse(w)
    <2>1. UNCHANGED <<order, queue, jobs>> /\ pc[w] = "sent" /\ BackToIdle(w)
      BY <1>8 DEF SaveResponse, queueVars
    <2>2. PICK s \in Responses(order[c]) :
            \/ CanSave(c, Transition(cmd, s), "SUBMITTING") /\ Save(c, Transition(cmd, s))
            \/ UNCHANGED rows
      BY <1>8 DEF SaveResponse
    <2>3. /\ Transition(cmd, s) \in ExecutionCommand
          /\ Transition(cmd, s).state \notin Unsubmitted
          /\ Transition(cmd, s).claimed_by = w
      <3>1. s \in {"ACKNOWLEDGED", "PARTIAL_FILL", "FILLED", "REJECTED"}
        BY ResponseStates
      <3>2. s \in CommandState /\ s # "READY" /\ s \notin Unsubmitted
        BY <3>1, CommandStateNames DEF Unsubmitted
      <3> HIDE DEF cmd
      <3>3. Transition(cmd, s) \in ExecutionCommand /\ Transition(cmd, s).state = s
        BY <1>2, <3>2, KeptCopyFacts
      <3>4. Transition(cmd, s).claimed_by = w
        BY <1>2, <3>2, KeptCopyFacts
      <3>5. QED
        BY <3>2, <3>3, <3>4
    <2>4. CASE CanSave(c, Transition(cmd, s), "SUBMITTING") /\ Save(c, Transition(cmd, s))
      BY <1>2, <2>1, <2>3, <2>4, SendSaveOwnership
    <2>5. CASE UNCHANGED rows
      BY <1>4, <2>1, <2>5
    <2>6. QED
      BY <2>2, <2>4, <2>5
  <1>9. CASE LoseResponse(w)
    BY <1>4, <1>9 DEF LoseResponse, queueVars
  <1>10. QED
    BY <1>5, <1>6, <1>7, <1>8, <1>9 DEF SendStep

\* What a recovery process plans never takes a claim from anybody: READY only
\* from CLAIMED, anything else under the owner in the row.
LEMMA PlanOwnership ==
  ASSUME TypeOK, SendOwnership, NEW c \in Command, NEW new \in CommandState,
         new # "CLAIMED", new = "READY" => rows[c].state = "CLAIMED",
         rows[c].state # "READY",
         NEW expected, expected = rows[c].state,
         Plan(c, Transition(rows[c], new), expected)
  PROVE  SendOwnership'
  <1> DEFINE cmd == Transition(rows[c], new)
  <1>1. rows[c].claimed_by \in Worker /\ rows[c] \in ExecutionCommand
    BY DEF SendOwnership, RowsOwned, TypeOK
  <1>2. cmd.state = new /\ (new # "READY" => cmd.claimed_by \in Worker)
    BY <1>1, TransitionFacts
  <1>3. /\ \E p \in 1 .. MaxJobs :
             jobs' = [jobs EXCEPT ![c] = @ \cup {[by |-> p, command |-> cmd,
                                                 expected |-> expected]}]
        /\ UNCHANGED <<rows, order, pc, work, queue>>
    BY DEF Plan, queueVars
  <1> HIDE DEF cmd
  <1>4. JobsOwned'
    BY <1>2, <1>3 DEF SendOwnership, JobsOwned, TypeOK
  <1>5. /\ RowsOwned' /\ QueueOwned' /\ WorkOwned' /\ SubmissionOwned' /\ UnsentUntilSent'
        /\ AtMostOneSend'
    BY <1>3 DEF SendOwnership, RowsOwned, QueueOwned, WorkOwned, SubmissionOwned,
                UnsentUntilSent, AtMostOneSend, Submitting
  <1>6. QED
    BY <1>4, <1>5 DEF SendOwnership

\* Sweep, reconciliation and their saves.
LEMMA RecoveryOwnership ==
  ASSUME TypeOK, SendOwnership, NEW c \in Command,
         Sweep(c) \/ Reconcile(c) \/ SaveRecovery(c) \/ LoseRecovery(c)
  PROVE  SendOwnership'
  <1>1. rows[c] \in ExecutionCommand /\ now \in Nat
    BY DEF TypeOK
  <1>2. CASE Sweep(c)
    <2>1. IsStale(rows[c], now) /\ Plan(c, Transition(rows[c], RecoveryState(rows[c])),
                                          rows[c].state)
      BY <1>2 DEF Sweep
    <2>2. /\ RecoveryState(rows[c]) \in {"READY", "UNKNOWN"}
          /\ RecoveryState(rows[c]) = "READY" => rows[c].state = "CLAIMED"
          /\ rows[c].state \in {"CLAIMED", "SUBMITTING"}
      BY <1>1, <2>1, RecoveryFacts
    <2>3. RecoveryState(rows[c]) \in CommandState
      BY <2>2, CommandStateNames
    <2>4. QED
      BY <2>1, <2>2, <2>3, PlanOwnership
  <1>3. CASE Reconcile(c)
    <2>1. rows[c].state = "UNKNOWN"
      BY <1>3 DEF Reconcile
    <2>2. PICK found \in Findable(order[c]) :
            \E s \in ResolvedState(rows[c], found, order[c].status = "live", order[c].filled) :
              Plan(c, Transition(rows[c], s), "UNKNOWN")
      BY <1>3 DEF Reconcile
    <2>3. PICK s \in ResolvedState(rows[c], found, order[c].status = "live", order[c].filled) :
              Plan(c, Transition(rows[c], s), "UNKNOWN")
      BY <2>2
    <2>4. s \in {"FILLED", "PARTIAL_FILL", "CANCELLED", "REJECTED"}
      BY <1>1, <2>3, ResolvedFacts
    <2>5. s \in CommandState
      BY <2>4, CommandStateNames
    <2>6. QED
      BY <2>1, <2>3, <2>4, <2>5, PlanOwnership
  <1>4. CASE SaveRecovery(c)
    <2>1. UNCHANGED <<order, pc, work, queue>>
      BY <1>4 DEF SaveRecovery, queueVars
    <2>2. PICK j \in jobs[c] :
            /\ jobs' = [jobs EXCEPT ![c] = @ \ {j}]
            /\ \/ CanSave(c, j.command, j.expected) /\ Save(c, j.command)
               \/ UNCHANGED rows
      BY <1>4 DEF SaveRecovery
    <2>3. /\ j.command \in ExecutionCommand
          /\ j.command.state # "CLAIMED"
          /\ j.command.state = "READY" => j.expected = "CLAIMED"
          /\ j.command.state # "READY" => j.command.claimed_by \in Worker
      BY DEF TypeOK, Job, SendOwnership, JobsOwned
    <2>4. JobsOwned' /\ QueueOwned' /\ WorkOwned' /\ AtMostOneSend'
      BY <2>1, <2>2 DEF SendOwnership, JobsOwned, QueueOwned, WorkOwned, AtMostOneSend,
                        Submitting, TypeOK
    <2>5. CASE UNCHANGED rows
      BY <2>1, <2>4, <2>5 DEF SendOwnership, RowsOwned, SubmissionOwned, UnsentUntilSent,
                              Submitting
    <2>6. CASE CanSave(c, j.command, j.expected) /\ Save(c, j.command)
      <3>1. /\ rows[c].state = j.expected
            /\ j.command.claimed_by \in Worker => rows[c].claimed_by = j.command.claimed_by
        BY <2>6, SaveKeepsOwner
      <3>2. rows'[c] = j.command /\ \A d \in Command \ {c} : rows'[d] = rows[d]
        BY <2>3, <2>6, SaveType
      <3>3. RowsOwned'
        BY <2>3, <3>2 DEF SendOwnership, RowsOwned
      <3>4. SubmissionOwned'
        <4> SUFFICES ASSUME NEW v \in Worker, Submitting(v)
                     PROVE  /\ rows'[work[v].id].claimed_by = v
                            /\ rows'[work[v].id].state \notin Unsubmitted
          BY <2>1 DEF SubmissionOwned, Submitting
        <4>1. rows[work[v].id].claimed_by = v /\ rows[work[v].id].state \notin Unsubmitted
          BY DEF SendOwnership, SubmissionOwned
        <4>2. work[v].id \in Command
          BY DEF Submitting, TypeOK, Work
        <4>3. CASE work[v].id = c
          BY <2>3, <3>1, <3>2, <4>1, <4>3 DEF Unsubmitted
        <4>4. CASE work[v].id # c
          BY <3>2, <4>1, <4>2, <4>4
        <4>5. QED
          BY <4>3, <4>4
      <3>5. UnsentUntilSent'
        BY <2>1, <2>3, <3>1, <3>2 DEF SendOwnership, UnsentUntilSent, Unsubmitted
      <3>6. QED
        BY <2>4, <3>3, <3>4, <3>5 DEF SendOwnership
    <2>7. QED
      BY <2>2, <2>5, <2>6
  <1>5. CASE LoseRecovery(c)
    <2>1. JobsOwned'
      BY <1>5 DEF LoseRecovery, SendOwnership, JobsOwned, TypeOK
    <2>2. QED
      BY <1>5, <2>1 DEF LoseRecovery, queueVars, SendOwnership, RowsOwned, QueueOwned, WorkOwned,
                        SubmissionOwned, UnsentUntilSent, AtMostOneSend, Submitting
  <1>6. QED
    BY <1>2, <1>3, <1>4, <1>5

\* A step that leaves rows, workers, queues, plans and sends alone.
LEMMA QuietOwnership ==
  ASSUME TypeOK, SendOwnership, UNCHANGED <<rows, pc, work, queue, jobs>>,
         \A c \in Command : order'[c].sends = order[c].sends
  PROVE  SendOwnership'
  <1>1. \A w \in Worker : Submitting(w) => work[w].id \in Command
    BY DEF Submitting, TypeOK, Work
  <1>2. UnsentUntilSent'
    BY <1>1 DEF SendOwnership, UnsentUntilSent, Submitting
  <1>3. QED
    BY <1>2 DEF SendOwnership, RowsOwned, QueueOwned, WorkOwned, JobsOwned, SubmissionOwned,
                AtMostOneSend, Submitting

\* The lock, a crash and a restart.
LEMMA ProcessOwnership ==
  ASSUME TypeOK, SendOwnership, NEW w \in Worker, LockStep(w) \/ Crash(w) \/ Restart(w)
  PROVE  SendOwnership'
  <1>1. CASE LockStep(w)
    BY <1>1, QuietOwnership DEF LockStep, AcquireLock, LoseSession, queueVars
  <1>2. CASE Crash(w)
    <2>1. /\ UNCHANGED <<rows, order, jobs>>
          /\ \A v \in Worker : queue'[v] \subseteq queue[v]
          /\ \A v \in Worker \ {w} : pc'[v] = pc[v] /\ work'[v] = work[v]
          /\ pc'[w] = "down"
      BY <1>2 DEF Crash, TypeOK
    <2>2. QED
      BY <2>1, MoveOwnership
  <1>3. CASE Restart(w)
    <2>1. /\ UNCHANGED <<rows, order, jobs, queue, work>>
          /\ \A v \in Worker \ {w} : pc'[v] = pc[v]
          /\ pc'[w] = "idle"
      BY <1>3 DEF Restart, queueVars, TypeOK
    <2>2. QED
      BY <2>1, MoveOwnership
  <1>4. QED
    BY <1>1, <1>2, <1>3

\* The broker fills or closes what was sent; it sends nothing itself.
LEMMA OutsideOwnership ==
  ASSUME TypeOK, SendOwnership,
         EndSession \/ Tick \/ \E c \in Command : BrokerFill(c) \/ BrokerClose(c)
  PROVE  SendOwnership'
  <1>1. ASSUME NEW c \in Command, BrokerFill(c) \/ BrokerClose(c)
        PROVE  SendOwnership'
    <2>1. \A d \in Command : order[d] \in BrokerOrder
      BY DEF TypeOK
    <2> DEFINE filled == order[c].filled + 1
               status == IF filled = order[c].quantity THEN "done" ELSE "live"
    <2>2. \/ order' = [order EXCEPT ![c] = [[@ EXCEPT !.filled = filled] EXCEPT !.status = status]]
          \/ order' = [order EXCEPT ![c] = [@ EXCEPT !.status = "done"]]
      <3>1. CASE BrokerFill(c)
        BY <3>1 DEF BrokerFill, TypeOK
      <3>2. CASE BrokerClose(c)
        BY <3>2 DEF BrokerClose, TypeOK
      <3>3. QED
        BY <1>1, <3>1, <3>2
    <2> HIDE DEF filled, status
    <2>3. /\ [[order[c] EXCEPT !.filled = filled] EXCEPT !.status = status].sends = order[c].sends
          /\ [order[c] EXCEPT !.status = "done"].sends = order[c].sends
      BY <2>1 DEF BrokerOrder
    <2>4. \A d \in Command : order'[d].sends = order[d].sends
      BY <2>2, <2>3 DEF TypeOK
    <2>5. QED
      BY <1>1, <2>4, QuietOwnership DEF BrokerFill, BrokerClose, queueVars
  <1>2. CASE EndSession \/ Tick
    BY <1>2, QuietOwnership DEF EndSession, Tick, queueVars
  <1>3. QED
    BY <1>1, <1>2

\* Every step preserves the ownership of submissions.
LEMMA NextOwnership == TypeOK /\ SendOwnership /\ [Next]_vars => SendOwnership'
  <1> SUFFICES ASSUME TypeOK, SendOwnership, [Next]_vars PROVE SendOwnership'
    OBVIOUS
  <1>1. ASSUME NEW w \in Worker, DispatchStep(w)
        PROVE  SendOwnership'
    BY <1>1, DispatchStartOwnership, DispatchFinishOwnership DEF DispatchStep
  <1>2. CASE UNCHANGED vars
    BY <1>2, QuietOwnership DEF vars, queueVars
  <1>3. QED
    BY <1>1, <1>2, ClaimOwnership, SendStepOwnership, ProcessOwnership, RecoveryOwnership,
       OutsideOwnership DEF Next

\* Whatever crashes, expires or is overtaken, order_send is called at most once
\* for a command, and the claim in its row is the caller's.
THEOREM SentUnderItsClaim == Spec => []SendOwnership
  <1>1. Init => SendOwnership
    BY InitOwnership
  <1>2. TypeOK /\ SendOwnership /\ [Next]_vars => SendOwnership'
    BY NextOwnership
  <1>3. QED
    BY <1>1, <1>2, TypeCorrect, PTL DEF Spec

\* The at-most-once rule of state_machine.py, for every instance of the system.
THEOREM SentAtMostOnce == Spec => []AtMostOneSend
  <1>1. SendOwnership => AtMostOneSend
    BY DEF SendOwnership
  <1>2. QED
    BY <1>1, SentUnderItsClaim, PTL

-----------------------------------------------------------------------------
(* Submission in time: CopiesTimely is inductive. *)

\* A transition keeps a copy timely: it gives a claim away only from CLAIMED.
LEMMA TransitionTimely ==
  ASSUME NEW c, NEW cmd \in ExecutionCommand, Timely(c, cmd), NEW new \in CommandState,
         new # "CLAIMED", new = "READY" => cmd.state = "CLAIMED"
  PROVE  Timely(c, Transition(cmd, new))
  <1>1. /\ Transition(cmd, new).state = new
        /\ Transition(cmd, new).submitting_at = cmd.submitting_at
        /\ new # "READY" => Transition(cmd, new).claim_expires_at = cmd.claim_expires_at
    BY TransitionFacts
  <1>2. CASE new = "READY"
    BY <1>1, <1>2 DEF Timely, Unsubmitted
  <1>3. CASE new # "READY"
    BY <1>1, <1>3 DEF Timely, Unsubmitted
  <1>4. QED
    BY <1>2, <1>3

\* Copies that agree in state, claim and submission are timely alike.
LEMMA SameTimely ==
  ASSUME NEW c, NEW cmd, NEW other, Timely(c, cmd), other.state = cmd.state,
         other.submitting_at = cmd.submitting_at,
         other.claim_expires_at = cmd.claim_expires_at
  PROVE  Timely(c, other)
  BY DEF Timely

\* After intake nothing was submitted.
LEMMA InitTimely == Init => CopiesTimely
  BY DEF Init, ReadyRow, CopiesTimely, RowsTimely, QueueTimely, WorkTimely, JobsTimely,
         Timely, Unsubmitted

\* A new claim starts with a lease and without a submission.
LEMMA ClaimTimely ==
  ASSUME TypeOK, CopiesTimely, NEW w \in Worker, NEW c \in Command, ClaimNext(w, c)
  PROVE  CopiesTimely'
  <1> DEFINE claimed == MarkClaimed(rows[c], w, now)
  <1>1. /\ claimed \in ExecutionCommand
        /\ claimed.state = "CLAIMED"
        /\ claimed.submitting_at = rows[c].submitting_at
        /\ claimed.claim_expires_at \in Nat
    <2>1. rows[c] \in ExecutionCommand /\ now \in Nat
      BY DEF TypeOK
    <2>2. now + LeaseSeconds \in Nat
      BY <2>1, LeaseAssumption
    <2>3. QED
      BY <2>1, <2>2, MarkClaimedFacts
  <1>2. /\ Save(c, claimed) /\ Enqueue(w, c, claimed)
        /\ rows[c].state = "READY"
        /\ UNCHANGED <<pc, work, jobs>>
    BY DEF ClaimNext
  <1>3. Timely(c, claimed)
    BY <1>1, <1>2 DEF Timely, CopiesTimely, RowsTimely, Unsubmitted, NoTime
  <1>4. rows'[c] = claimed /\ \A d \in Command \ {c} : rows'[d] = rows[d]
    BY <1>1, <1>2, SaveType
  <1> HIDE DEF claimed
  <1>5. RowsTimely'
    BY <1>3, <1>4 DEF CopiesTimely, RowsTimely
  <1>6. QueueTimely'
    <2>1. CASE UNCHANGED queue
      BY <2>1 DEF CopiesTimely, QueueTimely
    <2>2. CASE queue' = [queue EXCEPT ![w] =
                 @ \cup {[id |-> c, command |-> claimed, sequence |-> sequence[w]]}]
      BY <1>3, <2>2 DEF CopiesTimely, QueueTimely, TypeOK
    <2>3. QED
      BY <1>2, <2>1, <2>2 DEF Enqueue
  <1>7. WorkTimely' /\ JobsTimely'
    BY <1>2 DEF CopiesTimely, WorkTimely, JobsTimely
  <1>8. QED
    BY <1>5, <1>6, <1>7 DEF CopiesTimely

\* A worker goes on with a timely copy, or with none, and may have saved it.
LEMMA WorkerTimely ==
  ASSUME TypeOK, CopiesTimely, NEW w \in Worker, UNCHANGED jobs,
         \A v \in Worker : queue'[v] \subseteq queue[v],
         \A v \in Worker \ {w} : pc'[v] = pc[v] /\ work'[v] = work[v],
         \/ pc'[w] \in {"idle", "down"}
         \/ Timely(work'[w].id, work'[w].command),
         \/ UNCHANGED rows
         \/ \E c \in Command, cmd \in ExecutionCommand : Timely(c, cmd) /\ Save(c, cmd)
  PROVE  CopiesTimely'
  <1>1. RowsTimely'
    <2>1. CASE UNCHANGED rows
      BY <2>1 DEF CopiesTimely, RowsTimely
    <2>2. ASSUME NEW c \in Command, NEW cmd \in ExecutionCommand, Timely(c, cmd), Save(c, cmd)
          PROVE  RowsTimely'
      <3>1. rows'[c] = cmd /\ \A d \in Command \ {c} : rows'[d] = rows[d]
        BY <2>2, SaveType
      <3>2. QED
        BY <2>2, <3>1 DEF CopiesTimely, RowsTimely
    <2>3. QED
      BY <2>1, <2>2
  <1>2. QueueTimely' /\ WorkTimely' /\ JobsTimely'
    BY DEF CopiesTimely, QueueTimely, WorkTimely, JobsTimely
  <1>3. QED
    BY <1>1, <1>2 DEF CopiesTimely

\* Dispatch goes on with the timely copy it took from the queue.
LEMMA DispatchStartTimely ==
  ASSUME TypeOK, SendOwnership, CopiesTimely, NEW w \in Worker, DispatchStart(w)
  PROVE  CopiesTimely'
  <1>1. PICK e \in Chosen(queue[w], requests[w], now) :
          /\ TakeFromQueue(w, e)
          /\ \/ Continue(w, "decided", e.id, Transition(e.command, "EXPIRED"))
             \/ UNCHANGED <<pc, work>>
             \/ Continue(w, "selected", e.id, e.command)
    BY DEF DispatchStart
  <1>2. UNCHANGED <<rows, jobs>> /\ pc[w] = "idle"
    BY DEF DispatchStart
  <1>3. e \in queue[w] /\ e.id \in Command /\ e.command \in ExecutionCommand
    BY DEF Chosen, TypeOK, QueuedCommand
  <1>4. Timely(e.id, e.command)
    BY <1>3 DEF CopiesTimely, QueueTimely
  <1>5. /\ Transition(e.command, "EXPIRED") \in ExecutionCommand
        /\ Timely(e.id, Transition(e.command, "EXPIRED"))
    BY <1>3, <1>4, ClosedCopyFacts, TransitionTimely, CommandStateNames
  <1>6. /\ pc'[w] = "idle" \/ Timely(work'[w].id, work'[w].command)
        /\ \A v \in Worker \ {w} : pc'[v] = pc[v] /\ work'[v] = work[v]
    <2>1. "decided" \in PC /\ "selected" \in PC
      BY DEF PC
    <2>2. CASE Continue(w, "decided", e.id, Transition(e.command, "EXPIRED"))
      BY <1>3, <1>5, <2>1, <2>2, ContinueType
    <2>3. CASE UNCHANGED <<pc, work>>
      BY <1>2, <2>3
    <2>4. CASE Continue(w, "selected", e.id, e.command)
      BY <1>3, <1>4, <2>1, <2>4, ContinueType
    <2>5. QED
      BY <1>1, <2>2, <2>3, <2>4
  <1>7. \A v \in Worker : queue'[v] \subseteq queue[v]
    BY <1>1 DEF TakeFromQueue, TypeOK
  <1>8. QED
    BY <1>2, <1>6, <1>7, WorkerTimely

\* The last check of dispatch and mark_submitting read one clock: the submission
\* falls before the signal's deadline and the end of the lease.
LEMMA ConfirmedTimely ==
  ASSUME TypeOK, SendOwnership, CopiesTimely, NEW w \in Worker, NEW position \in Positions,
         ConfirmSend(w, position)
  PROVE  Timely(work[w].id, MarkSubmitting(Adjusted(w, position), now))
  <1> DEFINE sent == MarkSubmitting(Adjusted(w, position), now)
             cmd == work[w].command
  <1>1. /\ pc[w] = "selected" /\ work[w] \in Work /\ now \in Nat
        /\ ~SignalExpired(work[w].id, now) /\ ~LeaseExpired(cmd, now)
    BY DEF ConfirmSend, TypeOK
  <1>2. cmd.state = "CLAIMED" /\ Timely(work[w].id, cmd) /\ cmd \in ExecutionCommand
    BY <1>1 DEF SendOwnership, WorkOwned, CopiesTimely, WorkTimely, Work
  <1>3. now < cmd.claim_expires_at
    BY <1>1, <1>2 DEF Timely, LeaseExpired, ExecutionCommand, TimeOrNull, Time, NoTime
  <1>4. /\ sent.state = "SUBMITTING" /\ sent.submitting_at = now
        /\ sent.claim_expires_at = cmd.claim_expires_at
    BY <1>1, AdjustedFacts, MarkSubmittingFacts
  <1>5. QED
    BY <1>1, <1>3, <1>4 DEF Timely, Unsubmitted

\* The second half of dispatch.
LEMMA DispatchFinishTimely ==
  ASSUME TypeOK, SendOwnership, CopiesTimely, NEW w \in Worker,
         \/ AlreadyClosed(w)
         \/ DispatchDropped(w)
         \/ \E position \in Positions : \/ RevalidationRejected(w, position)
                                         \/ ExpiredBeforeSend(w, position)
                                         \/ ConfirmSend(w, position)
  PROVE  CopiesTimely'
  <1>1. /\ pc[w] = "selected"
        /\ UNCHANGED <<now, rows, queue, jobs>>
    BY DEF AlreadyClosed, DispatchDropped, RevalidationRejected, ExpiredBeforeSend, ConfirmSend,
           queueVars
  <1>2. work[w] \in Work /\ Timely(work[w].id, work[w].command)
    BY <1>1 DEF TypeOK, CopiesTimely, WorkTimely
  <1>3. work[w].id \in Command /\ work[w].command \in ExecutionCommand /\ now \in Nat
    BY <1>2 DEF Work, TypeOK
  <1>4. CASE DispatchDropped(w)
    BY <1>1, <1>4, BackToIdleType, WorkerTimely DEF DispatchDropped
  <1>5. ASSUME NEW cmd \in ExecutionCommand, Timely(work[w].id, cmd),
               Continue(w, "decided", work[w].id, cmd)
        PROVE  CopiesTimely'
    <2>1. "decided" \in PC
      BY DEF PC
    <2>2. /\ work'[w].id = work[w].id /\ work'[w].command = cmd
          /\ \A v \in Worker \ {w} : pc'[v] = pc[v] /\ work'[v] = work[v]
      BY <1>3, <1>5, <2>1, ContinueType
    <2>3. QED
      BY <1>1, <1>5, <2>2, WorkerTimely
  <1>6. ASSUME NEW cmd \in ExecutionCommand, Timely(work[w].id, cmd),
               NEW new \in {"CANCELLED", "EXPIRED"},
               Continue(w, "decided", work[w].id, Transition(cmd, new))
        PROVE  CopiesTimely'
    <2>1. new \in CommandState /\ new # "CLAIMED" /\ new # "READY"
      BY CommandStateNames
    <2>2. Transition(cmd, new) \in ExecutionCommand /\ Timely(work[w].id, Transition(cmd, new))
      BY <1>6, <2>1, TransitionTimely, KeptCopyFacts
    <2>3. QED
      BY <1>5, <1>6, <2>2
  <1>7. CASE AlreadyClosed(w)
    BY <1>2, <1>3, <1>6, <1>7 DEF AlreadyClosed
  <1>8. ASSUME NEW position \in Positions,
               \/ RevalidationRejected(w, position)
               \/ ExpiredBeforeSend(w, position)
               \/ ConfirmSend(w, position)
        PROVE  CopiesTimely'
    <2>1. Adjusted(w, position) \in ExecutionCommand
      BY <1>2, AdjustedFacts
    <2>2. Timely(work[w].id, Adjusted(w, position))
      BY <1>2, AdjustedFacts, SameTimely
    <2>3. CASE RevalidationRejected(w, position)
      BY <1>6, <2>1, <2>2, <2>3 DEF RevalidationRejected
    <2>4. CASE ExpiredBeforeSend(w, position)
      BY <1>6, <2>1, <2>2, <2>4 DEF ExpiredBeforeSend
    <2>5. CASE ConfirmSend(w, position)
      <3>1. MarkSubmitting(Adjusted(w, position), now) \in ExecutionCommand
        BY <1>3, <2>1, MarkSubmittingFacts
      <3>2. Continue(w, "decided", work[w].id, MarkSubmitting(Adjusted(w, position), now))
        BY <2>5 DEF ConfirmSend
      <3>3. QED
        BY <1>5, <2>5, <3>1, <3>2, ConfirmedTimely
    <2>6. QED
      BY <1>8, <2>3, <2>4, <2>5
  <1>9. QED
    BY <1>4, <1>7, <1>8

\* Persist, request, send, response.
LEMMA SendStepTimely ==
  ASSUME TypeOK, SendOwnership, CopiesTimely, NEW w \in Worker, SendStep(w)
  PROVE  CopiesTimely'
  <1> DEFINE c == work[w].id
             cmd == work[w].command
  <1>1. pc[w] \in {"decided", "submitting", "requested", "sent"}
    BY DEF SendStep, SaveDispatch, StartRequest, OrderSend, SaveResponse, LoseResponse
  <1>2. c \in Command /\ cmd \in ExecutionCommand /\ Timely(c, cmd) /\ now \in Nat
    BY <1>1 DEF TypeOK, Work, CopiesTimely, WorkTimely
  <1>3. {"submitting", "requested"} \subseteq PC
    BY DEF PC
  <1>4. ASSUME NEW copy \in ExecutionCommand, Timely(c, copy),
               Save(c, copy) \/ UNCHANGED rows,
               BackToIdle(w) \/ \E next \in {"submitting", "requested"} :
                                   Continue(w, next, c, copy),
               UNCHANGED <<queue, jobs>>
        PROVE  CopiesTimely'
    <2>1. /\ pc'[w] = "idle" \/ Timely(work'[w].id, work'[w].command)
          /\ \A v \in Worker \ {w} : pc'[v] = pc[v] /\ work'[v] = work[v]
      <3>1. CASE BackToIdle(w)
        BY <3>1, BackToIdleType
      <3>2. ASSUME NEW next \in {"submitting", "requested"}, Continue(w, next, c, copy)
            PROVE  <2>1!:
        BY <1>2, <1>3, <1>4, <3>2, ContinueType
      <3>3. QED
        BY <1>4, <3>1, <3>2
    <2>2. QED
      BY <1>2, <1>4, <2>1, WorkerTimely
  <1>5. CASE SaveDispatch(w)
    BY <1>2, <1>4, <1>5 DEF SaveDispatch, queueVars
  <1>6. CASE StartRequest(w)
    <2>1. /\ MarkBrokerRequestStarted(cmd, now) \in ExecutionCommand
          /\ Timely(c, MarkBrokerRequestStarted(cmd, now))
      BY <1>2, MarkBrokerRequestStartedFacts, SameTimely
    <2>2. QED
      BY <1>4, <1>6, <2>1 DEF StartRequest, queueVars
  <1>7. ASSUME NEW status \in {"live", "refused"}, OrderSend(w, status)
        PROVE  CopiesTimely'
    <2>1. /\ \A v \in Worker \ {w} : pc'[v] = pc[v]
          /\ UNCHANGED <<rows, work, queue, jobs>>
      BY <1>7 DEF OrderSend, queueVars, TypeOK
    <2>2. QED
      BY <1>2, <2>1, WorkerTimely
  <1>8. CASE SaveResponse(w)
    <2>1. UNCHANGED <<queue, jobs>> /\ BackToIdle(w)
      BY <1>8 DEF SaveResponse, queueVars
    <2>2. PICK s \in Responses(order[c]) : Save(c, Transition(cmd, s)) \/ UNCHANGED rows
      BY <1>8 DEF SaveResponse
    <2>3. s \in CommandState /\ s # "READY" /\ s # "CLAIMED"
      <3>1. s \in {"ACKNOWLEDGED", "PARTIAL_FILL", "FILLED", "REJECTED"}
        BY ResponseStates
      <3>2. QED
        BY <3>1, CommandStateNames
    <2> HIDE DEF c, cmd
    <2>4. Transition(cmd, s) \in ExecutionCommand /\ Timely(c, Transition(cmd, s))
      BY <1>2, <2>3, TransitionTimely, KeptCopyFacts
    <2>5. QED
      BY <1>4, <2>1, <2>2, <2>4
  <1>9. CASE LoseResponse(w)
    BY <1>2, <1>4, <1>9 DEF LoseResponse, queueVars
  <1>10. QED
    BY <1>5, <1>6, <1>7, <1>8, <1>9 DEF SendStep

\* Sweep, reconciliation and their saves.
LEMMA RecoveryTimely ==
  ASSUME TypeOK, CopiesTimely, NEW c \in Command,
         Sweep(c) \/ Reconcile(c) \/ SaveRecovery(c) \/ LoseRecovery(c)
  PROVE  CopiesTimely'
  <1>1. rows[c] \in ExecutionCommand /\ now \in Nat /\ Timely(c, rows[c])
    BY DEF TypeOK, CopiesTimely, RowsTimely
  <1>2. ASSUME NEW new \in CommandState, new # "CLAIMED",
               new = "READY" => rows[c].state = "CLAIMED",
               NEW expected, Plan(c, Transition(rows[c], new), expected)
        PROVE  CopiesTimely'
    <2>1. Timely(c, Transition(rows[c], new))
      BY <1>1, <1>2, TransitionTimely
    <2>2. JobsTimely'
      BY <1>2, <2>1 DEF Plan, CopiesTimely, JobsTimely, TypeOK
    <2>3. QED
      BY <1>2, <2>2 DEF Plan, queueVars, CopiesTimely, RowsTimely, QueueTimely, WorkTimely
  <1>3. CASE Sweep(c)
    <2>1. IsStale(rows[c], now) /\ Plan(c, Transition(rows[c], RecoveryState(rows[c])),
                                          rows[c].state)
      BY <1>3 DEF Sweep
    <2>2. /\ RecoveryState(rows[c]) \in {"READY", "UNKNOWN"}
          /\ RecoveryState(rows[c]) = "READY" => rows[c].state = "CLAIMED"
      BY <1>1, <2>1, RecoveryFacts
    <2>3. RecoveryState(rows[c]) \in CommandState /\ RecoveryState(rows[c]) # "CLAIMED"
      BY <2>2, CommandStateNames
    <2>4. QED
      BY <1>2, <2>1, <2>2, <2>3
  <1>4. CASE Reconcile(c)
    <2>1. PICK found \in Findable(order[c]) :
            \E s \in ResolvedState(rows[c], found, order[c].status = "live", order[c].filled) :
              Plan(c, Transition(rows[c], s), "UNKNOWN")
      BY <1>4 DEF Reconcile
    <2>2. PICK s \in ResolvedState(rows[c], found, order[c].status = "live", order[c].filled) :
              Plan(c, Transition(rows[c], s), "UNKNOWN")
      BY <2>1
    <2>3. s \in {"FILLED", "PARTIAL_FILL", "CANCELLED", "REJECTED"}
      BY <1>1, <2>2, ResolvedFacts
    <2>4. s \in CommandState /\ s # "CLAIMED" /\ s # "READY"
      BY <2>3, CommandStateNames
    <2>5. QED
      BY <1>2, <2>2, <2>4
  <1>5. CASE SaveRecovery(c)
    <2>1. UNCHANGED <<pc, work, queue>>
      BY <1>5 DEF SaveRecovery, queueVars
    <2>2. PICK j \in jobs[c] : /\ jobs' = [jobs EXCEPT ![c] = @ \ {j}]
                               /\ Save(c, j.command) \/ UNCHANGED rows
      BY <1>5 DEF SaveRecovery
    <2>3. j.command \in ExecutionCommand /\ Timely(c, j.command)
      BY DEF TypeOK, Job, CopiesTimely, JobsTimely
    <2>4. RowsTimely'
      <3>1. CASE Save(c, j.command)
        <4>1. rows'[c] = j.command /\ \A d \in Command \ {c} : rows'[d] = rows[d]
          BY <2>3, <3>1, SaveType
        <4>2. QED
          BY <2>3, <4>1 DEF CopiesTimely, RowsTimely
      <3>2. CASE UNCHANGED rows
        BY <3>2 DEF CopiesTimely, RowsTimely
      <3>3. QED
        BY <2>2, <3>1, <3>2
    <2>5. JobsTimely'
      BY <2>2 DEF CopiesTimely, JobsTimely, TypeOK
    <2>6. QED
      BY <2>1, <2>4, <2>5 DEF CopiesTimely, QueueTimely, WorkTimely
  <1>6. CASE LoseRecovery(c)
    <2>1. JobsTimely'
      BY <1>6 DEF LoseRecovery, CopiesTimely, JobsTimely, TypeOK
    <2>2. QED
      BY <1>6, <2>1 DEF LoseRecovery, queueVars, CopiesTimely, RowsTimely, QueueTimely, WorkTimely
  <1>7. QED
    BY <1>3, <1>4, <1>5, <1>6

\* Steps that leave every copy alone, or only forget copies.
LEMMA QuietTimely ==
  ASSUME TypeOK, CopiesTimely,
         \/ \E w \in Worker : LockStep(w) \/ Crash(w) \/ Restart(w)
         \/ \E c \in Command : BrokerFill(c) \/ BrokerClose(c)
         \/ EndSession \/ Tick \/ UNCHANGED vars
  PROVE  CopiesTimely'
  <1>1. ASSUME NEW w \in Worker, Crash(w) \/ Restart(w)
        PROVE  CopiesTimely'
    <2>1. /\ UNCHANGED <<rows, jobs>>
          /\ \A v \in Worker : queue'[v] \subseteq queue[v]
          /\ \A v \in Worker \ {w} : pc'[v] = pc[v] /\ work'[v] = work[v]
          /\ pc'[w] \in {"down", "idle"}
      BY <1>1 DEF Crash, Restart, queueVars, TypeOK
    <2>2. QED
      BY <2>1, WorkerTimely
  <1>2. ASSUME UNCHANGED <<rows, pc, work, queue, jobs>>
        PROVE  CopiesTimely'
    BY <1>2 DEF CopiesTimely, RowsTimely, QueueTimely, WorkTimely, JobsTimely
  <1>3. QED
    BY <1>1, <1>2 DEF LockStep, AcquireLock, LoseSession, BrokerFill, BrokerClose, EndSession,
                      Tick, vars, queueVars

\* Every step keeps every copy timely.
LEMMA NextTimely == TypeOK /\ SendOwnership /\ CopiesTimely /\ [Next]_vars => CopiesTimely'
  <1> SUFFICES ASSUME TypeOK, SendOwnership, CopiesTimely, [Next]_vars PROVE CopiesTimely'
    OBVIOUS
  <1>1. ASSUME NEW w \in Worker, DispatchStep(w)
        PROVE  CopiesTimely'
    BY <1>1, DispatchStartTimely, DispatchFinishTimely DEF DispatchStep
  <1>2. QED
    BY <1>1, ClaimTimely, SendStepTimely, RecoveryTimely, QuietTimely DEF Next

\* Whatever the broker round-trip of dispatch takes, no command is marked
\* SUBMITTING after its signal or its lease expired.
THEOREM SubmittedBeforeExpiry == Spec => []SubmittedInTime
  <1>1. Init => CopiesTimely
    BY InitTimely
  <1>2. TypeOK /\ SendOwnership /\ CopiesTimely /\ [Next]_vars => CopiesTimely'
    BY NextTimely
  <1>3. CopiesTimely => SubmittedInTime
    BY DEF CopiesTimely, RowsTimely, Timely, SubmittedInTime
  <1>4. QED
    BY <1>1, <1>2, <1>3, TypeCorrect, SentUnderItsClaim, PTL DEF Spec

-----------------------------------------------------------------------------
(* Action properties of the rows. *)

\* How a row can change: a claim of a READY row, or a compare-and-set from
\* CLAIMED, SUBMITTING or UNKNOWN that names the owner of what it keeps.
RowWritten(c) ==
  \/ rows'[c] = rows[c]
  \/ rows[c].state = "READY"
  \/ \E cmd \in ExecutionCommand, expected \in {"CLAIMED", "SUBMITTING", "UNKNOWN"} :
       /\ CanSave(c, cmd, expected)
       /\ rows'[c] = cmd
       /\ cmd.state # "READY" => cmd.claimed_by \in Worker

\* Every step writes rows in that way only.
LEMMA NextWrites ==
  ASSUME TypeOK, SendOwnership, [Next]_vars, NEW c \in Command
  PROVE  RowWritten(c)
  <1>1. ASSUME NEW d \in Command, NEW cmd \in ExecutionCommand,
               NEW expected \in {"CLAIMED", "SUBMITTING", "UNKNOWN"},
               CanSave(d, cmd, expected), Save(d, cmd),
               cmd.state # "READY" => cmd.claimed_by \in Worker
        PROVE  RowWritten(c)
    <2>1. rows'[d] = cmd /\ \A e \in Command \ {d} : rows'[e] = rows[e]
      BY <1>1, SaveType
    <2>2. QED
      BY <1>1, <2>1 DEF RowWritten
  <1>2. CASE UNCHANGED rows
    BY <1>2 DEF RowWritten
  <1>3. ASSUME NEW w \in Worker, NEW d \in Command, ClaimNext(w, d)
        PROVE  RowWritten(c)
    <2>1. rows' = [rows EXCEPT ![d] = MarkClaimed(rows[d], w, now)] /\ rows[d].state = "READY"
      BY <1>3 DEF ClaimNext, Save
    <2>2. QED
      BY <2>1 DEF RowWritten, TypeOK
  <1>4. ASSUME NEW w \in Worker, SaveDispatch(w) \/ StartRequest(w) \/ SaveResponse(w)
        PROVE  RowWritten(c)
    <2> DEFINE cmd == work[w].command
    <2>1. pc[w] \in {"decided", "submitting", "sent"}
      BY <1>4 DEF SaveDispatch, StartRequest, SaveResponse
    <2>2. work[w].id \in Command /\ cmd \in ExecutionCommand /\ cmd.claimed_by = w /\ now \in Nat
      BY <2>1 DEF TypeOK, Work, SendOwnership, WorkOwned
    <2>3. CASE SaveDispatch(w)
      BY <1>1, <1>2, <2>2, <2>3 DEF SaveDispatch
    <2>4. CASE StartRequest(w)
      <3>1. /\ MarkBrokerRequestStarted(cmd, now) \in ExecutionCommand
            /\ MarkBrokerRequestStarted(cmd, now).claimed_by = w
        BY <2>2, MarkBrokerRequestStartedFacts
      <3>2. QED
        BY <1>1, <1>2, <2>2, <2>4, <3>1 DEF StartRequest
    <2>5. CASE SaveResponse(w)
      <3>1. PICK s \in Responses(order[work[w].id]) :
              \/ /\ CanSave(work[w].id, Transition(cmd, s), "SUBMITTING")
                 /\ Save(work[w].id, Transition(cmd, s))
              \/ UNCHANGED rows
        BY <2>5 DEF SaveResponse
      <3>2. s \in CommandState /\ s # "READY"
        <4>1. s \in {"ACKNOWLEDGED", "PARTIAL_FILL", "FILLED", "REJECTED"}
          BY ResponseStates
        <4>2. QED
          BY <4>1, CommandStateNames
      <3> HIDE DEF cmd
      <3>3. Transition(cmd, s) \in ExecutionCommand /\ Transition(cmd, s).claimed_by = w
        BY <2>2, <3>2, KeptCopyFacts
      <3>4. QED
        BY <1>1, <1>2, <2>2, <3>1, <3>3
    <2>6. QED
      BY <1>4, <2>3, <2>4, <2>5
  <1>5. ASSUME NEW d \in Command, SaveRecovery(d)
        PROVE  RowWritten(c)
    <2>1. PICK j \in jobs[d] : \/ CanSave(d, j.command, j.expected) /\ Save(d, j.command)
                               \/ UNCHANGED rows
      BY <1>5 DEF SaveRecovery
    <2>2. /\ j.command \in ExecutionCommand
          /\ j.expected \in {"CLAIMED", "SUBMITTING", "UNKNOWN"}
          /\ j.command.state # "READY" => j.command.claimed_by \in Worker
      BY DEF TypeOK, Job, SendOwnership, JobsOwned
    <2>3. QED
      BY <1>1, <1>2, <2>1, <2>2
  <1>6. QED
    BY <1>2, <1>3, <1>4, <1>5
    DEF Next, LockStep, AcquireLock, LoseSession, DispatchStep, DispatchStart, AlreadyClosed,
        DispatchDropped, RevalidationRejected, ExpiredBeforeSend, ConfirmSend, SendStep,
        OrderSend, LoseResponse, Crash, Restart, Sweep, Reconcile, Plan, LoseRecovery,
        BrokerFill, BrokerClose, EndSession, Tick, vars

\* A claim in force is kept by whoever writes the row, or released.
THEOREM ClaimsChangeByRelease == Spec => ClaimGenerationKept
  <1>1. ASSUME TypeOK, SendOwnership, [Next]_vars, NEW c \in Command,
               rows[c].state = "CLAIMED", rows'[c] # rows[c], rows'[c].state # "READY"
        PROVE  /\ rows'[c].claimed_by = rows[c].claimed_by
               /\ rows'[c].claim_expires_at = rows[c].claim_expires_at
    BY <1>1, NextWrites, NobodyAssumption DEF RowWritten, CanSave, SaveMatches
  <1>2. TypeOK /\ SendOwnership /\ [Next]_vars =>
          [\A c \in Command :
             rows[c].state = "CLAIMED" /\ rows'[c] # rows[c] /\ rows'[c].state # "READY" =>
               /\ rows'[c].claimed_by = rows[c].claimed_by
               /\ rows'[c].claim_expires_at = rows[c].claim_expires_at]_vars
    BY <1>1
  <1>3. QED
    BY <1>2, TypeCorrect, SentUnderItsClaim, PTL DEF Spec, ClaimGenerationKept

\* A resolved command is never written again.
THEOREM ResolvedStaysResolved == Spec => TerminalIsFinal
  <1>1. ASSUME TypeOK, SendOwnership, [Next]_vars, NEW c \in Command,
               rows[c].state \in Terminal
        PROVE  rows'[c] = rows[c]
    BY <1>1, NextWrites DEF RowWritten, CanSave, SaveMatches, Terminal
  <1>2. TypeOK /\ SendOwnership /\ [Next]_vars =>
          [\A c \in Command : rows[c].state \in Terminal => rows'[c] = rows[c]]_vars
    BY <1>1
  <1>3. QED
    BY <1>2, TypeCorrect, SentUnderItsClaim, PTL DEF Spec, TerminalIsFinal

-----------------------------------------------------------------------------
(* Releases: ReleasesCurrent is inductive. *)

\* A planned release is of the claim in the row, whose lease is over, or of an
\* earlier one, and then its revision is behind the row's.
ReleasesCurrent ==
  \A c \in Command : \A j \in jobs[c] : j.command.state = "READY" =>
    /\ rows[c].state = "READY" => j.command.state_revision <= rows[c].state_revision
    /\ rows[c].state = "CLAIMED" =>
         \/ j.command.state_revision < rows[c].state_revision
         \/ /\ j.command.state_revision = rows[c].state_revision + 1
            /\ LeaseExpired(rows[c], now)

\* How a row becomes READY or CLAIMED: by a planned release, or by a claim.
RowReleased(c) ==
  \/ rows'[c] = rows[c]
  \/ rows'[c].state \notin Unsubmitted
  \/ /\ rows[c].state = "READY" /\ rows'[c].state = "CLAIMED"
     /\ rows'[c].state_revision = rows[c].state_revision + 1
  \/ \E j \in jobs[c] : /\ j.command.state = "READY"
                         /\ rows'[c] = j.command
                         /\ rows[c].state = "CLAIMED"
                         /\ rows[c].state_revision <= j.command.state_revision

\* Every step writes rows in that way only.
LEMMA NextReleased ==
  ASSUME TypeOK, SendOwnership, [Next]_vars, NEW c \in Command
  PROVE  RowReleased(c)
  <1>1. ASSUME NEW d \in Command, NEW cmd \in ExecutionCommand, Save(d, cmd),
               cmd.state \notin Unsubmitted
        PROVE  RowReleased(c)
    <2>1. rows'[d] = cmd /\ \A e \in Command \ {d} : rows'[e] = rows[e]
      BY <1>1, SaveType
    <2>2. QED
      BY <1>1, <2>1 DEF RowReleased
  <1>2. CASE UNCHANGED rows
    BY <1>2 DEF RowReleased
  <1>3. ASSUME NEW w \in Worker, NEW d \in Command, ClaimNext(w, d)
        PROVE  RowReleased(c)
    <2>1. rows[d] \in ExecutionCommand /\ now \in Nat /\ "CLAIMED" \in CommandState
      BY CommandStateNames DEF TypeOK
    <2>2. /\ MarkClaimed(rows[d], w, now) \in ExecutionCommand
          /\ MarkClaimed(rows[d], w, now).state = "CLAIMED"
      BY <2>1, MarkClaimedFacts
    <2>3. MarkClaimed(rows[d], w, now).state_revision = rows[d].state_revision + 1
      BY <2>1, TransitionFacts DEF MarkClaimed, ExecutionCommand
    <2>4. /\ rows'[d] = MarkClaimed(rows[d], w, now) /\ rows[d].state = "READY"
          /\ \A e \in Command \ {d} : rows'[e] = rows[e]
      BY <1>3, <2>2, SaveType DEF ClaimNext
    <2>5. QED
      BY <2>2, <2>3, <2>4 DEF RowReleased
  <1>4. ASSUME NEW w \in Worker, SaveDispatch(w) \/ StartRequest(w) \/ SaveResponse(w)
        PROVE  RowReleased(c)
    <2> DEFINE cmd == work[w].command
    <2>1. pc[w] \in {"decided", "submitting", "sent"}
      BY <1>4 DEF SaveDispatch, StartRequest, SaveResponse
    <2>2. work[w].id \in Command /\ cmd \in ExecutionCommand /\ now \in Nat
      BY <2>1 DEF TypeOK, Work
    <2>3. CASE SaveDispatch(w)
      <3>1. cmd.state \in {"SUBMITTING", "CANCELLED", "EXPIRED"}
        BY <2>3 DEF SaveDispatch, SendOwnership, WorkOwned
      <3>2. QED
        BY <1>1, <1>2, <2>2, <2>3, <3>1 DEF SaveDispatch, Unsubmitted
    <2>4. CASE StartRequest(w)
      <3>1. cmd.state = "SUBMITTING"
        BY <2>4 DEF StartRequest, SendOwnership, WorkOwned, Submitting
      <3>2. /\ MarkBrokerRequestStarted(cmd, now) \in ExecutionCommand
            /\ MarkBrokerRequestStarted(cmd, now).state = "SUBMITTING"
        BY <2>2, <3>1, MarkBrokerRequestStartedFacts
      <3>3. QED
        BY <1>1, <1>2, <2>2, <2>4, <3>2 DEF StartRequest, Unsubmitted
    <2>5. CASE SaveResponse(w)
      <3>1. PICK s \in Responses(order[work[w].id]) :
              Save(work[w].id, Transition(cmd, s)) \/ UNCHANGED rows
        BY <2>5 DEF SaveResponse
      <3>2. s \in {"ACKNOWLEDGED", "PARTIAL_FILL", "FILLED", "REJECTED"}
        BY ResponseStates
      <3>3. s \in CommandState /\ s \notin Unsubmitted
        BY <3>2, CommandStateNames DEF Unsubmitted
      <3> HIDE DEF cmd
      <3>4. Transition(cmd, s) \in ExecutionCommand /\ Transition(cmd, s).state = s
        BY <2>2, <3>3, TransitionFacts
      <3>5. QED
        BY <1>1, <1>2, <2>2, <3>1, <3>3, <3>4
    <2>6. QED
      BY <1>4, <2>3, <2>4, <2>5
  <1>5. ASSUME NEW d \in Command, SaveRecovery(d)
        PROVE  RowReleased(c)
    <2>1. PICK j \in jobs[d] : \/ CanSave(d, j.command, j.expected) /\ Save(d, j.command)
                               \/ UNCHANGED rows
      BY <1>5 DEF SaveRecovery
    <2>2. /\ j.command \in ExecutionCommand
          /\ j.command.state # "CLAIMED"
          /\ j.command.state = "READY" => j.expected = "CLAIMED"
      BY DEF TypeOK, Job, SendOwnership, JobsOwned
    <2>3. CASE j.command.state # "READY"
      BY <1>1, <1>2, <2>1, <2>2, <2>3 DEF Unsubmitted
    <2>4. CASE j.command.state = "READY" /\ Save(d, j.command) /\ CanSave(d, j.command, j.expected)
      <3>1. rows'[d] = j.command /\ \A e \in Command \ {d} : rows'[e] = rows[e]
        BY <2>2, <2>4, SaveType
      <3>2. QED
        BY <2>2, <2>4, <3>1 DEF RowReleased, CanSave, SaveMatches
    <2>5. QED
      BY <1>2, <2>1, <2>3, <2>4
  <1>6. QED
    BY <1>2, <1>3, <1>4, <1>5
    DEF Next, LockStep, AcquireLock, LoseSession, DispatchStep, DispatchStart, AlreadyClosed,
        DispatchDropped, RevalidationRejected, ExpiredBeforeSend, ConfirmSend, SendStep,
        OrderSend, LoseResponse, Crash, Restart, Sweep, Reconcile, Plan, LoseRecovery,
        BrokerFill, BrokerClose, EndSession, Tick, vars

\* A release is planned for a claim whose lease is over, and the clock only
\* moves on.
ReleasePlanned(c) ==
  \A j \in jobs'[c] \ jobs[c] : j.command.state = "READY" =>
    /\ rows' = rows
    /\ rows[c].state = "CLAIMED" /\ LeaseExpired(rows[c], now)
    /\ j.command.state_revision = rows[c].state_revision + 1

\* Every step plans releases in that way only.
LEMMA NextPlanned ==
  ASSUME TypeOK, [Next]_vars
  PROVE  /\ now' \in Nat /\ now <= now'
         /\ \A c \in Command : ReleasePlanned(c)
  <1>1. ASSUME NEW d \in Command, Sweep(d)
        PROVE  \A c \in Command : ReleasePlanned(c)
    <2> DEFINE s == RecoveryState(rows[d])
    <2>1. /\ rows[d] \in ExecutionCommand /\ now \in Nat /\ IsStale(rows[d], now)
          /\ Plan(d, Transition(rows[d], s), rows[d].state)
      BY <1>1 DEF Sweep, TypeOK
    <2>2. s \in {"READY", "UNKNOWN"} /\ s \in CommandState
      BY <2>1, RecoveryFacts, CommandStateNames
    <2>3. /\ Transition(rows[d], s).state = s
          /\ Transition(rows[d], s).state_revision = rows[d].state_revision + 1
      BY <2>1, <2>2, TransitionFacts
    <2>4. s = "READY" => rows[d].state = "CLAIMED" /\ LeaseExpired(rows[d], now)
      BY <2>1, RecoveryFacts DEF IsStale
    <2> HIDE DEF s
    <2>5. rows' = rows /\ \A j \in jobs'[d] \ jobs[d] : j.command = Transition(rows[d], s)
      BY <2>1 DEF Plan, TypeOK
    <2>6. \A c \in Command \ {d} : jobs'[c] = jobs[c]
      BY <2>1 DEF Plan, TypeOK
    <2>7. QED
      BY <2>3, <2>4, <2>5, <2>6 DEF ReleasePlanned
  <1>2. ASSUME NEW d \in Command, Reconcile(d)
        PROVE  \A c \in Command : ReleasePlanned(c)
    <2>1. PICK found \in Findable(order[d]) :
            \E s \in ResolvedState(rows[d], found, order[d].status = "live", order[d].filled) :
              Plan(d, Transition(rows[d], s), "UNKNOWN")
      BY <1>2 DEF Reconcile
    <2>2. PICK s \in ResolvedState(rows[d], found, order[d].status = "live", order[d].filled) :
              Plan(d, Transition(rows[d], s), "UNKNOWN")
      BY <2>1
    <2>3. rows[d] \in ExecutionCommand
      BY DEF TypeOK
    <2>4. s \in {"FILLED", "PARTIAL_FILL", "CANCELLED", "REJECTED"}
      BY <2>3, <2>2, ResolvedFacts
    <2>5. s \in CommandState /\ s # "READY"
      BY <2>4, CommandStateNames
    <2>6. Transition(rows[d], s).state # "READY"
      BY <2>3, <2>5, TransitionFacts
    <2>7. /\ \A j \in jobs'[d] \ jobs[d] : j.command = Transition(rows[d], s)
          /\ \A c \in Command \ {d} : jobs'[c] = jobs[c]
      BY <2>2 DEF Plan, TypeOK
    <2>8. QED
      BY <2>6, <2>7 DEF ReleasePlanned
  <1>3. ASSUME NEW d \in Command, SaveRecovery(d) \/ LoseRecovery(d)
        PROVE  \A c \in Command : ReleasePlanned(c)
    BY <1>3 DEF SaveRecovery, LoseRecovery, ReleasePlanned, TypeOK
  <1>4. ASSUME UNCHANGED jobs
        PROVE  \A c \in Command : ReleasePlanned(c)
    BY <1>4 DEF ReleasePlanned
  <1>5. now' \in Nat /\ now <= now'
    <2>1. now' = now \/ now' = now + 1
      BY DEF Next, LockStep, AcquireLock, LoseSession, ClaimNext, DispatchStep,
             DispatchStart, AlreadyClosed, DispatchDropped, RevalidationRejected,
             ExpiredBeforeSend, ConfirmSend, SendStep, SaveDispatch, StartRequest, OrderSend,
             SaveResponse, LoseResponse, Crash, Restart, Sweep, Reconcile, Plan,
             SaveRecovery, LoseRecovery, BrokerFill, BrokerClose, EndSession, Tick, vars
    <2>2. QED
      BY <2>1 DEF TypeOK
  <1>6. \/ \E d \in Command : Sweep(d) \/ Reconcile(d) \/ SaveRecovery(d) \/ LoseRecovery(d)
        \/ UNCHANGED jobs
    BY DEF Next, LockStep, AcquireLock, LoseSession, ClaimNext, DispatchStep, DispatchStart,
           AlreadyClosed, DispatchDropped, RevalidationRejected, ExpiredBeforeSend,
           ConfirmSend, SendStep, SaveDispatch, StartRequest, OrderSend, SaveResponse,
           LoseResponse, Crash, Restart, BrokerFill, BrokerClose, EndSession, Tick, vars
  <1>7. QED
    BY <1>1, <1>2, <1>3, <1>4, <1>5, <1>6

\* A later clock finds the lease over, too.
LEMMA LeaseStaysExpired ==
  ASSUME NEW cmd \in ExecutionCommand, NEW t \in Nat, NEW u \in Nat, t <= u,
         LeaseExpired(cmd, t)
  PROVE  LeaseExpired(cmd, u)
  BY DEF LeaseExpired, ExecutionCommand, TimeOrNull, Time, NoTime

\* Every step keeps planned releases current.
LEMMA NextReleases ==
  ASSUME TypeOK, SendOwnership, ReleasesCurrent, [Next]_vars
  PROVE  ReleasesCurrent'
  <1> SUFFICES ASSUME NEW c \in Command, NEW j \in jobs'[c], j.command.state = "READY"
               PROVE  /\ rows'[c].state = "READY" =>
                           j.command.state_revision <= rows'[c].state_revision
                      /\ rows'[c].state = "CLAIMED" =>
                           \/ j.command.state_revision < rows'[c].state_revision
                           \/ /\ j.command.state_revision = rows'[c].state_revision + 1
                              /\ LeaseExpired(rows'[c], now')
    BY DEF ReleasesCurrent
  <1>1. /\ rows[c] \in ExecutionCommand /\ now \in Nat
        /\ \A i \in jobs[c] : i.command \in ExecutionCommand
    BY DEF TypeOK, Job
  <1>2. now' \in Nat /\ now <= now' /\ ReleasePlanned(c)
    BY NextPlanned
  <1>3. LeaseExpired(rows[c], now) => LeaseExpired(rows[c], now')
    BY <1>1, <1>2, LeaseStaysExpired
  <1>4. CASE j \notin jobs[c]
    <2>1. /\ rows' = rows /\ rows[c].state = "CLAIMED" /\ LeaseExpired(rows[c], now)
          /\ j.command.state_revision = rows[c].state_revision + 1
      BY <1>2, <1>4 DEF ReleasePlanned
    <2>2. QED
      BY <1>3, <2>1
  <1>5. CASE j \in jobs[c]
    <2>0. /\ j.command.state_revision \in Nat /\ rows[c].state_revision \in Nat
      BY <1>1, <1>5 DEF ExecutionCommand
    <2>1. CASE rows'[c] = rows[c]
      BY <1>3, <1>5, <2>1 DEF ReleasesCurrent
    <2>2. CASE rows'[c].state \notin Unsubmitted
      BY <2>2 DEF Unsubmitted
    <2>3. CASE /\ rows[c].state = "READY" /\ rows'[c].state = "CLAIMED"
               /\ rows'[c].state_revision = rows[c].state_revision + 1
      BY <1>5, <2>0, <2>3 DEF ReleasesCurrent
    <2>4. ASSUME NEW i \in jobs[c], i.command.state = "READY", rows'[c] = i.command,
                 rows[c].state = "CLAIMED",
                 rows[c].state_revision <= i.command.state_revision
          PROVE  rows'[c].state = "READY"
                   /\ j.command.state_revision <= rows'[c].state_revision
      <3>1. i.command.state_revision \in Nat
        BY <1>1 DEF ExecutionCommand
      <3>2. i.command.state_revision = rows[c].state_revision + 1
        BY <2>0, <2>4, <3>1 DEF ReleasesCurrent
      <3>3. j.command.state_revision <= rows[c].state_revision + 1
        BY <1>5, <2>0, <2>4 DEF ReleasesCurrent
      <3>4. QED
        BY <2>4, <3>2, <3>3
    <2>5. QED
      BY <2>1, <2>2, <2>3, <2>4, NextReleased DEF RowReleased
  <1>6. QED
    BY <1>4, <1>5

\* A claim in force is never released: a sweep that decided on an older claim
\* finds a newer revision in the row.
THEOREM ReleasedAfterLease == Spec => LeaseRespected
  <1>1. Init => ReleasesCurrent
    BY DEF Init, ReleasesCurrent
  <1>2. TypeOK /\ SendOwnership /\ ReleasesCurrent /\ [Next]_vars => ReleasesCurrent'
    BY NextReleases
  <1>3. ASSUME TypeOK, SendOwnership, ReleasesCurrent, [Next]_vars, NEW c \in Command,
               rows[c].state = "CLAIMED", rows'[c].state = "READY"
        PROVE  LeaseExpired(rows[c], now)
    <2>1. PICK j \in jobs[c] : /\ j.command.state = "READY"
                               /\ rows[c].state_revision <= j.command.state_revision
      BY <1>3, NextReleased DEF RowReleased, Unsubmitted
    <2>2. rows[c].state_revision \in Nat /\ j.command.state_revision \in Nat
      BY <1>3 DEF TypeOK, Job, ExecutionCommand
    <2>3. QED
      BY <1>3, <2>1, <2>2 DEF ReleasesCurrent
  <1>4. TypeOK /\ SendOwnership /\ ReleasesCurrent /\ [Next]_vars =>
          [\A c \in Command :
             rows[c].state = "CLAIMED" /\ rows'[c].state = "READY" =>
               LeaseExpired(rows[c], now)]_vars
    BY <1>3
  <1>5. QED
    BY <1>1, <1>2, <1>4, TypeCorrect, SentUnderItsClaim, PTL DEF Spec, LeaseRespected

-----------------------------------------------------------------------------
(* BrokerAgrees.  BrokerInv is the inductive invariant: it follows the     *)
(* quantity of a command through its copies, keeps the sweep away from a   *)
(* row whose worker may still call, and says of every planned save that    *)
(* nothing the broker does can make it untrue.                             *)

\* No copy of a command is of nothing.
Sized ==
  /\ \A c \in Command : rows[c].quantity > 0
  /\ \A w \in Worker : \A e \in queue[w] : e.command.quantity > 0
  /\ \A w \in Worker : pc[w] \notin {"down", "idle"} => work[w].command.quantity > 0

\* A worker on its way to order_send is within SendBound of its decision.
PromptSends ==
  \A w \in Worker :
    pc[w] \in {"decided", "submitting", "requested"} /\ work[w].command.state = "SUBMITTING" =>
      /\ work[w].command.submitting_at \in Nat
      /\ now <= work[w].command.submitting_at + SendBound

\* Until it calls, the row is its copy.
Calling(w) == pc[w] \in {"submitting", "requested"}
HeldRows == \A w \in Worker : Calling(w) => rows[work[w].id] = work[w].command

\* An order has its quantity, fills up to it and is live until it has it all.
OrdersShaped ==
  \A c \in Command :
    /\ order[c].sends = 0 => order[c].status = "none"
    /\ order[c].status \in {"none", "refused"} => order[c].filled = 0
    /\ order[c].status # "none" => order[c].quantity > 0
    /\ order[c].status = "live" => order[c].filled < order[c].quantity
    /\ order[c].status = "done" => order[c].filled <= order[c].quantity

\* The order is of the quantity the caller asked for.
SentAgrees ==
  \A w \in Worker : pc[w] = "sent" =>
    /\ order[work[w].id].status # "none"
    /\ order[work[w].id].quantity = work[w].command.quantity

\* A resolution that stays true whatever the broker does with the order.
Resolves(cmd, o) ==
  /\ cmd.state \in {"REJECTED", "CANCELLED", "FILLED", "PARTIAL_FILL"}
  /\ cmd.state = "REJECTED" => o.status \in {"none", "refused"}
  /\ cmd.state = "CANCELLED" => o.status # "live" /\ o.filled = 0
  /\ cmd.state = "FILLED" => o.status = "done" /\ o.filled = cmd.quantity
  /\ cmd.state = "PARTIAL_FILL" => o.filled > 0

\* A planned save of a submitted row was decided when nobody was about to call.
JobAgrees(c, cmd, expected) ==
  /\ cmd.quantity > 0
  /\ expected \in {"SUBMITTING", "UNKNOWN"} =>
       /\ rows[c].state \notin Unsubmitted
       /\ \A w \in Worker : Calling(w) => work[w].id # c
       /\ order[c].status # "none" => cmd.quantity = order[c].quantity
  /\ expected = "CLAIMED" => cmd.state \in {"READY", "UNKNOWN"}
  /\ expected = "SUBMITTING" => cmd.state = "UNKNOWN"
  /\ expected = "UNKNOWN" => Resolves(cmd, order[c])
JobsAgree == \A c \in Command : \A j \in jobs[c] : JobAgrees(c, j.command, j.expected)

\* The inductive form of BrokerAgrees.
BrokerInv ==
  /\ Sized /\ PromptSends /\ HeldRows
  /\ OrdersShaped /\ SentAgrees /\ JobsAgree /\ BrokerAgrees

\* After intake nothing is at the broker.
LEMMA InitBroker == Init => BrokerInv
  <1> SUFFICES ASSUME Init PROVE BrokerInv
    OBVIOUS
  <1>1. Sized /\ PromptSends /\ HeldRows /\ SentAgrees /\ JobsAgree
    BY WorkersAssumption DEF Init, ReadyRow, Sized, PromptSends, HeldRows, Calling,
                             SentAgrees, JobsAgree
  <1>2. OrdersShaped /\ BrokerAgrees
    BY DEF Init, ReadyRow, NoOrder, OrdersShaped, BrokerAgrees
  <1>3. QED
    BY <1>1, <1>2 DEF BrokerInv

\* The marks keep the quantity.
LEMMA QuantityFacts ==
  ASSUME NEW cmd \in ExecutionCommand, NEW t \in Nat, NEW w \in Worker
  PROVE  /\ MarkClaimed(cmd, w, t).quantity = cmd.quantity
         /\ MarkSubmitting(cmd, t).quantity = cmd.quantity
         /\ MarkBrokerRequestStarted(cmd, t).quantity = cmd.quantity
  <1>1. {"CLAIMED", "SUBMITTING"} \subseteq CommandState
    BY CommandStateNames
  <1>2. /\ Transition(cmd, "CLAIMED") \in ExecutionCommand
        /\ Transition(cmd, "CLAIMED").quantity = cmd.quantity
        /\ Transition(cmd, "SUBMITTING") \in ExecutionCommand
        /\ Transition(cmd, "SUBMITTING").quantity = cmd.quantity
    BY <1>1, TransitionFacts
  <1>3. QED
    BY <1>2 DEF MarkClaimed, MarkSubmitting, MarkBrokerRequestStarted, ExecutionCommand

\* A fresh select never finds a position of nothing.
LEMMA AdjustedSized ==
  ASSUME NEW w \in Worker, work[w] \in Work, work[w].command.quantity > 0,
         NEW position \in Positions
  PROVE  Adjusted(w, position).quantity > 0
  <1>1. position \in Nat /\ position > 0
    BY WorkersAssumption DEF Positions
  <1>2. work[w].command \in ExecutionCommand
    BY DEF Work
  <1>3. Adjusted(w, position).quantity =
          FreshQuantity(work[w].id, work[w].command.quantity, position)
    BY <1>2 DEF Adjusted, ExecutionCommand
  <1>4. QED
    BY <1>1, <1>3 DEF FreshQuantity

\* A worker moves and calls nobody.
LEMMA MoveBroker ==
  ASSUME TypeOK, BrokerInv, NEW w \in Worker, UNCHANGED <<now, rows, order, jobs>>,
         \A v \in Worker : queue'[v] \subseteq queue[v],
         \A v \in Worker \ {w} : pc'[v] = pc[v] /\ work'[v] = work[v],
         \/ pc'[w] \in {"idle", "down"}
         \/ /\ pc'[w] \in {"selected", "decided"}
            /\ work'[w].command.quantity > 0
            /\ pc'[w] = "decided" /\ work'[w].command.state = "SUBMITTING" =>
                 work'[w].command.submitting_at = now
  PROVE  BrokerInv'
  <1> USE DEF BrokerInv
  <1>1. Sized'
    BY DEF Sized
  <1>2. PromptSends'
    <2>1. now \in Nat /\ now <= now + SendBound
      BY WorkersAssumption DEF TypeOK
    <2>2. QED
      BY <2>1 DEF PromptSends
  <1>3. HeldRows' /\ SentAgrees'
    BY DEF HeldRows, SentAgrees, Calling
  <1>4. OrdersShaped' /\ BrokerAgrees'
    BY DEF OrdersShaped, BrokerAgrees
  <1>5. JobsAgree'
    BY DEF JobsAgree, JobAgrees, Resolves, Calling
  <1>6. QED
    BY <1>1, <1>2, <1>3, <1>4, <1>5

\* A claim is of a row nobody calls for.
LEMMA ClaimBroker ==
  ASSUME TypeOK, SendOwnership, BrokerInv, NEW w \in Worker, NEW c \in Command, ClaimNext(w, c)
  PROVE  BrokerInv'
  <1> USE DEF BrokerInv
  <1> DEFINE claimed == MarkClaimed(rows[c], w, now)
  <1>1. /\ claimed \in ExecutionCommand /\ claimed.state = "CLAIMED"
        /\ claimed.quantity = rows[c].quantity
    BY MarkClaimedFacts, QuantityFacts DEF TypeOK
  <1>2. /\ Save(c, claimed) /\ Enqueue(w, c, claimed) /\ rows[c].state = "READY"
        /\ UNCHANGED <<now, order, pc, work, jobs>>
    BY DEF ClaimNext
  <1>3. rows'[c] = claimed /\ \A d \in Command \ {c} : rows'[d] = rows[d]
    BY <1>1, <1>2, SaveType
  <1> HIDE DEF claimed
  <1>4. Sized'
    <2>1. CASE UNCHANGED queue
      BY <1>1, <1>2, <1>3, <2>1 DEF Sized
    <2>2. CASE queue' = [queue EXCEPT ![w] =
                 @ \cup {[id |-> c, command |-> claimed, sequence |-> sequence[w]]}]
      BY <1>1, <1>2, <1>3, <2>2 DEF Sized, TypeOK
    <2>3. QED
      BY <1>2, <2>1, <2>2 DEF Enqueue
  <1>5. PromptSends' /\ OrdersShaped' /\ SentAgrees'
    BY <1>2 DEF PromptSends, OrdersShaped, SentAgrees
  <1>6. HeldRows'
    <2>1. \A v \in Worker : Calling(v) => work[v].id \in Command \ {c}
      BY <1>2 DEF Calling, TypeOK, Work, SendOwnership, SubmissionOwned, Submitting, Unsubmitted
    <2>2. QED
      BY <1>2, <1>3, <2>1 DEF HeldRows, Calling
  <1>7. JobsAgree'
    BY <1>2, <1>3 DEF JobsAgree, JobAgrees, Resolves, Calling, Unsubmitted
  <1>8. BrokerAgrees'
    BY <1>1, <1>2, <1>3 DEF BrokerAgrees
  <1>9. QED
    BY <1>4, <1>5, <1>6, <1>7, <1>8

\* Dispatch carries the copy of the queue on, the decision to send at its time.
LEMMA DispatchBroker ==
  ASSUME TypeOK, SendOwnership, BrokerInv, NEW w \in Worker, DispatchStep(w)
  PROVE  BrokerInv'
  <1> USE DEF BrokerInv
  <1>1. ASSUME NEW c \in Command, NEW cmd \in ExecutionCommand,
               NEW next \in {"selected", "decided"},
               Continue(w, next, c, cmd), cmd.quantity > 0,
               next = "decided" /\ cmd.state = "SUBMITTING" => cmd.submitting_at = now,
               \A v \in Worker : queue'[v] \subseteq queue[v],
               UNCHANGED <<now, rows, order, jobs>>
        PROVE  BrokerInv'
    <2>1. next \in PC
      BY DEF PC
    <2>2. /\ pc'[w] = next /\ work'[w].command = cmd
          /\ \A v \in Worker \ {w} : pc'[v] = pc[v] /\ work'[v] = work[v]
      BY <1>1, <2>1, ContinueType
    <2>3. QED
      BY <1>1, <2>2, MoveBroker
  <1>2. CASE DispatchStart(w)
    <2>1. PICK e \in Chosen(queue[w], requests[w], now) :
            /\ TakeFromQueue(w, e)
            /\ \/ Continue(w, "decided", e.id, Transition(e.command, "EXPIRED"))
               \/ UNCHANGED <<pc, work>>
               \/ Continue(w, "selected", e.id, e.command)
      BY <1>2 DEF DispatchStart
    <2>2. UNCHANGED <<now, rows, order, jobs>> /\ pc[w] = "idle"
      BY <1>2 DEF DispatchStart
    <2>3. e \in queue[w] /\ e.id \in Command /\ e.command \in ExecutionCommand
      BY DEF Chosen, TypeOK, QueuedCommand
    <2>4. e.command.quantity > 0
      BY <2>3 DEF Sized
    <2>5. /\ Transition(e.command, "EXPIRED") \in ExecutionCommand
          /\ Transition(e.command, "EXPIRED").state = "EXPIRED"
          /\ Transition(e.command, "EXPIRED").quantity = e.command.quantity
      BY <2>3, TransitionFacts, CommandStateNames
    <2>6. \A v \in Worker : queue'[v] \subseteq queue[v]
      BY <2>1 DEF TakeFromQueue, TypeOK
    <2>7. CASE UNCHANGED <<pc, work>>
      BY <2>2, <2>6, <2>7, MoveBroker
    <2>8. QED
      BY <1>1, <2>1, <2>2, <2>3, <2>4, <2>5, <2>6, <2>7
  <1>3. CASE DispatchDropped(w)
    <2>1. UNCHANGED <<now, rows, order, queue, jobs>> /\ BackToIdle(w)
      BY <1>3 DEF DispatchDropped, queueVars
    <2>2. QED
      BY <2>1, BackToIdleType, MoveBroker
  <1>4. ASSUME pc[w] = "selected"
        PROVE  /\ work[w].id \in Command /\ work[w].command \in ExecutionCommand /\ now \in Nat
               /\ work[w] \in Work /\ work[w].command.quantity > 0
    BY <1>4 DEF TypeOK, Work, Sized
  <1>5. ASSUME NEW cmd \in ExecutionCommand, cmd.quantity > 0, NEW s \in {"CANCELLED", "EXPIRED"},
               pc[w] = "selected", Continue(w, "decided", work[w].id, Transition(cmd, s)),
               UNCHANGED <<now, rows, order, queue, jobs>>
        PROVE  BrokerInv'
    <2>1. s \in CommandState
      BY CommandStateNames
    <2>2. /\ Transition(cmd, s) \in ExecutionCommand /\ Transition(cmd, s).state = s
          /\ Transition(cmd, s).quantity = cmd.quantity
      BY <2>1, TransitionFacts
    <2>3. QED
      BY <1>1, <1>4, <1>5, <2>2
  <1>6. CASE AlreadyClosed(w)
    BY <1>4, <1>5, <1>6 DEF AlreadyClosed, queueVars
  <1>7. ASSUME NEW position \in Positions,
               RevalidationRejected(w, position) \/ ExpiredBeforeSend(w, position)
        PROVE  BrokerInv'
    <2>1. Adjusted(w, position) \in ExecutionCommand /\ Adjusted(w, position).quantity > 0
      BY <1>4, <1>7, AdjustedFacts, AdjustedSized DEF RevalidationRejected, ExpiredBeforeSend
    <2>2. QED
      BY <1>5, <1>7, <2>1 DEF RevalidationRejected, ExpiredBeforeSend, queueVars
  <1>8. ASSUME NEW position \in Positions, ConfirmSend(w, position)
        PROVE  BrokerInv'
    <2> DEFINE sent == MarkSubmitting(Adjusted(w, position), now)
    <2>1. /\ pc[w] = "selected" /\ Continue(w, "decided", work[w].id, sent)
          /\ UNCHANGED <<now, rows, order, queue, jobs>>
      BY <1>8 DEF ConfirmSend
    <2>2. Adjusted(w, position) \in ExecutionCommand /\ Adjusted(w, position).quantity > 0
      BY <1>4, <2>1, AdjustedFacts, AdjustedSized
    <2>3. sent \in ExecutionCommand /\ sent.submitting_at = now /\ sent.quantity > 0
      BY <1>4, <2>1, <2>2, MarkSubmittingFacts, QuantityFacts
    <2> HIDE DEF sent
    <2>4. QED
      BY <1>1, <1>4, <2>1, <2>3
  <1>9. QED
    BY <1>2, <1>3, <1>6, <1>7, <1>8 DEF DispatchStep

\* save_state(expected CLAIMED): what leaves CLAIMED was not sent yet.
LEMMA SaveDispatchBroker ==
  ASSUME TypeOK, SendOwnership, BrokerInv, NEW w \in Worker, SaveDispatch(w)
  PROVE  BrokerInv'
  <1> USE DEF BrokerInv
  <1> DEFINE c == work[w].id
             cmd == work[w].command
  <1>1. /\ pc[w] = "decided" /\ c \in Command /\ cmd \in ExecutionCommand
        /\ cmd.quantity > 0 /\ cmd.claimed_by = w
        /\ cmd.state \in {"SUBMITTING", "CANCELLED", "EXPIRED"}
    BY DEF SaveDispatch, TypeOK, Work, Sized, SendOwnership, WorkOwned
  <1>2. UNCHANGED <<now, order, queue, jobs>>
    BY DEF SaveDispatch, queueVars
  <1>3. CASE BackToIdle(w) /\ UNCHANGED rows
    BY <1>2, <1>3, BackToIdleType, MoveBroker
  <1>4. CASE /\ CanSave(c, cmd, "CLAIMED") /\ Save(c, cmd)
             /\ IF cmd.state = "SUBMITTING"
                THEN Continue(w, "submitting", c, cmd)
                ELSE BackToIdle(w)
    <2>1. rows'[c] = cmd /\ \A d \in Command \ {c} : rows'[d] = rows[d]
      BY <1>1, <1>4, SaveType
    <2>2. rows[c].state = "CLAIMED" /\ order[c].status = "none" /\ order[c].filled = 0
      BY <1>1, <1>4 DEF CanSave, SaveMatches, BrokerAgrees, OrdersShaped
    <2>3. /\ \A v \in Worker \ {w} : pc'[v] = pc[v] /\ work'[v] = work[v]
          /\ \/ pc'[w] = "idle"
             \/ /\ pc'[w] = "submitting" /\ work'[w].id = c /\ work'[w].command = cmd
                /\ cmd.state = "SUBMITTING"
      <3>1. "submitting" \in PC
        BY DEF PC
      <3>2. CASE cmd.state = "SUBMITTING"
        BY <1>1, <1>4, <3>1, <3>2, ContinueType
      <3>3. CASE cmd.state # "SUBMITTING"
        BY <1>4, <3>3, BackToIdleType
      <3>4. QED
        BY <3>2, <3>3
    <2>4. \A v \in Worker \ {w} : Calling(v) => work[v].id \in Command \ {c}
      BY <1>1, <2>2
      DEF Calling, TypeOK, Work, SendOwnership, SubmissionOwned, Submitting, Unsubmitted
    <2>5. cmd.state = "SUBMITTING" =>
            cmd.submitting_at \in Nat /\ now <= cmd.submitting_at + SendBound
      BY <1>1 DEF PromptSends
    <2> HIDE DEF c, cmd
    <2>6. Sized'
      BY <1>1, <1>2, <2>1, <2>3 DEF Sized
    <2>7. PromptSends'
      BY <1>2, <2>3, <2>5 DEF PromptSends
    <2>8. HeldRows'
      BY <1>1, <2>1, <2>3, <2>4 DEF HeldRows, Calling
    <2>9. OrdersShaped' /\ SentAgrees'
      BY <1>2, <2>3 DEF OrdersShaped, SentAgrees
    <2>10. JobsAgree'
      <3>1. SUFFICES ASSUME NEW d \in Command, NEW j \in jobs[d]
                     PROVE  JobAgrees(d, j.command, j.expected)'
        BY <1>2 DEF JobsAgree
      <3>2. JobAgrees(d, j.command, j.expected)
        BY DEF JobsAgree
      <3>3. CASE d = c
        BY <1>1, <1>2, <2>2, <3>2, <3>3 DEF JobAgrees, Resolves, Unsubmitted
      <3>4. CASE d # c
        BY <1>2, <2>1, <2>3, <3>2, <3>4 DEF JobAgrees, Resolves, Calling
      <3>5. QED
        BY <3>3, <3>4
    <2>11. BrokerAgrees'
      BY <1>1, <1>2, <2>1, <2>2 DEF BrokerAgrees
    <2>12. QED
      BY <2>6, <2>7, <2>8, <2>9, <2>10, <2>11
  <1>5. QED
    BY <1>3, <1>4 DEF SaveDispatch

\* The record of the request: the row is the worker's copy already.
LEMMA StartRequestBroker ==
  ASSUME TypeOK, SendOwnership, BrokerInv, NEW w \in Worker, StartRequest(w)
  PROVE  BrokerInv'
  <1> USE DEF BrokerInv
  <1> DEFINE c == work[w].id
             cmd == MarkBrokerRequestStarted(work[w].command, now)
  <1>1. /\ pc[w] = "submitting" /\ c \in Command /\ work[w].command \in ExecutionCommand
        /\ work[w].command.quantity > 0 /\ work[w].command.state = "SUBMITTING"
        /\ rows[c] = work[w].command /\ now \in Nat
    BY DEF StartRequest, TypeOK, Work, Sized, HeldRows, Calling, SendOwnership, WorkOwned,
           Submitting
  <1>2. UNCHANGED <<now, order, queue, jobs>>
    BY DEF StartRequest, queueVars
  <1>3. /\ cmd \in ExecutionCommand /\ cmd.state = "SUBMITTING"
        /\ cmd.quantity = rows[c].quantity /\ cmd.submitting_at = rows[c].submitting_at
        /\ cmd.quantity > 0
    BY <1>1, MarkBrokerRequestStartedFacts, QuantityFacts
  <1>4. CASE BackToIdle(w) /\ UNCHANGED rows
    BY <1>2, <1>4, BackToIdleType, MoveBroker
  <1>5. CASE Save(c, cmd) /\ Continue(w, "requested", c, cmd)
    <2>1. rows'[c] = cmd /\ \A d \in Command \ {c} : rows'[d] = rows[d]
      BY <1>1, <1>3, <1>5, SaveType
    <2>2. /\ \A v \in Worker \ {w} : pc'[v] = pc[v] /\ work'[v] = work[v]
          /\ pc'[w] = "requested" /\ work'[w].id = c /\ work'[w].command = cmd
      <3>1. "requested" \in PC
        BY DEF PC
      <3>2. QED
        BY <1>1, <1>3, <1>5, <3>1, ContinueType
    <2>3. \A v \in Worker \ {w} : Calling(v) => work[v].id \in Command \ {c}
      BY <1>1 DEF Calling, TypeOK, Work, SendOwnership, SubmissionOwned, Submitting
    <2>4. cmd.submitting_at \in Nat /\ now <= cmd.submitting_at + SendBound
      BY <1>1, <1>3 DEF PromptSends
    <2>5. Calling(w) /\ rows[c].state = "SUBMITTING"
      BY <1>1 DEF Calling
    <2> HIDE DEF c, cmd
    <2>6. Sized'
      BY <1>2, <1>3, <2>1, <2>2 DEF Sized
    <2>7. PromptSends'
      BY <1>2, <2>2, <2>4 DEF PromptSends
    <2>8. HeldRows'
      BY <2>1, <2>2, <2>3 DEF HeldRows, Calling
    <2>9. OrdersShaped' /\ SentAgrees'
      BY <1>2, <2>2 DEF OrdersShaped, SentAgrees
    <2>10. JobsAgree'
      <3>1. SUFFICES ASSUME NEW d \in Command, NEW j \in jobs[d]
                     PROVE  JobAgrees(d, j.command, j.expected)'
        BY <1>2 DEF JobsAgree
      <3>2. JobAgrees(d, j.command, j.expected)
        BY DEF JobsAgree
      <3>3. CASE d = c
        <4>1. j.expected \notin {"SUBMITTING", "UNKNOWN"}
          BY <2>5, <3>2, <3>3 DEF JobAgrees, c
        <4>2. QED
          BY <1>2, <3>2, <4>1 DEF JobAgrees
      <3>4. CASE d # c
        BY <1>2, <2>1, <2>2, <3>2, <3>4 DEF JobAgrees, Resolves, Calling
      <3>5. QED
        BY <3>3, <3>4
    <2>11. BrokerAgrees'
      BY <1>2, <1>3, <2>1, <2>5 DEF BrokerAgrees
    <2>12. QED
      BY <2>6, <2>7, <2>8, <2>9, <2>10, <2>11
  <1>6. QED
    BY <1>4, <1>5 DEF StartRequest

\* order_send: nobody else works on the command.
LEMMA OrderSendBroker ==
  ASSUME TypeOK, SendOwnership, BrokerInv, NEW w \in Worker,
         NEW status \in {"live", "refused"}, OrderSend(w, status)
  PROVE  BrokerInv'
  <1> USE DEF BrokerInv
  <1> DEFINE c == work[w].id
             sent == [status |-> status, quantity |-> work[w].command.quantity,
                      filled |-> 0, sends |-> order[c].sends + 1]
  <1>1. /\ pc[w] = "requested" /\ c \in Command /\ work[w].command \in ExecutionCommand
        /\ work[w].command.quantity > 0 /\ work[w].command.state = "SUBMITTING"
        /\ rows[c] = work[w].command /\ Calling(w)
        /\ order[c].sends = 0
    BY DEF OrderSend, TypeOK, Work, Sized, HeldRows, Calling, SendOwnership, WorkOwned,
           Submitting, UnsentUntilSent
  <1>2. UNCHANGED <<now, rows, work, queue, jobs>>
    BY DEF OrderSend, queueVars
  <1>3. order'[c] = sent /\ \A d \in Command \ {c} : order'[d] = order[d]
    BY <1>1 DEF OrderSend, TypeOK
  <1>4. pc'[w] = "sent" /\ \A v \in Worker \ {w} : pc'[v] = pc[v]
    BY DEF OrderSend, TypeOK
  <1>5. \A v \in Worker \ {w} : pc[v] = "sent" => work[v].id \in Command \ {c}
    BY <1>1 DEF TypeOK, Work, SendOwnership, SubmissionOwned, Submitting
  <1>6. sent.status \in {"live", "refused"} /\ sent.filled = 0 /\ sent.sends = 1
          /\ sent.quantity = rows[c].quantity /\ sent.quantity > 0
    BY <1>1
  <1>7. \A j \in jobs[c] : j.expected \notin {"SUBMITTING", "UNKNOWN"}
    BY <1>1 DEF JobsAgree, JobAgrees
  <1>8. work[w].command.quantity = rows[c].quantity /\ rows[c].state = "SUBMITTING"
    BY <1>1
  <1> HIDE DEF sent
  <1>9. Sized' /\ PromptSends' /\ HeldRows'
    BY <1>1, <1>2, <1>4 DEF Sized, PromptSends, HeldRows, Calling
  <1>10. OrdersShaped'
    BY <1>3, <1>6 DEF OrdersShaped
  <1>11. SentAgrees'
    <2>1. ASSUME NEW v \in Worker, pc'[v] = "sent"
          PROVE  /\ order'[work[v].id].status # "none"
                 /\ order'[work[v].id].quantity = work[v].command.quantity
      <3>1. CASE v = w
        BY <1>3, <1>6, <1>8, <3>1
      <3>2. CASE v # w
        BY <1>3, <1>4, <1>5, <2>1, <3>2 DEF SentAgrees
      <3>3. QED
        BY <3>1, <3>2
    <2>2. QED
      BY <1>2, <2>1 DEF SentAgrees
  <1>12. JobsAgree'
    <2>1. SUFFICES ASSUME NEW d \in Command, NEW j \in jobs[d]
                   PROVE  JobAgrees(d, j.command, j.expected)'
      BY <1>2 DEF JobsAgree
    <2>2. JobAgrees(d, j.command, j.expected)
      BY DEF JobsAgree
    <2>3. CASE d = c
      BY <1>7, <2>2, <2>3 DEF JobAgrees
    <2>4. CASE d # c
      BY <1>2, <1>3, <1>4, <2>2, <2>4 DEF JobAgrees, Resolves, Calling
    <2>5. QED
      BY <2>3, <2>4
  <1>13. BrokerAgrees'
    BY <1>2, <1>3, <1>6, <1>8 DEF BrokerAgrees
  <1>14. QED
    BY <1>9, <1>10, <1>11, <1>12, <1>13

\* The answer saved is the order's state.
LEMMA SaveResponseBroker ==
  ASSUME TypeOK, SendOwnership, BrokerInv, NEW w \in Worker, SaveResponse(w)
  PROVE  BrokerInv'
  <1> USE DEF BrokerInv
  <1> DEFINE c == work[w].id
             cmd == work[w].command
  <1>1. /\ pc[w] = "sent" /\ c \in Command /\ cmd \in ExecutionCommand
        /\ cmd.quantity > 0 /\ cmd.claimed_by = w
        /\ order[c].status # "none" /\ order[c].quantity = cmd.quantity
        /\ order[c] \in BrokerOrder
    BY DEF SaveResponse, TypeOK, Work, Sized, SentAgrees, SendOwnership, WorkOwned
  <1>2. UNCHANGED <<now, order, queue, jobs>> /\ BackToIdle(w)
    BY DEF SaveResponse, queueVars
  <1>3. PICK s \in Responses(order[c]) :
          \/ CanSave(c, Transition(cmd, s), "SUBMITTING") /\ Save(c, Transition(cmd, s))
          \/ UNCHANGED rows
    BY DEF SaveResponse
  <1>4. CASE UNCHANGED rows
    BY <1>2, <1>4, BackToIdleType, MoveBroker
  <1>5. CASE CanSave(c, Transition(cmd, s), "SUBMITTING") /\ Save(c, Transition(cmd, s))
    <2>1. s \in {"ACKNOWLEDGED", "PARTIAL_FILL", "FILLED", "REJECTED"} /\ s \in CommandState
      BY ResponseStates, CommandStateNames
    <2> DEFINE saved == Transition(cmd, s)
    <2>2. /\ saved \in ExecutionCommand /\ saved.state = s
          /\ saved.quantity = cmd.quantity /\ saved.claimed_by = w
      BY <1>1, <2>1, TransitionFacts
    <2>3. /\ rows'[c] = saved /\ \A d \in Command \ {c} : rows'[d] = rows[d]
          /\ rows[c].state = "SUBMITTING" /\ rows[c].claimed_by = w
      BY <1>1, <1>5, <2>2, SaveType, NobodyAssumption DEF CanSave, SaveMatches
    <2>4. pc'[w] = "idle" /\ \A v \in Worker \ {w} : pc'[v] = pc[v] /\ work'[v] = work[v]
      BY <1>2, BackToIdleType
    <2>5. \A v \in Worker \ {w} : Calling(v) => work[v].id \in Command \ {c}
      BY <2>3 DEF Calling, TypeOK, Work, SendOwnership, SubmissionOwned, Submitting
    <2>6. /\ s = "REJECTED" => order[c].status = "refused"
          /\ s = "FILLED" => order[c].status = "done" /\ order[c].filled = cmd.quantity
          /\ s = "PARTIAL_FILL" => order[c].filled > 0
      <3>1. /\ s = "REJECTED" => order[c].status = "refused"
            /\ s = "FILLED" => order[c].filled = order[c].quantity
            /\ s = "PARTIAL_FILL" => order[c].filled > 0
        BY DEF Responses
      <3>2. /\ order[c].filled = order[c].quantity => order[c].status = "done"
        BY <1>1 DEF OrdersShaped, BrokerOrder
      <3>3. QED
        BY <1>1, <3>1, <3>2
    <2> HIDE DEF c, cmd, saved
    <2>7. Sized'
      BY <1>1, <1>2, <2>2, <2>3, <2>4 DEF Sized
    <2>8. PromptSends' /\ OrdersShaped' /\ SentAgrees'
      BY <1>2, <2>4 DEF PromptSends, OrdersShaped, SentAgrees
    <2>9. HeldRows'
      BY <2>3, <2>4, <2>5 DEF HeldRows, Calling
    <2>10. JobsAgree'
      BY <1>2, <2>1, <2>2, <2>3, <2>4 DEF JobsAgree, JobAgrees, Resolves, Calling, Unsubmitted
    <2>11. BrokerAgrees'
      BY <1>1, <1>2, <2>1, <2>2, <2>3, <2>6 DEF BrokerAgrees
    <2>12. QED
      BY <2>7, <2>8, <2>9, <2>10, <2>11
  <1>6. QED
    BY <1>3, <1>4, <1>5

\* A save is planned by a process that has seen the row and the order.
LEMMA PlanBroker ==
  ASSUME TypeOK, BrokerInv, NEW c \in Command, NEW cmd, NEW expected,
         Plan(c, cmd, expected), JobAgrees(c, cmd, expected)
  PROVE  BrokerInv'
  <1> USE DEF BrokerInv
  <1>1. UNCHANGED <<now, rows, order, pc, work, queue>>
    BY DEF Plan, queueVars
  <1>2. /\ \A d \in Command \ {c} : jobs'[d] = jobs[d]
        /\ \A j \in jobs'[c] \ jobs[c] : j.command = cmd /\ j.expected = expected
    BY DEF Plan, TypeOK
  <1>3. \A d, copy, state : JobAgrees(d, copy, state)' = JobAgrees(d, copy, state)
    BY <1>1 DEF JobAgrees, Resolves, Calling
  <1>4. JobsAgree'
    BY <1>2, <1>3 DEF JobsAgree
  <1>5. Sized' /\ PromptSends' /\ HeldRows' /\ OrdersShaped' /\ SentAgrees' /\ BrokerAgrees'
    BY <1>1 DEF Sized, PromptSends, HeldRows, Calling, OrdersShaped, SentAgrees, BrokerAgrees
  <1>6. QED
    BY <1>4, <1>5

\* The sweep: a submission whose worker may still call is not stale.
LEMMA SweepBroker ==
  ASSUME SendBound < SubmittingTimeout, TypeOK, SendOwnership, BrokerInv,
         NEW c \in Command, Sweep(c)
  PROVE  BrokerInv'
  <1> USE DEF BrokerInv
  <1> DEFINE s == RecoveryState(rows[c])
             cmd == Transition(rows[c], s)
  <1>1. /\ IsStale(rows[c], now) /\ Plan(c, cmd, rows[c].state)
        /\ rows[c] \in ExecutionCommand /\ now \in Nat /\ rows[c].quantity > 0
    BY DEF Sweep, TypeOK, Sized
  <1>2. /\ s \in {"READY", "UNKNOWN"} /\ rows[c].state \in {"CLAIMED", "SUBMITTING"}
        /\ s = "READY" => rows[c].state = "CLAIMED"
    BY <1>1, RecoveryFacts
  <1>3. s \in CommandState
    BY <1>2, CommandStateNames
  <1> HIDE DEF s
  <1>4. cmd.state = s /\ cmd.quantity = rows[c].quantity
    BY <1>1, <1>3, TransitionFacts
  <1> HIDE DEF cmd
  <1>5. ASSUME NEW w \in Worker, Calling(w), work[w].id = c
        PROVE  rows[c].state # "SUBMITTING"
    <2>1. rows[c] = work[w].command /\ work[w].command.state = "SUBMITTING"
      BY <1>5 DEF HeldRows, Calling, SendOwnership, WorkOwned, Submitting
    <2>2. rows[c].submitting_at \in Nat /\ now <= rows[c].submitting_at + SendBound
      BY <1>5, <2>1 DEF PromptSends, Calling
    <2>3. ~SubmissionStale(rows[c], now)
      BY <1>1, <2>2, WorkersAssumption, TimeoutAssumption
      DEF SubmissionStale, SubmissionStart, NoTime
    <2>4. QED
      BY <1>1, <2>1, <2>3 DEF IsStale
  <1>6. JobAgrees(c, cmd, rows[c].state)
    <2>1. CASE rows[c].state = "CLAIMED"
      BY <1>1, <1>2, <1>4, <2>1 DEF JobAgrees
    <2>2. CASE rows[c].state = "SUBMITTING"
      BY <1>1, <1>2, <1>4, <1>5, <2>2 DEF JobAgrees, Unsubmitted, BrokerAgrees
    <2>3. QED
      BY <1>2, <2>1, <2>2
  <1>7. QED
    BY <1>1, <1>6, PlanBroker

\* Reconciliation resolves what the broker will not change any more.
LEMMA ReconcileBroker ==
  ASSUME TypeOK, SendOwnership, BrokerInv, NEW c \in Command, Reconcile(c)
  PROVE  BrokerInv'
  <1> USE DEF BrokerInv
  <1>1. /\ rows[c].state = "UNKNOWN" /\ rows[c] \in ExecutionCommand /\ rows[c].quantity > 0
        /\ rows[c].quantity \in Nat /\ order[c] \in BrokerOrder
    BY DEF Reconcile, TypeOK, Sized, ExecutionCommand
  <1>2. PICK found \in Findable(order[c]) :
          \E s \in ResolvedState(rows[c], found, order[c].status = "live", order[c].filled) :
            Plan(c, Transition(rows[c], s), "UNKNOWN")
    BY DEF Reconcile
  <1>3. PICK s \in ResolvedState(rows[c], found, order[c].status = "live", order[c].filled) :
            Plan(c, Transition(rows[c], s), "UNKNOWN")
    BY <1>2
  <1>4. s \in {"FILLED", "PARTIAL_FILL", "CANCELLED", "REJECTED"} /\ s \in CommandState
    BY <1>1, <1>3, ResolvedFacts, CommandStateNames
  <1> DEFINE cmd == Transition(rows[c], s)
  <1>5. cmd.state = s /\ cmd.quantity = rows[c].quantity
    BY <1>1, <1>4, TransitionFacts
  <1> HIDE DEF cmd
  <1>6. order[c].filled \in Nat /\ order[c].quantity \in Nat
        /\ order[c].status \in {"none", "refused", "live", "done"}
    BY <1>1 DEF BrokerOrder
  <1>7. /\ order[c].status # "none" => order[c].quantity = rows[c].quantity
        /\ order[c].status \in {"none", "refused"} => order[c].filled = 0
        /\ order[c].status = "live" => order[c].filled < order[c].quantity
        /\ order[c].status = "done" => order[c].filled <= order[c].quantity
    BY DEF BrokerAgrees, OrdersShaped
  <1>8. Resolves(cmd, order[c])
    <2>1. /\ s = "FILLED" => order[c].filled >= rows[c].quantity
          /\ s = "PARTIAL_FILL" => order[c].filled > 0
          /\ s = "CANCELLED" => order[c].filled <= 0 /\ order[c].status # "live"
          /\ s = "REJECTED" => ~found /\ order[c].filled <= 0 /\ order[c].status # "live"
      BY <1>1, <1>3, <1>6 DEF ResolvedState
    <2>2. ~found => order[c].status \in {"none", "refused"}
      BY <1>2 DEF Findable
    <2>3. QED
      BY <1>1, <1>4, <1>5, <1>6, <1>7, <2>1, <2>2 DEF Resolves
  <1>9. \A w \in Worker : Calling(w) => work[w].id # c
    BY <1>1 DEF HeldRows, Calling, SendOwnership, WorkOwned, Submitting
  <1>10. JobAgrees(c, cmd, "UNKNOWN")
    BY <1>1, <1>5, <1>7, <1>8, <1>9 DEF JobAgrees, Unsubmitted
  <1>11. QED
    BY <1>3, <1>10, PlanBroker DEF cmd

\* A planned save matches only the state it was planned on.
LEMMA SaveRecoveryBroker ==
  ASSUME TypeOK, SendOwnership, BrokerInv, NEW c \in Command, SaveRecovery(c)
  PROVE  BrokerInv'
  <1> USE DEF BrokerInv
  <1>1. UNCHANGED <<now, order, pc, work, queue>>
    BY DEF SaveRecovery, queueVars
  <1>2. PICK j \in jobs[c] : /\ jobs' = [jobs EXCEPT ![c] = @ \ {j}]
                             /\ \/ CanSave(c, j.command, j.expected) /\ Save(c, j.command)
                                \/ UNCHANGED rows
    BY DEF SaveRecovery
  <1>3. /\ j.command \in ExecutionCommand
        /\ j.expected \in {"CLAIMED", "SUBMITTING", "UNKNOWN"}
        /\ JobAgrees(c, j.command, j.expected)
    BY DEF TypeOK, Job, JobsAgree
  <1>4. \A d \in Command : jobs'[d] \subseteq jobs[d]
    BY <1>2 DEF TypeOK
  <1>5. PromptSends' /\ OrdersShaped' /\ SentAgrees'
    BY <1>1 DEF PromptSends, OrdersShaped, SentAgrees
  <1>6. CASE UNCHANGED rows
    <2>1. Sized' /\ HeldRows' /\ BrokerAgrees'
      BY <1>1, <1>6 DEF Sized, HeldRows, Calling, BrokerAgrees
    <2>2. JobsAgree'
      BY <1>1, <1>4, <1>6 DEF JobsAgree, JobAgrees, Resolves, Calling
    <2>3. QED
      BY <1>5, <2>1, <2>2
  <1>7. CASE CanSave(c, j.command, j.expected) /\ Save(c, j.command)
    <2>1. /\ rows'[c] = j.command /\ \A d \in Command \ {c} : rows'[d] = rows[d]
          /\ rows[c].state = j.expected
      BY <1>3, <1>7, SaveType DEF CanSave, SaveMatches
    <2>2. Sized'
      BY <1>1, <1>3, <2>1 DEF Sized, JobAgrees
    <2>3. \A w \in Worker : Calling(w) => work[w].id \in Command \ {c}
      <3>1. CASE j.expected = "CLAIMED"
        BY <2>1, <3>1
        DEF Calling, TypeOK, Work, SendOwnership, SubmissionOwned, Submitting, Unsubmitted
      <3>2. CASE j.expected # "CLAIMED"
        BY <1>3, <3>2 DEF JobAgrees, Calling, TypeOK, Work
      <3>3. QED
        BY <3>1, <3>2
    <2>4. HeldRows'
      BY <1>1, <2>1, <2>3 DEF HeldRows, Calling
    <2>5. BrokerAgrees'
      <3>1. CASE j.expected = "CLAIMED"
        BY <1>1, <1>3, <2>1, <3>1 DEF BrokerAgrees, JobAgrees
      <3>2. CASE j.expected = "SUBMITTING"
        BY <1>1, <1>3, <2>1, <3>2 DEF BrokerAgrees, JobAgrees
      <3>3. CASE j.expected = "UNKNOWN"
        BY <1>1, <1>3, <2>1, <3>3 DEF BrokerAgrees, JobAgrees, Resolves
      <3>4. QED
        BY <1>3, <3>1, <3>2, <3>3
    <2>6. JobsAgree'
      <3>1. SUFFICES ASSUME NEW d \in Command, NEW i \in jobs[d]
                     PROVE  JobAgrees(d, i.command, i.expected)'
        BY <1>4 DEF JobsAgree
      <3>2. JobAgrees(d, i.command, i.expected)
        BY DEF JobsAgree
      <3>3. CASE d # c
        BY <1>1, <2>1, <3>2, <3>3 DEF JobAgrees, Resolves, Calling
      <3>4. CASE d = c
        <4>1. i.expected \in {"SUBMITTING", "UNKNOWN"} => j.expected # "CLAIMED"
          BY <2>1, <3>2, <3>4 DEF JobAgrees, Unsubmitted
        <4>2. j.expected # "CLAIMED" => j.command.state \notin Unsubmitted
          BY <1>3 DEF JobAgrees, Resolves, Unsubmitted
        <4>3. QED
          BY <1>1, <2>1, <3>2, <3>4, <4>1, <4>2 DEF JobAgrees, Resolves, Calling
      <3>5. QED
        BY <3>3, <3>4
    <2>7. QED
      BY <1>5, <2>2, <2>4, <2>5, <2>6
  <1>8. QED
    BY <1>2, <1>6, <1>7

\* The broker fills and closes live orders only.
LEMMA OrderBroker ==
  ASSUME TypeOK, BrokerInv, NEW c \in Command, BrokerFill(c) \/ BrokerClose(c)
  PROVE  BrokerInv'
  <1> USE DEF BrokerInv
  <1>1. UNCHANGED <<now, rows, pc, work, queue, jobs>> /\ order[c].status = "live"
    BY DEF BrokerFill, BrokerClose, queueVars
  <1>2. order[c] \in BrokerOrder /\ order[c].filled < order[c].quantity
    BY <1>1 DEF TypeOK, OrdersShaped
  <1>3. /\ order'[c].quantity = order[c].quantity /\ order'[c].sends = order[c].sends
        /\ order'[c].filled \in Nat /\ order[c].filled <= order'[c].filled
        /\ order'[c].filled <= order[c].quantity
        /\ \/ order'[c].status = "done"
           \/ order'[c].status = "live" /\ order'[c].filled < order[c].quantity
        /\ \A d \in Command \ {c} : order'[d] = order[d]
    <2>1. CASE BrokerClose(c)
      BY <1>2, <2>1 DEF BrokerClose, TypeOK, BrokerOrder
    <2>2. CASE BrokerFill(c)
      <3> DEFINE filled == order[c].filled + 1
                 status == IF filled = order[c].quantity THEN "done" ELSE "live"
                 counted == [order[c] EXCEPT !.filled = filled]
                 next == [counted EXCEPT !.status = status]
      <3>1. order' = [order EXCEPT ![c] = next]
        BY <2>2 DEF BrokerFill, TypeOK
      <3>2. order[c].filled \in Nat /\ order[c].quantity \in Nat
        BY <1>2 DEF BrokerOrder
      <3>3. filled \in Nat /\ filled <= order[c].quantity /\ order[c].filled <= filled
        BY <1>2, <3>2
      <3>4. \/ status = "done"
            \/ status = "live" /\ filled < order[c].quantity
        BY <1>2, <3>2
      <3> HIDE DEF filled, status
      <3>5. counted.sends = order[c].sends /\ counted.quantity = order[c].quantity
              /\ counted.filled = filled /\ counted \in BrokerOrder
        BY <1>2, <3>3 DEF BrokerOrder
      <3> HIDE DEF counted
      <3>6. next.sends = order[c].sends /\ next.quantity = order[c].quantity
              /\ next.filled = filled /\ next.status = status
        BY <3>5 DEF BrokerOrder
      <3> HIDE DEF next
      <3>7. order'[c] = next /\ \A d \in Command \ {c} : order'[d] = order[d]
        BY <3>1 DEF TypeOK
      <3>8. QED
        BY <3>3, <3>4, <3>6, <3>7
    <2>3. QED
      BY <2>1, <2>2
  <1>4. order[c].filled \in Nat /\ order[c].quantity \in Nat
    BY <1>2 DEF BrokerOrder
  <1>5. Sized' /\ PromptSends' /\ HeldRows'
    BY <1>1 DEF Sized, PromptSends, HeldRows, Calling
  <1>6. OrdersShaped'
    BY <1>1, <1>3, <1>4 DEF OrdersShaped
  <1>7. SentAgrees'
    <2>1. \A w \in Worker : pc[w] = "sent" => work[w].id \in Command
      BY DEF TypeOK, Work
    <2>2. QED
      BY <1>1, <1>3, <2>1 DEF SentAgrees
  <1>8. ASSUME NEW cmd, Resolves(cmd, order[c])
        PROVE  Resolves(cmd, order'[c])
    BY <1>1, <1>3, <1>4, <1>8 DEF Resolves
  <1>9. JobsAgree'
    BY <1>1, <1>3, <1>8 DEF JobsAgree, JobAgrees, Calling
  <1>10. BrokerAgrees'
    BY <1>1, <1>3, <1>4 DEF BrokerAgrees
  <1>11. QED
    BY <1>5, <1>6, <1>7, <1>9, <1>10

\* Every step keeps rows and orders in agreement.
LEMMA NextBroker ==
  ASSUME SendBound < SubmittingTimeout, TypeOK, SendOwnership, BrokerInv, [Next]_vars
  PROVE  BrokerInv'
  <1>1. ASSUME UNCHANGED <<now, rows, order, pc, work, queue, jobs>>
        PROVE  BrokerInv'
    BY <1>1 DEF BrokerInv, Sized, PromptSends, HeldRows, Calling, OrdersShaped, SentAgrees,
                JobsAgree, JobAgrees, Resolves, BrokerAgrees
  <1>2. CASE Tick
    <2>1. /\ UNCHANGED <<rows, order, pc, work, queue, jobs>> /\ now' = now + 1 /\ now \in Nat
          /\ \A w \in Worker : Prompt(w)
      BY <1>2 DEF Tick, queueVars, TypeOK
    <2>2. PromptSends'
      BY <2>1, WorkersAssumption DEF Prompt, PromptSends, BrokerInv
    <2>3. QED
      BY <2>1, <2>2 DEF BrokerInv, Sized, HeldRows, Calling, OrdersShaped, SentAgrees,
                        JobsAgree, JobAgrees, Resolves, BrokerAgrees
  <1>3. ASSUME NEW w \in Worker, Crash(w) \/ Restart(w) \/ LoseResponse(w)
        PROVE  BrokerInv'
    <2>1. /\ UNCHANGED <<now, rows, order, jobs>>
          /\ \A v \in Worker : queue'[v] \subseteq queue[v]
          /\ \A v \in Worker \ {w} : pc'[v] = pc[v] /\ work'[v] = work[v]
          /\ pc'[w] \in {"idle", "down"}
      BY <1>3, BackToIdleType DEF Crash, Restart, LoseResponse, queueVars, TypeOK
    <2>2. QED
      BY <2>1, MoveBroker
  <1>4. ASSUME NEW c \in Command, LoseRecovery(c)
        PROVE  BrokerInv'
    <2>1. /\ UNCHANGED <<now, rows, order, pc, work, queue>>
          /\ \A d \in Command : jobs'[d] \subseteq jobs[d]
      BY <1>4 DEF LoseRecovery, queueVars, TypeOK
    <2>2. QED
      BY <2>1 DEF BrokerInv, Sized, PromptSends, HeldRows, Calling, OrdersShaped, SentAgrees,
                  JobsAgree, JobAgrees, Resolves, BrokerAgrees
  <1>5. QED
    BY <1>1, <1>2, <1>3, <1>4, ClaimBroker, DispatchBroker, SaveDispatchBroker,
       StartRequestBroker, OrderSendBroker, SaveResponseBroker, SweepBroker, ReconcileBroker,
       SaveRecoveryBroker, OrderBroker
    DEF Next, LockStep, AcquireLock, LoseSession, SendStep, EndSession, vars, queueVars

\* What the row says of the broker is what the broker did, as long as a worker
\* calls order_send within the timeout after which the sweep gives it up.
THEOREM RowsAgreeWithBroker ==
  ASSUME SendBound < SubmittingTimeout
  PROVE  Spec => []BrokerAgrees
  <1>1. TypeOK /\ SendOwnership /\ BrokerInv /\ [Next]_vars => BrokerInv'
    BY NextBroker
  <1>2. BrokerInv => BrokerAgrees
    BY DEF BrokerInv
  <1>3. QED
    BY InitBroker, <1>1, <1>2, TypeCorrect, SentUnderItsClaim, PTL DEF Spec

-----------------------------------------------------------------------------
(* The refinement of CommandEffect *)

OrderKept == UNCHANGED order
OneRow == \E c \in Command : \A d \in Command \ {c} : rows'[d] = rows[d]

\* A step calls the broker, is the broker's, or saves one row at most.
LEMMA NextEffects ==
  ASSUME TypeOK, [Next]_vars
  PROVE  \/ \E w \in Worker, status \in {"live", "refused"} : OrderSend(w, status)
         \/ \E c \in Command : BrokerFill(c) \/ BrokerClose(c)
         \/ UNCHANGED <<rows, order>>
         \/ OrderKept /\ OneRow
  <1>1. ASSUME NEW c, NEW cmd, Save(c, cmd)
        PROVE  \A d \in Command \ {c} : rows'[d] = rows[d]
    BY <1>1 DEF Save, TypeOK
  <1>2. ASSUME NEW w \in Worker, NEW c \in Command, ClaimNext(w, c)
        PROVE  OrderKept /\ OneRow
    BY <1>1, <1>2 DEF ClaimNext, OrderKept, OneRow
  <1>3. ASSUME NEW w \in Worker, SaveDispatch(w) \/ StartRequest(w) \/ SaveResponse(w)
        PROVE  UNCHANGED <<rows, order>> \/ (OrderKept /\ OneRow)
    <2>1. work[w].id \in Command
      BY <1>3 DEF SaveDispatch, StartRequest, SaveResponse, TypeOK, Work
    <2>2. order' = order /\ (rows' = rows \/ \E cmd : Save(work[w].id, cmd))
      BY <1>3 DEF SaveDispatch, StartRequest, SaveResponse
    <2>3. QED
      BY <1>1, <2>1, <2>2 DEF OrderKept, OneRow
  <1>4. ASSUME NEW c \in Command, SaveRecovery(c)
        PROVE  UNCHANGED <<rows, order>> \/ (OrderKept /\ OneRow)
    <2>1. order' = order /\ (rows' = rows \/ \E cmd : Save(c, cmd))
      BY <1>4 DEF SaveRecovery
    <2>2. QED
      BY <1>1, <2>1 DEF OrderKept, OneRow
  <1>5. QED
    BY <1>2, <1>3, <1>4
    DEF Next, LockStep, AcquireLock, LoseSession, DispatchStep, DispatchStart, AlreadyClosed,
        DispatchDropped, RevalidationRejected, ExpiredBeforeSend, ConfirmSend, SendStep,
        LoseResponse, Crash, Restart, Sweep, Reconcile, Plan, LoseRecovery, EndSession, Tick,
        vars

\* The steps of the abstract command, in the variables of the workers.
LEMMA EffectStep ==
  ASSUME TypeOK, SendOwnership, BrokerInv, [Next]_vars
  PROVE  [Effect!Next]_Effect!vars
  <1> DEFINE sends(o) == [c \in Command |-> o[c].sends]
             filled(o) == [c \in Command |-> o[c].filled]
             closed(r) == [c \in Command |-> r[c].state \in Terminal]
  <1>1. ASSUME NEW w \in Worker, NEW status \in {"live", "refused"}, OrderSend(w, status)
        PROVE  Effect!Next
    <2>0. PICK c \in Command : c = work[w].id
      BY <1>1 DEF OrderSend, TypeOK, Work
    <2>1. /\ rows[c].state = "SUBMITTING" /\ order[c].sends = 0
          /\ rows' = rows
      BY <1>1, <2>0 DEF OrderSend, TypeOK, Work, BrokerInv, HeldRows, Calling, SendOwnership,
                  WorkOwned, Submitting, UnsentUntilSent
    <2>2. /\ order'[c].sends = 1 /\ order'[c].filled = 0
          /\ \A d \in Command \ {c} : order'[d] = order[d]
      BY <1>1, <2>0, <2>1 DEF OrderSend, TypeOK
    <2>3. order[c].filled = 0
      BY <2>1 DEF BrokerInv, OrdersShaped
    <2>4. Effect!Send(c)
      <3>1. ~closed(rows)[c] /\ sends(order)[c] = 0
        BY <2>1 DEF Terminal
      <3>2. sends(order') = [sends(order) EXCEPT ![c] = 1]
        BY <2>1, <2>2
      <3>3. filled(order') = filled(order) /\ closed(rows') = closed(rows)
        BY <2>1, <2>2, <2>3
      <3>4. QED
        BY <3>1, <3>2, <3>3 DEF Effect!Send
    <2>5. QED
      BY <2>4 DEF Effect!Next
  <1>2. ASSUME NEW c \in Command, BrokerFill(c)
        PROVE  Effect!Next
    <2>1. order[c].status = "live" /\ rows' = rows /\ order[c] \in BrokerOrder
      BY <1>2 DEF BrokerFill, TypeOK
    <2>2. rows[c].state \notin Terminal
      BY <2>1 DEF BrokerInv, BrokerAgrees, Terminal
    <2>3. order[c].sends = 1
      <3>1. order[c].sends # 0 /\ order[c].sends <= 1 /\ order[c].sends \in Nat
        BY <2>1 DEF BrokerInv, OrdersShaped, SendOwnership, AtMostOneSend, BrokerOrder
      <3>2. QED
        BY <3>1
    <2>4. /\ order'[c].sends = order[c].sends /\ order'[c].filled = order[c].filled + 1
          /\ \A d \in Command \ {c} : order'[d] = order[d]
      <3> DEFINE counted == [order[c] EXCEPT !.filled = order[c].filled + 1]
                 status == IF order[c].filled + 1 = order[c].quantity THEN "done" ELSE "live"
                 next == [counted EXCEPT !.status = status]
      <3>1. order' = [order EXCEPT ![c] = next]
        BY <1>2 DEF BrokerFill, TypeOK
      <3> HIDE DEF status
      <3>2. counted.sends = order[c].sends /\ counted.filled = order[c].filled + 1
              /\ counted \in BrokerOrder
        BY <2>1 DEF BrokerOrder
      <3> HIDE DEF counted
      <3>3. next.sends = order[c].sends /\ next.filled = order[c].filled + 1
        BY <3>2 DEF BrokerOrder
      <3> HIDE DEF next
      <3>4. QED
        BY <3>1, <3>3 DEF TypeOK
    <2>5. Effect!Fill(c)
      <3>1. ~closed(rows)[c] /\ sends(order)[c] = 1
        BY <2>2, <2>3
      <3>2. filled(order') = [filled(order) EXCEPT ![c] = @ + 1]
        BY <2>4
      <3>3. sends(order') = sends(order) /\ closed(rows') = closed(rows)
        BY <2>1, <2>4
      <3>4. QED
        BY <3>1, <3>2, <3>3 DEF Effect!Fill
    <2>6. QED
      BY <2>5 DEF Effect!Next
  <1>3. ASSUME NEW c \in Command, BrokerClose(c)
        PROVE  UNCHANGED Effect!vars
    <2>1. rows' = rows /\ order[c] \in BrokerOrder
          /\ order' = [order EXCEPT ![c] = [@ EXCEPT !.status = "done"]]
      BY <1>3 DEF BrokerClose, TypeOK
    <2>2. \A d \in Command : order'[d].sends = order[d].sends
                               /\ order'[d].filled = order[d].filled
      BY <2>1 DEF BrokerOrder, TypeOK
    <2>3. sends(order') = sends(order) /\ filled(order') = filled(order)
            /\ closed(rows') = closed(rows)
      BY <2>1, <2>2
    <2>4. QED
      BY <2>3 DEF Effect!vars
  <1>4. CASE UNCHANGED <<rows, order>>
    BY <1>4 DEF Effect!vars
  <1>5. ASSUME OrderKept, NEW c \in Command, \A d \in Command \ {c} : rows'[d] = rows[d]
        PROVE  Effect!Next \/ UNCHANGED Effect!vars
    <2>1. sends(order') = sends(order) /\ filled(order') = filled(order)
      BY <1>5 DEF OrderKept
    <2>2. rows[c].state \in Terminal => rows'[c] = rows[c]
      BY NextWrites DEF RowWritten, CanSave, SaveMatches, Terminal
    <2>3. CASE rows[c].state \notin Terminal /\ rows'[c].state \in Terminal
      <3>1. ~closed(rows)[c]
        BY <2>3
      <3>2. closed(rows') = [closed(rows) EXCEPT ![c] = TRUE]
        <4>1. \A d \in Command \ {c} : closed(rows')[d] = closed(rows)[d]
          BY <1>5
        <4>2. closed(rows')[c] = TRUE
          BY <2>3
        <4> HIDE DEF closed
        <4>3. closed(rows') = [d \in Command |-> closed(rows')[d]]
                /\ closed(rows) = [d \in Command |-> closed(rows)[d]]
          BY DEF closed
        <4>4. QED
          BY <4>1, <4>2, <4>3
      <3>3. Effect!Close(c)
        BY <2>1, <3>1, <3>2 DEF Effect!Close
      <3>4. QED
        BY <3>3 DEF Effect!Next
    <2>4. CASE rows[c].state \in Terminal \/ rows'[c].state \notin Terminal
      <3>1. \A d \in Command : (rows'[d].state \in Terminal) = (rows[d].state \in Terminal)
        BY <1>5, <2>2, <2>4
      <3>2. closed(rows') = closed(rows)
        BY <3>1
      <3>3. QED
        BY <2>1, <3>2 DEF Effect!vars
    <2>5. QED
      BY <2>3, <2>4
  <1>6. QED
    BY <1>1, <1>2, <1>3, <1>4, <1>5, NextEffects DEF OneRow

\* The workers, their recovery and the broker implement the promise about one
\* command: sent at most once, and settled on both sides once it is closed.
THEOREM WorkersImplementEffect ==
  ASSUME SendBound < SubmittingTimeout
  PROVE  Spec => ImplementsEffect
  <1>1. Init => Effect!Init
    <2> SUFFICES ASSUME Init PROVE Effect!Init
      OBVIOUS
    <2>1. \A c \in Command : /\ order[c].sends = 0 /\ order[c].filled = 0
                             /\ rows[c].state \notin Terminal
      BY DEF Init, NoOrder, ReadyRow, Terminal
    <2>2. /\ [c \in Command |-> order[c].sends] = [c \in Command |-> 0]
          /\ [c \in Command |-> order[c].filled] = [c \in Command |-> 0]
      BY <2>1
    <2> DEFINE closed == [c \in Command |-> rows[c].state \in Terminal]
               open == [c \in Command |-> FALSE]
    <2>3. closed = open
      <3>1. \A c \in Command : closed[c] = (rows[c].state \in Terminal)
        OBVIOUS
      <3>2. \A c \in Command : (rows[c].state \in Terminal) = FALSE
        BY <2>1
      <3>3. \A c \in Command : closed[c] = FALSE
        BY <3>1, <3>2, Zenon
      <3>4. \A c \in Command : closed[c] = open[c]
        BY <3>3, Zenon
      <3>5. closed = [c \in Command |-> closed[c]] /\ open = [c \in Command |-> open[c]]
        BY Zenon
      <3> HIDE DEF closed, open
      <3>6. QED
        BY <3>4, <3>5
    <2>4. QED
      BY <2>2, <2>3, Zenon DEF Effect!Init
  <1>2. TypeOK /\ SendOwnership /\ BrokerInv /\ [Next]_vars => BrokerInv'
    BY NextBroker
  <1>3. TypeOK /\ SendOwnership /\ BrokerInv /\ [Next]_vars => [Effect!Next]_Effect!vars
    BY EffectStep
  <1>4. QED
    BY <1>1, <1>2, <1>3, InitBroker, TypeCorrect, SentUnderItsClaim, PTL
    DEF Spec, ImplementsEffect, Effect!Spec
=============================================================================
