---------------------------- MODULE CommandStore ----------------------------
(***************************************************************************)
(* PostgresCommandRepository: the row of one execution command and its     *)
(* append-only history execution_state_observations, written in one        *)
(* transaction by insert, claim_next and save_state.  The clients are any  *)
(* processes that read the row, transition their copy in memory (several   *)
(* times if they like) and save it with the state they read as             *)
(* expected_state: workers, the sweep, reconciliation, fill processing.    *)
(* Every client may be slow between its read and its save.                 *)
(*                                                                         *)
(* Bounds: MaxTime stops the clock, MaxRevision the transitions, MaxHops   *)
(* the transitions a client makes in memory before it saves.               *)
(***************************************************************************)
EXTENDS OmsCommand

CONSTANTS Client, Quantities, MaxTime, MaxRevision, MaxHops

\* One stored row: the command and its state_changed_at.
StoredCommand == [command: ExecutionCommand, changed_at: Nat]

Observation == [state: CommandState, changed_at: Nat, quantity: Nat]

VARIABLES
  now,
  row,            \* the row of execution_commands
  observations,   \* its history: revision -> observation
  copy            \* what each client holds: a command and the state it read

vars == <<now, row, observations, copy>>

NoCopy == [hops |-> -1]
Copy == [stored: StoredCommand, expected: CommandState, reconciled: BOOLEAN, hops: Nat]

Observe(stored) ==
  [state |-> stored.command.state, changed_at |-> stored.changed_at,
   quantity |-> stored.command.quantity]

Init ==
  /\ now = 0
  /\ row \in [command: {[state |-> "CREATED", state_revision |-> 0,
                         claimed_by |-> Nobody, claim_expires_at |-> NoTime,
                         submitting_at |-> NoTime, broker_request_started_at |-> NoTime,
                         quantity |-> q] : q \in Quantities},
              changed_at: {0}]
  /\ observations = [r \in {0} |-> Observe(row)]
  /\ copy = [cl \in Client |-> NoCopy]

-----------------------------------------------------------------------------
(* Writes *)

Recorded(revision) == revision \in DOMAIN observations

\* Mutant: a conflicting observation goes unnoticed.
ObservationAgrees_Always(stored) == TRUE

\* The upsert of the observation: a revision already recorded must be
\* recorded with the same state, time and quantity.
ObservationAgrees(stored) ==
  Recorded(stored.command.state_revision) =>
    observations[stored.command.state_revision] = Observe(stored)

Observed(stored) ==
  [r \in DOMAIN observations \cup {stored.command.state_revision} |->
     IF r \in DOMAIN observations THEN observations[r] ELSE Observe(stored)]

\* Row and observation are written together; a conflict rolls both back.
Write(stored) ==
  /\ ObservationAgrees(stored)
  /\ row' = stored
  /\ observations' = Observed(stored)

\* claim_next: one UPDATE on the row itself, no copy involved.
ClaimNext(cl) ==
  /\ row.command.state = "READY"
  /\ row.command.state_revision < MaxRevision
  /\ LET claimed == [command |-> MarkClaimed(row.command, cl, now), changed_at |-> now]
     IN  /\ Write(claimed)
         /\ copy' = [copy EXCEPT ![cl] = [stored |-> claimed, expected |-> "CLAIMED",
                                          reconciled |-> FALSE, hops |-> 0]]
  /\ UNCHANGED now

-----------------------------------------------------------------------------
(* Clients *)

\* get or in_state; only resolve_unknown transitions via reconciliation, and
\* it accepts nothing but an UNKNOWN command.
Read(cl, reconciles) ==
  /\ copy[cl] = NoCopy
  /\ reconciles => row.command.state = "UNKNOWN"
  /\ copy' = [copy EXCEPT ![cl] = [stored |-> row, expected |-> row.command.state,
                                   reconciled |-> reconciles, hops |-> 0]]
  /\ UNCHANGED <<now, row, observations>>

Transitioned(cl, new) ==
  /\ copy[cl] # NoCopy
  /\ copy[cl].hops < MaxHops
  /\ copy[cl].stored.command.state_revision < MaxRevision
  /\ CanTransition(copy[cl].stored.command, new, now, copy[cl].reconciled)
  /\ UNCHANGED <<now, row, observations>>

Hold(cl, cmd) ==
  copy' = [copy EXCEPT ![cl].stored = [command |-> cmd, changed_at |-> now],
                       ![cl].hops = @ + 1]

\* transition on the copy.
Advance(cl, new) ==
  /\ Transitioned(cl, new)
  /\ Hold(cl, Transition(copy[cl].stored.command, new))

\* mark_submitting, with the quantity of the fresh select of dispatch.
Submit(cl, quantity) ==
  /\ Transitioned(cl, "SUBMITTING")
  /\ Hold(cl, [MarkSubmitting(copy[cl].stored.command, now) EXCEPT !.quantity = quantity])

\* mark_broker_request_started: no new revision.
StartRequest(cl) ==
  /\ copy[cl] # NoCopy
  /\ copy[cl].stored.command.state = "SUBMITTING"
  /\ copy[cl].stored.command.broker_request_started_at = NoTime
  /\ copy' = [copy EXCEPT ![cl].stored.command = MarkBrokerRequestStarted(@, now)]
  /\ UNCHANGED <<now, row, observations>>

\* save_state succeeds; the client goes on with what it saved.
SaveState(cl) ==
  /\ copy[cl] # NoCopy
  /\ SaveMatches(row.command, copy[cl].stored.command, copy[cl].expected)
  /\ Write(copy[cl].stored)
  /\ copy' = [copy EXCEPT ![cl].expected = copy[cl].stored.command.state, ![cl].hops = 0]
  /\ UNCHANGED now

\* StaleCommandStateError, or the client is done: the copy is dropped.
Drop(cl) ==
  /\ copy[cl] # NoCopy
  /\ copy' = [copy EXCEPT ![cl] = NoCopy]
  /\ UNCHANGED <<now, row, observations>>

TimePasses ==
  /\ now < MaxTime
  /\ now' = now + 1
  /\ UNCHANGED <<row, observations, copy>>

Next ==
  \/ \E cl \in Client :
       \/ ClaimNext(cl)
       \/ \E reconciles \in BOOLEAN : Read(cl, reconciles)
       \/ \E new \in CommandState \ {"CLAIMED", "SUBMITTING"} : Advance(cl, new)
       \/ \E quantity \in Quantities : Submit(cl, quantity)
       \/ StartRequest(cl)
       \/ SaveState(cl)
       \/ Drop(cl)
  \/ TimePasses

Spec == Init /\ [][Next]_vars

-----------------------------------------------------------------------------
(* Properties *)

TypeOK ==
  /\ now \in Nat
  /\ row \in StoredCommand
  /\ copy \in [Client -> Copy \cup {NoCopy}]
  /\ DOMAIN observations \subseteq Nat
  /\ \A r \in DOMAIN observations : observations[r] \in Observation

\* The row is always the last thing its history says: no save slips past the
\* observation of its revision (postgres.py, _with_state_observation).
HistoryEndsInRow ==
  /\ row.command.state_revision \in DOMAIN observations
  /\ \A r \in DOMAIN observations : r <= row.command.state_revision
  /\ observations[row.command.state_revision] = Observe(row)

\* With callers that save every transition, the history has no gaps, whoever
\* is stale (execution quality export counts on it as history_complete).
HistoryComplete == DOMAIN observations = 0 .. row.command.state_revision

\* Each recorded step of the history is a transition the state machine allows:
\* two clients never splice their saves into a path neither could take.
HistoryLegal ==
  \A r \in DOMAIN observations :
    r + 1 \in DOMAIN observations =>
      observations[r + 1].state \in Allowed[observations[r].state]

\* A row leaves UNKNOWN only for a client that reconciles what it read there:
\* a slow worker with an older copy never resolves it (save_state docstring).
UnknownOnlyReconciled ==
  [][row.command.state = "UNKNOWN" /\ row'.command.state # "UNKNOWN" =>
       \E cl \in Client : /\ copy[cl] # NoCopy
                          /\ copy[cl].reconciled
                          /\ copy[cl].expected = "UNKNOWN"]_vars

\* Row and history agree whatever stale clients save (PostgresCommandRepository).
HistoryFaithful ==
  /\ [](TypeOK /\ HistoryEndsInRow /\ HistoryComplete /\ HistoryLegal)
  /\ UnknownOnlyReconciled
=============================================================================
