----------------------------- MODULE OmsWorkers -----------------------------
(***************************************************************************)
(* The execution path of the OMS: worker processes that claim rows of      *)
(* execution_commands, queue them in memory, dispatch them under the       *)
(* single dispatcher lock, persist each step by compare-and-set and call   *)
(* the broker; the recovery sweep and the reconciliation that clean up     *)
(* after a crash, a lost response or a slow worker; the database session   *)
(* that owns the dispatcher lock.                                          *)
(*                                                                         *)
(* The loops that call these operations (the worker loop, the scheduler of *)
(* the sweep and of reconciliation) are not in the repository.  Their      *)
(* order of calls is the contract written in oms/queue.py and oms/claim.py *)
(* and in SYSTEM_SPEC 8.3-8.5: claim, enqueue, dispatch, save with         *)
(* expected CLAIMED, record the broker request, order_send.                *)
(*                                                                         *)
(* Bounds: MaxTime stops the clock, MaxFaults counts crashes, lost         *)
(* sessions and lost recovery processes, MaxJobs the recovery processes    *)
(* of a command, MaxPosition the quantity a fresh select may find.         *)
(***************************************************************************)
EXTENDS OmsCommand, FiniteSets

CONSTANTS
  Command,        \* command ids
  Action,         \* [Command -> OPEN | INCREASE | REDUCE | CLOSE]
  Ticketed,       \* commands that carry a broker_position_ticket
  SymbolOf,       \* [Command -> symbol]
  ExpiresAt,      \* [Command -> deadline of the signal, NoTime if none]
  Forced,         \* commands enqueued as forced risk reduction
  Rank,           \* [Command -> arbitration_rank, NoRank if none]
  SymbolLimit,    \* per_symbol_requests_per_second
  EntryLimit,     \* market_entries_per_second
  Window,         \* RateLimiter.WINDOW in clock ticks
  Quantity,       \* [Command -> quantity the command was created with]
  CreatedBefore,  \* set of pairs: the order of created_at
  SendBound,      \* ticks between the SUBMITTING decision and order_send
  MaxTime, MaxFaults, MaxJobs, MaxPosition

NoRank == -1

ASSUME CommandAssumption ==
  /\ Action \in [Command -> {"OPEN", "INCREASE", "REDUCE", "CLOSE"}]
  /\ Ticketed \subseteq Command
  /\ ExpiresAt \in [Command -> TimeOrNull]
  /\ Rank \in [Command -> Nat \cup {NoRank}]
ASSUME LimitAssumption ==
  /\ SymbolLimit \in Nat \ {0}
  /\ EntryLimit \in Nat \ {0}
  /\ Window \in Nat \ {0}
ASSUME WorkersAssumption ==
  /\ Quantity \in [Command -> Nat \ {0}]
  /\ CreatedBefore \subseteq Command \X Command
  /\ SendBound \in Nat
  /\ MaxTime \in Nat /\ MaxFaults \in Nat /\ MaxJobs \in Nat /\ MaxPosition \in Nat

-----------------------------------------------------------------------------
(* The in-memory queue between the DB claim and the broker: oms/queue.py   *)
(* (priority, order, checks of dispatch) and oms/rate_limit.py (the        *)
(* sliding windows).  The queue of a worker is a set of entries; the list  *)
(* order of the code is never observed, because every use sorts it by      *)
(* sort_key.  The limiter's deques are one set of the requests recorded.   *)

QueuedCommand == [id: Command, command: ExecutionCommand, sequence: Nat]

\* What RateLimiter.record keeps of one request.
Request == [id: Command, at: Time]

Exit(c) == Action[c] \in {"REDUCE", "CLOSE"}
MarketEntry(c) == ~Exit(c)

\* Mutant: entries before exits.
PriorityFor_EntriesFirst(c) == IF c \in Forced THEN 0 ELSE IF Exit(c) THEN 3 ELSE 1

\* QueuePriority: EMERGENCY 0, CLOSE_REDUCE 1, NEW_ENTRY 3.
PriorityFor(c) == IF c \in Forced THEN 0 ELSE IF Exit(c) THEN 1 ELSE 3

\* The order of sort_key: priority, then ranked before unranked, then rank,
\* then enqueue order.
SortsBefore(e, f) ==
  \/ PriorityFor(e.id) < PriorityFor(f.id)
  \/ /\ PriorityFor(e.id) = PriorityFor(f.id)
     /\ \/ Rank[e.id] # NoRank /\ Rank[f.id] = NoRank
        \/ Rank[e.id] # NoRank /\ Rank[e.id] < Rank[f.id]
        \/ Rank[e.id] = Rank[f.id] /\ e.sequence < f.sequence

Recent(requests, now) == {r \in requests : r.at > now - Window}

Allows(requests, c, now) ==
  LET recent == Recent(requests, now)
  IN  /\ Cardinality({r \in recent : SymbolOf[r.id] = SymbolOf[c]}) < SymbolLimit
      /\ MarketEntry(c) =>
           Cardinality({r \in recent : MarketEntry(r.id)}) < EntryLimit

Record(requests, c, now) == Recent(requests, now) \cup {[id |-> c, at |-> now]}

SignalExpired(c, now) == ExpiresAt[c] # NoTime /\ now >= ExpiresAt[c]

\* Passed over by the loop of dispatch, left in the queue.
Throttled(e, requests, now) ==
  /\ ~SignalExpired(e.id, now)
  /\ ~LeaseExpired(e.command, now)
  /\ ~Allows(requests, e.id, now)

\* The entry dispatch handles: the first in sort order not passed over.
Chosen(queue, requests, now) ==
  {e \in queue : /\ ~Throttled(e, requests, now)
                 /\ \A f \in queue : SortsBefore(f, e) => Throttled(f, requests, now)}

\* The quantity after the fresh select of a ticketed exit.
FreshQuantity(c, quantity, position) ==
  IF c \notin Ticketed THEN quantity
  ELSE IF Action[c] = "CLOSE" THEN position
  ELSE IF Action[c] = "REDUCE" /\ position < quantity THEN position
  ELSE quantity

-----------------------------------------------------------------------------
VARIABLES
  now,        \* the clock
  rows,       \* execution_commands
  order,      \* the broker's order for each command
  pc,         \* where each worker is in its loop
  work,       \* the command a worker is dispatching
  queue,      \* ExecutionQueue._entries of each worker
  sequence,   \* ExecutionQueue._sequence of each worker
  requests,   \* RateLimiter of each worker
  session,    \* the worker's lock session is usable
  held,       \* the server grants the dispatcher lock to that session
  lingering,  \* the lock belongs to a dead session the server has not noticed
  jobs,       \* saves the sweep and reconciliation are about to make
  faults      \* faults so far

queueVars == <<queue, sequence, requests>>
lockVars == <<session, held, lingering>>
vars == <<now, rows, order, pc, work, queueVars, lockVars, jobs, faults>>

PC == {"down", "idle", "selected", "decided", "submitting", "requested", "sent"}

Work == [id: Command, command: ExecutionCommand]
NoWork == [id |-> Nobody, command |-> Nobody]
Job == [by: Nat, command: ExecutionCommand,
        expected: {"CLAIMED", "SUBMITTING", "UNKNOWN"}]
BrokerOrder == [status: {"none", "refused", "live", "done"},
                quantity: Nat, filled: Nat, sends: Nat]

\* A row as intake leaves it after CREATED, RISK_APPROVED and READY.
ReadyRow(c) ==
  [state |-> "READY", state_revision |-> 2, claimed_by |-> Nobody,
   claim_expires_at |-> NoTime, submitting_at |-> NoTime,
   broker_request_started_at |-> NoTime, quantity |-> Quantity[c]]

NoOrder == [status |-> "none", quantity |-> 0, filled |-> 0, sends |-> 0]

Init ==
  /\ now = 0
  /\ rows = [c \in Command |-> ReadyRow(c)]
  /\ order = [c \in Command |-> NoOrder]
  /\ pc = [w \in Worker |-> "idle"]
  /\ work = [w \in Worker |-> NoWork]
  /\ queue = [w \in Worker |-> {}]
  /\ sequence = [w \in Worker |-> 0]
  /\ requests = [w \in Worker |-> {}]
  /\ session = [w \in Worker |-> TRUE]
  /\ held = [w \in Worker |-> FALSE]
  /\ lingering = FALSE
  /\ jobs = [c \in Command |-> {}]
  /\ faults = 0

-----------------------------------------------------------------------------
(* Steps shared by the actions *)

Continue(w, next, c, cmd) ==
  /\ pc' = [pc EXCEPT ![w] = next]
  /\ work' = [work EXCEPT ![w] = [id |-> c, command |-> cmd]]

BackToIdle(w) ==
  /\ pc' = [pc EXCEPT ![w] = "idle"]
  /\ work' = [work EXCEPT ![w] = NoWork]

\* save_state of a copy; a copy that does not match raises
\* StaleCommandStateError and writes nothing.
CanSave(c, cmd, expected) == SaveMatches(rows[c], cmd, expected)
\* Mutant: the adjusted quantity is not written.
Save_KeepsQuantity(c, cmd) ==
  rows' = [rows EXCEPT ![c] = [cmd EXCEPT !.quantity = rows[c].quantity]]
Save(c, cmd) == rows' = [rows EXCEPT ![c] = cmd]

-----------------------------------------------------------------------------
(* The dispatcher lock *)

AcquireLock(w) ==
  /\ pc[w] = "idle"
  /\ session[w]
  /\ ~lingering
  /\ \A v \in Worker : ~held[v]
  /\ held' = [held EXCEPT ![w] = TRUE]
  /\ UNCHANGED <<now, rows, order, pc, work, queueVars, session, lingering, jobs, faults>>

DropSession(w) ==
  /\ session' = [session EXCEPT ![w] = FALSE]
  /\ held' = [held EXCEPT ![w] = FALSE]
  /\ lingering' = (lingering \/ held[w])

\* The connection breaks under a worker that goes on running.
LoseSession(w) ==
  /\ faults < MaxFaults
  /\ session[w]
  /\ DropSession(w)
  /\ faults' = faults + 1
  /\ UNCHANGED <<now, rows, order, pc, work, queueVars, jobs>>

\* The server ends the dead session and frees the lock.
EndSession ==
  /\ lingering
  /\ lingering' = FALSE
  /\ UNCHANGED <<now, rows, order, pc, work, queueVars, session, held, jobs, faults>>

-----------------------------------------------------------------------------
(* Claim and enqueue *)

\* Rows are claimed oldest first; an older READY row is skipped only when
\* another session has it locked.
OldestUnlocked(w, c) ==
  \A d \in Command : <<d, c>> \in CreatedBefore /\ rows[d].state = "READY" =>
    \E v \in Worker \ {w} : pc[v] # "down"

\* enqueue refuses a command that is still queued under an older claim.
Enqueue(w, c, cmd) ==
  IF \E e \in queue[w] : e.id = c
  THEN UNCHANGED <<queue, sequence>>
  ELSE /\ queue' = [queue EXCEPT ![w] =
                      @ \cup {[id |-> c, command |-> cmd, sequence |-> sequence[w]]}]
       /\ sequence' = [sequence EXCEPT ![w] = @ + 1]

\* Every lease and timeout of a claim made now ends before the clock stops.
ClaimHorizon == now + LeaseSeconds + SubmittingTimeout <= MaxTime

ClaimNext(w, c) ==
  /\ ClaimHorizon
  /\ pc[w] = "idle"
  /\ rows[c].state = "READY"
  /\ OldestUnlocked(w, c)
  /\ LET claimed == MarkClaimed(rows[c], w, now)
     IN  Save(c, claimed) /\ Enqueue(w, c, claimed)
  /\ UNCHANGED <<now, order, pc, work, requests, lockVars, jobs, faults>>

-----------------------------------------------------------------------------
(* ExecutionQueue.dispatch, up to the broker round-trip ... *)

TakeFromQueue(w, e) ==
  /\ queue' = [queue EXCEPT ![w] = @ \ {e}]
  /\ requests' = [requests EXCEPT ![w] = Recent(@, now)]

DispatchStart(w) ==
  /\ pc[w] = "idle"
  /\ held[w]
  /\ \E e \in Chosen(queue[w], requests[w], now) :
       /\ TakeFromQueue(w, e)
       /\ \/ /\ SignalExpired(e.id, now)
             /\ Continue(w, "decided", e.id, Transition(e.command, "EXPIRED"))
          \/ /\ ~SignalExpired(e.id, now)
             /\ LeaseExpired(e.command, now)
             /\ UNCHANGED <<pc, work>>
          \/ /\ ~SignalExpired(e.id, now)
             /\ ~LeaseExpired(e.command, now)
             /\ Continue(w, "selected", e.id, e.command)
  /\ UNCHANGED <<now, rows, order, sequence, lockVars, jobs, faults>>

(* ... and after it: fresh select, revalidation, the last checks. *)

AlreadyClosed(w) ==
  /\ pc[w] = "selected"
  /\ work[w].id \in Ticketed
  /\ Continue(w, "decided", work[w].id, Transition(work[w].command, "CANCELLED"))
  /\ UNCHANGED <<now, rows, order, queueVars, lockVars, jobs, faults>>

\* The copy with the quantity of the fresh select.
Adjusted(w, position) ==
  [work[w].command EXCEPT !.quantity = FreshQuantity(work[w].id, @, position)]

RevalidationRejected(w, position) ==
  /\ pc[w] = "selected"
  /\ Continue(w, "decided", work[w].id, Transition(Adjusted(w, position), "CANCELLED"))
  /\ UNCHANGED <<now, rows, order, queueVars, lockVars, jobs, faults>>

ExpiredBeforeSend(w, position) ==
  /\ pc[w] = "selected"
  /\ SignalExpired(work[w].id, now)
  /\ Continue(w, "decided", work[w].id, Transition(Adjusted(w, position), "EXPIRED"))
  /\ UNCHANGED <<now, rows, order, queueVars, lockVars, jobs, faults>>

\* The lease ran out (LEASE_EXPIRED); or the fresh select or the revalidation
\* raised; or held() answered no: the lock was lost or could not be queried.
\* The entry has left the queue and the row stays CLAIMED.
DispatchDropped(w) ==
  /\ pc[w] = "selected"
  /\ BackToIdle(w)
  /\ UNCHANGED <<now, rows, order, queueVars, lockVars, jobs, faults>>

\* Mutant: expiry and lease are checked only when dispatch starts.
ConfirmSend_ChecksOnce(w, position) ==
  /\ pc[w] = "selected"
  /\ held[w]
  /\ requests' = [requests EXCEPT ![w] = Record(@, work[w].id, now)]
  /\ Continue(w, "decided", work[w].id, MarkSubmitting(Adjusted(w, position), now))
  /\ UNCHANGED <<now, rows, order, queue, sequence, lockVars, jobs, faults>>

ConfirmSend(w, position) ==
  /\ pc[w] = "selected"
  /\ ~SignalExpired(work[w].id, now)
  /\ ~LeaseExpired(work[w].command, now)
  /\ held[w]
  /\ requests' = [requests EXCEPT ![w] = Record(@, work[w].id, now)]
  /\ Continue(w, "decided", work[w].id, MarkSubmitting(Adjusted(w, position), now))
  /\ UNCHANGED <<now, rows, order, queue, sequence, lockVars, jobs, faults>>

-----------------------------------------------------------------------------
(* Persist and send *)

\* save_state(expected CLAIMED): only a saved SUBMITTING goes on.
SaveDispatch(w) ==
  /\ pc[w] = "decided"
  /\ LET c == work[w].id
         cmd == work[w].command
     IN  \/ /\ CanSave(c, cmd, "CLAIMED")
            /\ Save(c, cmd)
            /\ IF cmd.state = "SUBMITTING"
               THEN Continue(w, "submitting", c, cmd)
               ELSE BackToIdle(w)
         \/ /\ ~CanSave(c, cmd, "CLAIMED")
            /\ BackToIdle(w)
            /\ UNCHANGED rows
  /\ UNCHANGED <<now, order, queueVars, lockVars, jobs, faults>>

\* mark_broker_request_started, saved right before the call.
StartRequest(w) ==
  /\ pc[w] = "submitting"
  /\ LET c == work[w].id
         cmd == MarkBrokerRequestStarted(work[w].command, now)
     IN  \/ /\ CanSave(c, cmd, "SUBMITTING")
            /\ Save(c, cmd)
            /\ Continue(w, "requested", c, cmd)
         \/ /\ ~CanSave(c, cmd, "SUBMITTING")
            /\ BackToIdle(w)
            /\ UNCHANGED rows
  /\ UNCHANGED <<now, order, queueVars, lockVars, jobs, faults>>

\* The broker takes or refuses the order.
OrderSend(w, status) ==
  /\ pc[w] = "requested"
  /\ order' = [order EXCEPT ![work[w].id] =
                 [status |-> status, quantity |-> work[w].command.quantity,
                  filled |-> 0, sends |-> @.sends + 1]]
  /\ pc' = [pc EXCEPT ![w] = "sent"]
  /\ UNCHANGED <<now, rows, work, queueVars, lockVars, jobs, faults>>

\* What the broker can have answered about an order in its present state.
Responses(o) ==
  IF o.status = "refused" THEN {"REJECTED"}
  ELSE {"ACKNOWLEDGED"}
       \cup (IF o.filled > 0 /\ o.quantity > 1 THEN {"PARTIAL_FILL"} ELSE {})
       \cup (IF o.filled = o.quantity THEN {"FILLED"} ELSE {})

\* The response arrives and is saved; a stale save changes nothing.
SaveResponse(w) ==
  /\ pc[w] = "sent"
  /\ \E s \in Responses(order[work[w].id]) :
       LET cmd == Transition(work[w].command, s)
       IN  \/ CanSave(work[w].id, cmd, "SUBMITTING") /\ Save(work[w].id, cmd)
           \/ ~CanSave(work[w].id, cmd, "SUBMITTING") /\ UNCHANGED rows
  /\ BackToIdle(w)
  /\ UNCHANGED <<now, order, queueVars, lockVars, jobs, faults>>

\* The call times out or raises: the row is left to the sweep.
LoseResponse(w) ==
  /\ pc[w] = "sent"
  /\ BackToIdle(w)
  /\ UNCHANGED <<now, rows, order, queueVars, lockVars, jobs, faults>>

-----------------------------------------------------------------------------
(* Crash and restart of a worker: everything in memory is lost. *)

Crash(w) ==
  /\ faults < MaxFaults
  /\ pc[w] # "down"
  /\ pc' = [pc EXCEPT ![w] = "down"]
  /\ work' = [work EXCEPT ![w] = NoWork]
  /\ queue' = [queue EXCEPT ![w] = {}]
  /\ sequence' = [sequence EXCEPT ![w] = 0]
  /\ requests' = [requests EXCEPT ![w] = {}]
  /\ DropSession(w)
  /\ faults' = faults + 1
  /\ UNCHANGED <<now, rows, order, jobs>>

Restart(w) ==
  /\ pc[w] = "down"
  /\ pc' = [pc EXCEPT ![w] = "idle"]
  /\ session' = [session EXCEPT ![w] = TRUE]
  /\ UNCHANGED <<now, rows, order, work, queueVars, held, lingering, jobs, faults>>

-----------------------------------------------------------------------------
(* Recovery sweep and reconciliation: read a row and decide, save later. *)

\* Two processes may plan the very same save.
Plan(c, cmd, expected) ==
  /\ \E p \in 1 .. MaxJobs :
       /\ \A j \in jobs[c] : j.by # p
       /\ jobs' = [jobs EXCEPT ![c] = @ \cup {[by |-> p, command |-> cmd,
                                              expected |-> expected]}]
  /\ UNCHANGED <<now, rows, order, pc, work, queueVars, lockVars, faults>>

Sweep(c) ==
  /\ IsStale(rows[c], now)
  /\ CanTransition(rows[c], RecoveryState(rows[c]), now, FALSE)
  /\ Plan(c, Transition(rows[c], RecoveryState(rows[c])), rows[c].state)

\* Whether the broker's history shows the order; a refused one may leave none.
Findable(o) == CASE o.status = "none" -> {FALSE}
                 [] o.status = "refused" -> BOOLEAN
                 [] OTHER -> {TRUE}

Reconcile(c) ==
  /\ rows[c].state = "UNKNOWN"
  /\ \E found \in Findable(order[c]) :
       \E s \in ResolvedState(rows[c], found, order[c].status = "live", order[c].filled) :
         /\ CanTransition(rows[c], s, now, TRUE)
         /\ Plan(c, Transition(rows[c], s), "UNKNOWN")

SaveRecovery(c) ==
  /\ \E j \in jobs[c] :
       /\ jobs' = [jobs EXCEPT ![c] = @ \ {j}]
       /\ \/ CanSave(c, j.command, j.expected) /\ Save(c, j.command)
          \/ ~CanSave(c, j.command, j.expected) /\ UNCHANGED rows
  /\ UNCHANGED <<now, order, pc, work, queueVars, lockVars, faults>>

\* The process that planned the save dies first.
LoseRecovery(c) ==
  /\ faults < MaxFaults
  /\ \E j \in jobs[c] : jobs' = [jobs EXCEPT ![c] = @ \ {j}]
  /\ faults' = faults + 1
  /\ UNCHANGED <<now, rows, order, pc, work, queueVars, lockVars>>

-----------------------------------------------------------------------------
(* The broker and the clock *)

BrokerFill(c) ==
  /\ order[c].status = "live"
  /\ order' = [order EXCEPT ![c].filled = @ + 1,
                            ![c].status = IF order[c].filled + 1 = order[c].quantity
                                          THEN "done" ELSE "live"]
  /\ UNCHANGED <<now, rows, pc, work, queueVars, lockVars, jobs, faults>>

\* The rest of the order is cancelled or expires at the broker.
BrokerClose(c) ==
  /\ order[c].status = "live"
  /\ order' = [order EXCEPT ![c].status = "done"]
  /\ UNCHANGED <<now, rows, pc, work, queueVars, lockVars, jobs, faults>>

\* A worker that has decided to send does so within SendBound.
Prompt(w) ==
  pc[w] \in {"decided", "submitting", "requested"}
    /\ work[w].command.state = "SUBMITTING" =>
      now < work[w].command.submitting_at + SendBound

Tick ==
  /\ now < MaxTime
  /\ \A w \in Worker : Prompt(w)
  /\ now' = now + 1
  /\ UNCHANGED <<rows, order, pc, work, queueVars, lockVars, jobs, faults>>

-----------------------------------------------------------------------------
Positions == 1 .. MaxPosition

LockStep(w) == AcquireLock(w) \/ LoseSession(w)

DispatchStep(w) ==
  \/ DispatchStart(w)
  \/ AlreadyClosed(w)
  \/ DispatchDropped(w)
  \/ \E position \in Positions :
       \/ RevalidationRejected(w, position)
       \/ ExpiredBeforeSend(w, position)
       \/ ConfirmSend(w, position)

SendStep(w) ==
  \/ SaveDispatch(w)
  \/ StartRequest(w)
  \/ \E status \in {"live", "refused"} : OrderSend(w, status)
  \/ SaveResponse(w)
  \/ LoseResponse(w)

Next ==
  \/ \E w \in Worker :
       \/ LockStep(w)
       \/ \E c \in Command : ClaimNext(w, c)
       \/ DispatchStep(w)
       \/ SendStep(w)
       \/ Crash(w)
       \/ Restart(w)
  \/ \E c \in Command :
       \/ Sweep(c)
       \/ Reconcile(c)
       \/ SaveRecovery(c)
       \/ LoseRecovery(c)
       \/ BrokerFill(c)
       \/ BrokerClose(c)
  \/ EndSession
  \/ Tick

Spec == Init /\ [][Next]_vars

\* Live workers run their straight-line code, the sweep and reconciliation are
\* scheduled again and again, the broker closes the orders it works and time
\* passes.  Nothing is assumed of claims, of the lock or of restarts.
Fairness ==
  /\ WF_vars(Tick)
  /\ \A w \in Worker : WF_vars(SendStep(w))
  /\ \A c \in Command : /\ WF_vars(Sweep(c) \/ Reconcile(c))
                        /\ WF_vars(SaveRecovery(c))
                        /\ WF_vars(BrokerClose(c))

FairSpec == Spec /\ Fairness

-----------------------------------------------------------------------------
(* Properties *)

TypeOK ==
  /\ now \in Nat
  /\ rows \in [Command -> ExecutionCommand]
  /\ order \in [Command -> BrokerOrder]
  /\ pc \in [Worker -> PC]
  /\ work \in [Worker -> Work \cup {NoWork}]
  /\ \A w \in Worker : pc[w] \notin {"down", "idle"} => work[w] \in Work
  /\ queue \in [Worker -> SUBSET QueuedCommand]
  /\ sequence \in [Worker -> Nat]
  /\ requests \in [Worker -> SUBSET Request]
  /\ session \in [Worker -> BOOLEAN]
  /\ held \in [Worker -> BOOLEAN]
  /\ lingering \in BOOLEAN
  /\ jobs \in [Command -> SUBSET Job]
  /\ faults \in Nat

\* However workers crash, lose their lease or lock or are overtaken by the
\* sweep, order_send is called at most once for a command
\* (state_machine.py: SUBMITTING is never reclaimed as READY).
AtMostOneSend == \A c \in Command : order[c].sends <= 1

\* Why: from the saved SUBMITTING on, the row names the worker whose call it is.
\* Only a claim or that worker's own copy can write a claim's owner, a sweep can
\* return to READY only what is still CLAIMED, and whatever is READY or CLAIMED
\* was never sent.
Submitting(w) == pc[w] \in {"submitting", "requested", "sent"}
Unsubmitted == {"READY", "CLAIMED"}

RowsOwned ==
  \A c \in Command : rows[c].state # "READY" => rows[c].claimed_by \in Worker
QueueOwned ==
  \A w \in Worker : \A e \in queue[w] :
    e.command.state = "CLAIMED" /\ e.command.claimed_by = w
WorkOwned ==
  \A w \in Worker :
    /\ pc[w] \notin {"down", "idle"} => work[w].command.claimed_by = w
    /\ pc[w] = "selected" => work[w].command.state = "CLAIMED"
    /\ pc[w] = "decided" => work[w].command.state \in {"SUBMITTING", "CANCELLED", "EXPIRED"}
    /\ Submitting(w) => work[w].command.state = "SUBMITTING"
JobsOwned ==
  \A c \in Command : \A j \in jobs[c] :
    /\ j.command.state # "CLAIMED"
    /\ j.command.state = "READY" => j.expected = "CLAIMED"
    /\ j.command.state # "READY" => j.command.claimed_by \in Worker
SubmissionOwned ==
  \A w \in Worker : Submitting(w) =>
    /\ rows[work[w].id].claimed_by = w
    /\ rows[work[w].id].state \notin Unsubmitted
UnsentUntilSent ==
  /\ \A c \in Command : rows[c].state \in Unsubmitted => order[c].sends = 0
  /\ \A w \in Worker : pc[w] \in {"submitting", "requested"} => order[work[w].id].sends = 0

\* The step from saving SUBMITTING to order_send belongs to one claim: the
\* inductive form of AtMostOneSend.
SendOwnership ==
  /\ RowsOwned
  /\ QueueOwned
  /\ WorkOwned
  /\ JobsOwned
  /\ SubmissionOwned
  /\ UnsentUntilSent
  /\ AtMostOneSend

\* A command is marked SUBMITTING only before its signal and its claim lease
\* expire, though the broker round-trip of dispatch lets time pass after the
\* first check (queue.py: "processing must not send what expired meanwhile").
SubmittedInTime ==
  \A c \in Command :
    rows[c].submitting_at # NoTime =>
      /\ ~SignalExpired(c, rows[c].submitting_at)
      /\ rows[c].submitting_at < rows[c].claim_expires_at

\* Its inductive form: every copy of a command, in a queue, a worker's hands or a
\* recovery process, was submitted in time under the claim it carries.
Timely(c, cmd) ==
  /\ cmd.submitting_at # NoTime =>
       /\ ~SignalExpired(c, cmd.submitting_at)
       /\ cmd.submitting_at < cmd.claim_expires_at
  /\ cmd.state \in Unsubmitted => cmd.submitting_at = NoTime
  /\ cmd.state = "CLAIMED" => cmd.claim_expires_at # NoTime

RowsTimely == \A c \in Command : Timely(c, rows[c])
QueueTimely == \A w \in Worker : \A e \in queue[w] : Timely(e.id, e.command)
WorkTimely ==
  \A w \in Worker : pc[w] \notin {"down", "idle"} => Timely(work[w].id, work[w].command)
JobsTimely == \A c \in Command : \A j \in jobs[c] : Timely(c, j.command)

CopiesTimely == RowsTimely /\ QueueTimely /\ WorkTimely /\ JobsTimely

\* What the row says of the broker is what the broker did, with the quantity
\* the broker was sent: nothing is at the broker before SUBMITTING or after a
\* command expired or was resolved as never sent; FILLED, PARTIAL_FILL and
\* CANCELLED are never contradicted by the order, now or later.
BrokerAgrees ==
  \A c \in Command :
    /\ rows[c].state \in {"READY", "CLAIMED", "EXPIRED"} => order[c].status = "none"
    /\ rows[c].state = "REJECTED" => order[c].status \in {"none", "refused"}
    /\ rows[c].state = "CANCELLED" => order[c].status # "live" /\ order[c].filled = 0
    /\ rows[c].state = "FILLED" => /\ order[c].status = "done"
                                  /\ order[c].filled = rows[c].quantity
    /\ rows[c].state = "PARTIAL_FILL" => order[c].filled > 0
    /\ order[c].status # "none" => order[c].quantity = rows[c].quantity

\* Requests recorded in one window never exceed the limits.
WithinLimits(recorded) ==
  \A r \in recorded :
    LET window == {q \in Recent(recorded, r.at) : q.at <= r.at}
    IN  /\ Cardinality({q \in window : MarketEntry(q.id)}) <= EntryLimit
        /\ Cardinality({q \in window : SymbolOf[q.id] = SymbolOf[r.id]}) <= SymbolLimit

\* One dispatcher process keeps the broker's limits, though allows() looks
\* before the broker round-trip and record() writes after it.
ProcessRateKept == \A w \in Worker : WithinLimits(requests[w])

\* queue.py:11: the single dispatcher lock is there so that several processes
\* with a rate limiter each do not exceed the broker's limits together.
SystemRateKept == WithinLimits(UNION {requests[w] : w \in Worker})

\* reconciliation.py:76: a command resolved as REJECTED had no side effect.
RejectedMeansNoSideEffect ==
  \A c \in Command :
    rows[c].state = "REJECTED" => order[c].status \in {"none", "refused"}

\* A claim changes hands only by being released: whatever a worker or a sweep
\* saves keeps the owner and the lease of the claim in the row
\* (postgres.py: an old worker cannot overwrite a newer claim).
ClaimGenerationKept ==
  [][\A c \in Command :
       rows[c].state = "CLAIMED" /\ rows'[c] # rows[c] /\ rows'[c].state # "READY" =>
         /\ rows'[c].claimed_by = rows[c].claimed_by
         /\ rows'[c].claim_expires_at = rows[c].claim_expires_at]_vars

\* A claim is released only after its own lease has expired, even by a sweep
\* that read an earlier claim of the same command.
LeaseRespected ==
  [][\A c \in Command :
       rows[c].state = "CLAIMED" /\ rows'[c].state = "READY" =>
         LeaseExpired(rows[c], now)]_vars

\* A market entry is chosen while an exit waits only if the exit itself is
\* over its symbol's limit: entries that wait for their own window never hold
\* an exit back.
ExitsFirst ==
  [][\A w \in Worker :
       pc[w] = "idle" /\ pc'[w] = "selected" /\ MarketEntry(work'[w].id) =>
         \A e \in queue[w] : Exit(e.id) =>
           Cardinality({r \in Recent(requests[w], now) :
                          SymbolOf[r.id] = SymbolOf[e.id]}) >= SymbolLimit]_vars

\* A dispatcher keeps the broker's limits, and never at the cost of an exit.
DispatchOrderly == []ProcessRateKept /\ ExitsFirst

\* A resolved command stays resolved.
TerminalIsFinal ==
  [][\A c \in Command : rows[c].state \in Terminal => rows'[c] = rows[c]]_vars

\* Every claim is used, released or resolved.
ClaimsEnd == \A c \in Command :
  rows[c].state = "CLAIMED" ~> rows[c].state # "CLAIMED"

\* No command stays SUBMITTING or UNKNOWN: the response is saved, or the sweep
\* and reconciliation find out what became of it.
SubmissionsEnd == \A c \in Command :
  rows[c].state \in {"SUBMITTING", "UNKNOWN"}
    ~> rows[c].state \notin {"SUBMITTING", "UNKNOWN"}

\* No command is stuck, whoever died over it (claim.py, recovery_state).
CommandsEnd == ClaimsEnd /\ SubmissionsEnd

\* The refinement: a command is closed when its row is terminal.
Effect == INSTANCE CommandEffect WITH
  sends <- [c \in Command |-> order[c].sends],
  filled <- [c \in Command |-> order[c].filled],
  closed <- [c \in Command |-> rows[c].state \in Terminal]

\* Each step of workers, sweep, reconciliation and broker is at most one of
\* send once, fill, close: after a terminal row nothing reaches the broker and
\* nothing fills (reconciliation.py: no resolution "could be contradicted by a
\* later fill").
ImplementsEffect == Effect!Spec
=============================================================================
