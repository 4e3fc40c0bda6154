----------------------------- MODULE OmsCommand -----------------------------
(***************************************************************************)
(* The execution command of the OMS and the pure functions over it:        *)
(* domain/order.py (fields and states), oms/state_machine.py (the          *)
(* transition table and its guards), oms/claim.py (claim, submission and   *)
(* recovery of a stale command), oms/reconciliation.py (resolution of      *)
(* UNKNOWN) and the compare-and-set condition of storage/postgres.py.      *)
(*                                                                         *)
(* A command is a record holding the columns save_state writes, as one     *)
(* process sees them: the stored row, or the copy of it a process works    *)
(* on.  Columns that never change after creation are constants of the      *)
(* modules that use them.  claimed_at is left out: it is claim_expires_at  *)
(* minus the lease.                                                        *)
(***************************************************************************)
EXTENDS Integers

CONSTANTS Worker,              \* processes that claim rows
          Nobody,              \* the NULL of claimed_by
          LeaseSeconds,        \* lease_seconds given to claim_next
          SubmittingTimeout    \* DEFAULT_SUBMITTING_TIMEOUT_SECONDS

ASSUME NobodyAssumption == Nobody \notin Worker
ASSUME LeaseAssumption == LeaseSeconds \in Nat \ {0}
ASSUME TimeoutAssumption == SubmittingTimeout \in Nat \ {0}

\* The NULL of a timestamp column.
NoTime == -1
Time == Nat
TimeOrNull == Time \cup {NoTime}

CommandState == {"CREATED", "RISK_APPROVED", "READY", "CLAIMED", "SUBMITTING",
                 "ACKNOWLEDGED", "PARTIAL_FILL", "FILLED", "REJECTED",
                 "CANCELLED", "EXPIRED", "UNKNOWN"}

ExecutionCommand ==
  [state: CommandState,
   state_revision: Nat,
   claimed_by: Worker \cup {Nobody},
   claim_expires_at: TimeOrNull,
   submitting_at: TimeOrNull,
   broker_request_started_at: TimeOrNull,
   quantity: Nat]

-----------------------------------------------------------------------------
(* oms/state_machine.py *)

Allowed ==
  [s \in CommandState |->
     CASE s = "CREATED" -> {"RISK_APPROVED", "REJECTED", "CANCELLED", "EXPIRED"}
       [] s = "RISK_APPROVED" -> {"READY", "CANCELLED", "EXPIRED"}
       [] s = "READY" -> {"CLAIMED", "CANCELLED", "EXPIRED"}
       [] s = "CLAIMED" -> {"SUBMITTING", "READY", "CANCELLED", "EXPIRED", "UNKNOWN"}
       [] s = "SUBMITTING" -> {"ACKNOWLEDGED", "PARTIAL_FILL", "FILLED", "REJECTED",
                               "UNKNOWN"}
       [] s = "ACKNOWLEDGED" -> {"PARTIAL_FILL", "FILLED", "CANCELLED", "REJECTED",
                                 "EXPIRED", "UNKNOWN"}
       [] s = "PARTIAL_FILL" -> {"PARTIAL_FILL", "FILLED", "CANCELLED", "EXPIRED",
                                 "UNKNOWN"}
       [] s = "UNKNOWN" -> {"FILLED", "PARTIAL_FILL", "CANCELLED", "REJECTED",
                            "EXPIRED"}
       [] OTHER -> {}]

Terminal == {"FILLED", "REJECTED", "CANCELLED", "EXPIRED"}

LeaseExpired(cmd, now) ==
  cmd.claim_expires_at # NoTime /\ now >= cmd.claim_expires_at

\* transition raises InvalidTransition unless this holds.
CanTransition(cmd, new, now, viaReconciliation) ==
  /\ new \in Allowed[cmd.state]
  /\ cmd.state = "UNKNOWN" => viaReconciliation
  /\ cmd.state = "CLAIMED" /\ new = "READY" =>
       LeaseExpired(cmd, now) /\ cmd.broker_request_started_at = NoTime

\* The copy transition returns when it does not raise.
Transition(cmd, new) ==
  [cmd EXCEPT !.state = new,
              !.state_revision = @ + 1,
              !.claimed_by = IF new = "READY" THEN Nobody ELSE @,
              !.claim_expires_at = IF new = "READY" THEN NoTime ELSE @]

-----------------------------------------------------------------------------
(* oms/claim.py *)

\* Mutant: the lease is subtracted.
MarkClaimed_LeaseBackwards(cmd, w, now) ==
  [Transition(cmd, "CLAIMED") EXCEPT !.claimed_by = w,
                                     !.claim_expires_at = now - LeaseSeconds]

MarkClaimed(cmd, w, now) ==
  [Transition(cmd, "CLAIMED") EXCEPT !.claimed_by = w,
                                     !.claim_expires_at = now + LeaseSeconds]

MarkSubmitting(cmd, now) ==
  [Transition(cmd, "SUBMITTING") EXCEPT !.submitting_at = now]

MarkBrokerRequestStarted(cmd, now) ==
  [cmd EXCEPT !.broker_request_started_at = now]

\* "submitting_at or broker_request_started_at"
SubmissionStart(cmd) ==
  IF cmd.submitting_at # NoTime THEN cmd.submitting_at
                                ELSE cmd.broker_request_started_at

\* SUBMITTING without a timestamp is stale at once: nobody can be in flight.
SubmissionStale(cmd, now) ==
  \/ SubmissionStart(cmd) = NoTime
  \/ now >= SubmissionStart(cmd) + SubmittingTimeout

IsStale_SubmissionsOnly(cmd, now) == cmd.state = "SUBMITTING" /\ SubmissionStale(cmd, now)

\* recovery_state is None unless this holds ...
IsStale(cmd, now) ==
  \/ cmd.state = "CLAIMED" /\ LeaseExpired(cmd, now)
  \/ cmd.state = "SUBMITTING" /\ SubmissionStale(cmd, now)

\* ... and is this state when it does.
RecoveryState(cmd) ==
  IF cmd.state = "CLAIMED" /\ cmd.broker_request_started_at = NoTime
  THEN "READY" ELSE "UNKNOWN"

-----------------------------------------------------------------------------
(* oms/reconciliation.py *)

\* Mutant: resolves while the order is still working.
ResolvedState_IgnoresLive(cmd, found, live, filled) ==
  IF filled >= cmd.quantity THEN {"FILLED"}
  ELSE IF filled > 0 THEN {"PARTIAL_FILL"}
  ELSE IF found THEN {"CANCELLED"} ELSE {"REJECTED"}

\* The states resolve_unknown may give an UNKNOWN command; none of them while
\* the broker's order is live and not completely filled.
ResolvedState(cmd, found, live, filled) ==
  CASE filled >= cmd.quantity -> {"FILLED"}
    [] filled < cmd.quantity /\ live -> {}
    [] filled < cmd.quantity /\ ~live /\ filled > 0 -> {"PARTIAL_FILL"}
    [] filled < cmd.quantity /\ ~live /\ filled <= 0 /\ found -> {"CANCELLED"}
    [] OTHER -> {"REJECTED"}

-----------------------------------------------------------------------------
(* storage/postgres.py: the WHERE clause of save_state.  A write that keeps *)
(* a claim also names the claim generation it read.                         *)

SaveMatches_AnyState(row, cmd, expectedState) ==
  row.state_revision <= cmd.state_revision
SaveMatches_StateOnly(row, cmd, expectedState) == row.state = expectedState
SaveMatches_NoRevision(row, cmd, expectedState) ==
  /\ row.state = expectedState
  /\ cmd.claimed_by # Nobody =>
       /\ row.claimed_by = cmd.claimed_by
       /\ row.claim_expires_at = cmd.claim_expires_at

SaveMatches(row, cmd, expectedState) ==
  /\ row.state = expectedState
  /\ row.state_revision <= cmd.state_revision
  /\ cmd.claimed_by # Nobody =>
       /\ row.claimed_by = cmd.claimed_by
       /\ row.claim_expires_at = cmd.claim_expires_at
=============================================================================
