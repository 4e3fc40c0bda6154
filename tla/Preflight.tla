------------------------------ MODULE Preflight ------------------------------
(***************************************************************************)
(* The preflight of a demo connection (execution/mt5/preflight.py): the    *)
(* checks of the account, then a trade cycle with real orders -- open,     *)
(* verify, reduce, close -- and a probe that waits for the broker to fire  *)
(* a stop loss.  The broker may fill in part, refuse, lose its answer,     *)
(* answer without an order id, fire a stop at any time, and hide a fresh   *)
(* position from a select; any call may raise, and nobody catches it.      *)
(*                                                                         *)
(* Prices are left out: whether protection was stored is a choice of the   *)
(* broker.  Bounds: the units of the two orders, Closes tries.             *)
(***************************************************************************)
EXTENDS Integers, FiniteSets

CONSTANTS
  VolumeMin, VolumeStep,
  Closes                  \* range(4) in the code

VARIABLES
  pc,
  account,    \* what the terminal says of the account, fixed for a run
  pos,        \* ticket -> units at the broker; "held" is not the run's
  hidden,     \* tickets a select does not return yet
  dealt,      \* position identifiers of the deals with the run's magic
  fired,      \* tickets with a deal of a protection reason
  failed,     \* some step did not pass
  ticket,     \* the order id of the answer, or NoTicket
  before,     \* pre_existing
  chase,      \* tickets the cleanup still has to close
  fresh,      \* units of the last select
  tries

vars == <<pc, account, pos, hidden, dealt, fired, failed, ticket, before, chase, fresh, tries>>

NoTicket == "0"
Ticket == {"held", "cycle", "probe"}
Own == {"cycle", "probe"}
CycleUnits == VolumeMin + VolumeStep

Init ==
  /\ pc = "connect"
  /\ account \in [mode : {"HEDGING", "NETTING"}, expected : {"HEDGING", "NETTING"},
                  trade : {"DEMO", "REAL"}, cycle : BOOLEAN, held : {0, VolumeMin}]
  /\ pos = [t \in Ticket |-> IF t = "held" THEN account.held ELSE 0]
  /\ hidden = {} /\ dealt = {} /\ fired = {}
  /\ failed = FALSE
  /\ ticket = NoTicket /\ before = {} /\ chase = {}
  /\ fresh = 0 /\ tries = 0

-----------------------------------------------------------------------------
(* The terminal, as the adapter shows it *)

Open == {t \in Ticket : pos[t] > 0}
Select(t) == IF t \in Ticket \ hidden THEN pos[t] ELSE 0

\* An answer to an order of n units: DONE_PARTIAL is less than all of it; behind any
\* other code, or none, anything may have happened.
Answer(n) ==
  {a \in [retcode : {"DONE", "DONE_PARTIAL", "OTHER"}, units : 0 .. n, id : BOOLEAN] :
     /\ a.retcode = "DONE" => a.units = n
     /\ a.retcode = "DONE_PARTIAL" => a.units \in 1 .. n - 1}

\* A netting account has one position: an order merges into it.
Lands(t) == IF account.mode = "NETTING" /\ Open # {} THEN CHOOSE s \in Open : TRUE ELSE t

Buy(t, a) ==
  /\ pos' = [pos EXCEPT ![Lands(t)] = @ + a.units]
  /\ dealt' = IF a.units > 0 THEN dealt \cup {Lands(t)} ELSE dealt
  /\ hidden' \in {hidden, hidden \cup {Lands(t)}}
  /\ ticket' = IF a.id THEN t ELSE NoTicket
  /\ before' = Open

\* Mutant: an accepted order is taken for a flat position.
Remaining_Accepted(t, a) == IF a.retcode = "OTHER" THEN fresh ELSE 0
\* What is known of the position after a sell: a fresh select, unless it was refused.
Remaining(t, a) == IF a.retcode = "OTHER" THEN fresh ELSE pos'[t]

\* One round of the closing loops, of the units last seen; what is not there any
\* more is not sold.
Sell(t, a) ==
  /\ a \in Answer(fresh) /\ a.units <= pos[t]
  /\ pos' = [pos EXCEPT ![t] = @ - a.units]
  /\ fresh' = Remaining(t, a)
  /\ tries' = tries + 1
LoopEnds(a) == a.retcode = "OTHER" \/ fresh' = 0 \/ tries' = Closes

BrokerFires(t) ==
  /\ t \in Own \ hidden /\ pos[t] > 0
  /\ \E n \in 1 .. pos[t] : pos' = [pos EXCEPT ![t] = @ - n]
  /\ fired' = fired \cup {t}
  /\ UNCHANGED <<pc, account, hidden, dealt, failed, ticket, before, chase, fresh, tries>>

BrokerShows ==
  /\ hidden # {} /\ hidden' = {}
  /\ UNCHANGED <<pc, account, pos, dealt, fired, failed, ticket, before, chase, fresh, tries>>

-----------------------------------------------------------------------------
(* run_preflight and _trade_cycle *)

Step(ok) == failed' = (failed \/ ~ok)
At(here, there) == pc = here /\ pc' = there

\* The steps before the trade cycle: a mode mismatch disables execution, and no
\* order goes to an account that is not a demo one.
Connect(connected, visible, specified) ==
  /\ pc = "connect"
  /\ LET matches == account.mode = account.expected
         demo == account.trade = "DEMO"
         goesOn == connected /\ visible
     IN  /\ Step(/\ connected /\ visible /\ specified /\ matches
                 /\ goesOn /\ account.cycle => demo)
         /\ pc' = IF goesOn /\ account.cycle /\ demo /\ matches THEN "open" ELSE "finish"
  /\ UNCHANGED <<account, pos, hidden, dealt, fired, ticket, before, chase, fresh, tries>>

Refuses == account.mode = "NETTING" /\ Open # {}

OpenRefused ==
  /\ At("open", "finish")
  /\ Step(FALSE)     \* the symbol is not flat, or has no tick
  /\ UNCHANGED <<account, pos, hidden, dealt, fired, ticket, before, chase, fresh, tries>>

OpenCycle(a) ==
  /\ pc = "open" /\ ~Refuses
  /\ a \in Answer(CycleUnits)
  /\ Buy("cycle", a)
  /\ Step(a.retcode # "OTHER")
  /\ pc' = IF a.retcode = "OTHER" THEN "cleanup" ELSE "identify"
  /\ UNCHANGED <<account, fired, chase, fresh, tries>>

\* Three selects: a position that does not show is cleaned up, and the run failed.
Identify ==
  /\ pc = "identify"
  /\ Step(Select(ticket) > 0)
  /\ pc' = IF Select(ticket) > 0 THEN "protect" ELSE "cleanup"
  /\ UNCHANGED <<account, pos, hidden, dealt, fired, ticket, before, chase, fresh, tries>>

\* The stored SL and TP after the open and after the change of them.
Protect(stored, modified) ==
  /\ At("protect", "reduce")
  /\ Step(stored /\ modified)
  /\ UNCHANGED <<account, pos, hidden, dealt, fired, ticket, before, chase, fresh, tries>>

Reduce(a) ==
  /\ At("reduce", "fresh")
  /\ a \in Answer(VolumeStep) /\ a.units <= pos[ticket]
  /\ pos' = [pos EXCEPT ![ticket] = @ - a.units]
  /\ Step(a.retcode = "DONE")
  /\ UNCHANGED <<account, hidden, dealt, fired, ticket, before, chase, fresh, tries>>

Fresh ==
  /\ pc = "fresh"
  /\ fresh' = Select(ticket) /\ tries' = 0
  /\ Step(fresh' > 0)
  /\ pc' = IF fresh' > 0 THEN "close" ELSE "finish"
  /\ UNCHANGED <<account, pos, hidden, dealt, fired, ticket, before, chase>>

Close(a) ==
  /\ pc = "close"
  /\ Sell(ticket, a)
  /\ IF LoopEnds(a)
     THEN Step(fresh' = 0) /\ pc' = "history"
     ELSE UNCHANGED <<failed, pc>>
  /\ UNCHANGED <<account, hidden, dealt, fired, ticket, before, chase>>

History(complete) ==
  /\ At("history", "probe")
  /\ Step(complete)
  /\ UNCHANGED <<account, pos, hidden, dealt, fired, ticket, before, chase, fresh, tries>>

-----------------------------------------------------------------------------
(* _protection_fill_probe *)

ProbeRefused ==
  /\ At("probe", "finish")
  /\ Step(FALSE)
  /\ UNCHANGED <<account, pos, hidden, dealt, fired, ticket, before, chase, fresh, tries>>

OpenProbe(a) ==
  /\ pc = "probe"
  /\ a \in Answer(VolumeMin)
  /\ Buy("probe", a)
  /\ LET watched == a.retcode # "OTHER" /\ a.id
     IN  Step(watched) /\ pc' = IF watched THEN "watch" ELSE "cleanup"
  /\ UNCHANGED <<account, fired, chase, fresh, tries>>

Confirmed == Select(ticket) = 0 /\ ticket \in fired

StopSeen ==
  /\ At("watch", "finish")
  /\ Confirmed
  /\ UNCHANGED <<account, pos, hidden, dealt, fired, failed, ticket, before, chase, fresh, tries>>

\* The wait is over: what is still there is closed, what does not show is looked for.
StopNotSeen ==
  /\ At("watch", "cleanup")
  /\ ~Confirmed
  /\ Step(FALSE)
  /\ ticket' = IF Select(ticket) > 0 THEN ticket ELSE NoTicket
  /\ UNCHANGED <<account, pos, hidden, dealt, fired, before, chase, fresh, tries>>

-----------------------------------------------------------------------------
(* _cleanup_leftover_ticket and _close_until_flat *)

\* The ticket of the answer or, without one, the positions the deals of the run name
\* and that were not there before; a history that lags names none.
Cleanup(shown) ==
  /\ pc = "cleanup"
  /\ chase' = IF ticket # NoTicket THEN {ticket} ELSE IF shown THEN dealt \ before ELSE {}
  /\ pc' = IF chase' = {} THEN "finish" ELSE "chase"
  /\ UNCHANGED <<account, pos, hidden, dealt, fired, failed, ticket, before, fresh, tries>>

Candidate(t) ==
  /\ pc = "chase" /\ t \in chase
  /\ fresh' = Select(t) /\ tries' = 0
  /\ IF fresh' > 0
     THEN ticket' = t /\ pc' = "flatten" /\ UNCHANGED chase
     ELSE /\ chase' = chase \ {t}
          /\ pc' = IF chase' = {} THEN "finish" ELSE "chase"
          /\ UNCHANGED ticket
  /\ UNCHANGED <<account, pos, hidden, dealt, fired, failed, before>>

Flatten(a) ==
  /\ pc = "flatten"
  /\ Sell(ticket, a)
  /\ IF LoopEnds(a)
     THEN /\ Step(fresh' = 0)
          /\ chase' = chase \ {ticket}
          /\ pc' = IF chase' = {} THEN "finish" ELSE "chase"
     ELSE UNCHANGED <<failed, pc, chase>>
  /\ UNCHANGED <<account, hidden, dealt, fired, ticket, before>>

Finish ==
  /\ At("finish", "finished")
  /\ UNCHANGED <<account, pos, hidden, dealt, fired, failed, ticket, before, chase, fresh, tries>>

\* MT5ConnectionError from any call after the first: no report.
Raises ==
  /\ pc \notin {"connect", "finish", "finished", "raised"} /\ pc' = "raised"
  /\ UNCHANGED <<account, pos, hidden, dealt, fired, failed, ticket, before, chase, fresh, tries>>

Next ==
  \/ \E c, v, s \in BOOLEAN : Connect(c, v, s)
  \/ OpenRefused \/ ProbeRefused
  \/ \E a \in UNION {Answer(n) : n \in 1 .. CycleUnits} :
       OpenCycle(a) \/ Reduce(a) \/ Close(a) \/ OpenProbe(a) \/ Flatten(a)
  \/ Identify \/ Fresh
  \/ \E s, m \in BOOLEAN : Protect(s, m)
  \/ \E c \in BOOLEAN : History(c) \/ Cleanup(c)
  \/ StopSeen \/ StopNotSeen
  \/ \E t \in Ticket : Candidate(t) \/ BrokerFires(t)
  \/ BrokerShows
  \/ Finish \/ Raises

Spec == Init /\ [][Next]_vars

-----------------------------------------------------------------------------
(* Properties *)

\* Whatever the broker does, a report that passed leaves no position of the run's
\* open, and no run touches a position it did not open ("the preflight never leaves
\* exposure", "no matter how recently they were opened, they are not ours").
LeavesNoTrace ==
  /\ pc = "finished" /\ ~failed => \A t \in Own : pos[t] = 0
  /\ pos["held"] = account.held
=============================================================================
