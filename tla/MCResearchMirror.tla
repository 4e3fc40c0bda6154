-------------------------- MODULE MCResearchMirror --------------------------
(***************************************************************************)
(* What is kept in the databases, for TLC: the research mirror             *)
(* (ResearchMirror), the row and history of a command (CommandStore), the  *)
(* account snapshots (AccountSeries); and what is made of it: a research   *)
(* backtest over stored ticks (ResearchRun) and the trials of a repeated   *)
(* one (ExecutionEnsemble).  A behaviour runs one of them (part); the      *)
(* others stay in an initial state.                                        *)
(***************************************************************************)
EXTENDS ResearchMirror, TLC

CONSTANTS
  eurusd, usdjpy, w1, w2,
  LeaseSeconds, SubmittingTimeout, Quantities, StoreTime, MaxRevision, \* CommandStore
  Labels, Archives, Periods, Tolerance, ClosedDays, Ahead, MaxChanges, \* ResearchRun
  Levels, Results, Rolling, LossWindow, AccountTime, MaxDeals, \* AccountSeries
  Trials, MaxParallel,                    \* ExecutionEnsemble
  DayLength                               \* of AccountSeries and ResearchRun

ASSUME StoreAssumption ==
  /\ LeaseSeconds \in Nat /\ SubmittingTimeout \in Nat
  /\ Quantities \subseteq Nat

\* What a cycle reads reaches back to the start of the day and of the rolling window.
ASSUME AccountAssumption ==
  /\ Levels \subseteq Int /\ Rolling \in Nat /\ LossWindow \in Nat
  /\ DayLength \in Nat \ {0} /\ DayLength <= LossWindow /\ Rolling <= LossWindow

ASSUME RunAssumption ==
  /\ Labels \subseteq Int /\ Ahead \in Int /\ DayLength \in Nat \ {0}
  /\ \A stored \in Archives : stored \subseteq Int /\ IsFiniteSet(stored)
  /\ \A period \in Periods : period \in [start : Int, end : Int, warmup : Nat]

ASSUME EnsembleAssumption == Trials \in Nat \ {0} /\ MaxParallel \in Nat \ {0}

VARIABLES
  part,
  storeClock, row, observations, copy,                 \* CommandStore
  accountClock, equity, deals, series, sample, losses, \* AccountSeries
  archive, gates, swaps, git, replay, reports, altered, \* ResearchRun
  head, data, parent, parallel, status, disk, nextTrial, nextResult, thread, child, exit,
  started, returned, gathered, finished, baseline, stopping, interrupted \* ExecutionEnsemble

storeVars == <<storeClock, row, observations, copy>>
accountVars == <<accountClock, equity, deals, series, sample, losses>>
replayVars == <<archive, gates, swaps, git, replay, reports, altered>>
trialVars == <<head, data, parent, parallel, status, disk, nextTrial, nextResult, thread, child,
               exit, started, returned, gathered, finished, baseline, stopping, interrupted>>

\* Clients that save every transition they make.
Store == INSTANCE CommandStore WITH
  Worker <- Writer, Client <- Writer, MaxTime <- StoreTime, MaxHops <- 1, now <- storeClock

Accounts == INSTANCE AccountSeries WITH
  MaxTime <- AccountTime, now <- accountClock, rows <- series

Replays == INSTANCE ResearchRun WITH
  ticks <- archive, rows <- gates, run <- replay, directories <- reports,
  changes <- altered

Ensemble == INSTANCE ExecutionEnsemble WITH git <- head, pc <- parent

-----------------------------------------------------------------------------
Distinct == [s \in {eurusd, usdjpy} |-> IF s = eurusd THEN 2 ELSE 1]
T(s, t) == [symbol |-> s, time |-> t]
\* Two days of labels before the weekend (4 and 5) and two after it; the first
\* archive covers every period, the others lack a head, a tail or the middle.
Asked(from, to, warmup) == [start |-> from, end |-> to, warmup |-> warmup]
TwoWeeks == {1, 2, 3, 6, 7, 8}
FourArchives == {{1, 2, 3, 6, 7}, {2, 3, 7}, {1, 2, 3}, {1, 3, 6, 7, 8}}
ThreePeriods == {Asked(2, 8, 1), Asked(5, 8, 3), Asked(6, 9, 0)}
GainAndLoss == {2, -1}
ThreeTicks == {T(eurusd, 1), T(usdjpy, 1), T(usdjpy, 2)}
BothSymbols == <<usdjpy, eurusd>>
WriterSymmetry == Permutations(Writer)

PartsInit ==
  /\ part \in {"mirror", "store", "account", "replay", "trials"}
  /\ part # "replay" => archive = CHOOSE stored \in Archives : TRUE
  /\ Init /\ Store!Init /\ Accounts!Init /\ Replays!Init
  /\ Ensemble!Init
  /\ part # "store" => row.command.quantity = 1
  /\ part # "account" => equity = CHOOSE level \in Levels : TRUE
  /\ part # "trials" => parallel = TRUE

PartsNext ==
  \/ /\ part = "mirror" /\ Next
     /\ UNCHANGED <<part, storeVars, accountVars, replayVars, trialVars>>
  \/ /\ part = "store" /\ Store!Next
     /\ UNCHANGED <<part, vars, accountVars, replayVars, trialVars>>
  \/ /\ part = "account" /\ Accounts!Next
     /\ UNCHANGED <<part, vars, storeVars, replayVars, trialVars>>
  \/ /\ part = "replay" /\ Replays!Next
     /\ UNCHANGED <<part, vars, storeVars, accountVars, trialVars>>
  \/ /\ part = "trials" /\ Ensemble!Next /\ head' + data' <= 1
     /\ UNCHANGED <<part, vars, storeVars, accountVars, replayVars>>

PartsSpec ==
  /\ PartsInit
  /\ [][PartsNext]_<<part, vars, storeVars, accountVars, replayVars, trialVars>>

-----------------------------------------------------------------------------
(* The properties of the parts, in this module's names. *)

\* CommandStore: a command's row and history agree whatever stale clients save.
HistoryFaithful == Store!HistoryFaithful
\* AccountSeries: no loss is hidden by an outage, a crash or a deposit.
LossesHonest == Accounts!LossesHonest
\* ResearchRun: a report's manifest names what was replayed.
RunHonest == Replays!RunHonest
\* ExecutionEnsemble: what succeeded ran on the baseline, and nothing is left running.
EnsembleHonest == Ensemble!EnsembleHonest
=============================================================================
