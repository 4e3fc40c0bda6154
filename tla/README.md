# A TLA+ verification of the FX trading platform

The platform (`src/src/trading`, Python) turns strategy signals into orders at an MT5 broker, with
PostgreSQL as the record of commands and market data, and replays recorded ticks through the same
strategy code. These modules model the parts whose correctness depends on the order in which
processes, transactions, files and messages meet, check them with TLC on small instances, and prove
the most important facts with TLAPS for every instance.

## 1. Inventory

| Component (source under `src/src/trading`) | State it keeps | Operations | What is hard | What makes it correct |
|---|---|---|---|---|
| OMS command life cycle (`oms/state_machine.py`, `oms/claim.py`, `domain/order.py`) | one `ExecutionCommand` per order: state, revision, claim, submission times, quantity | `transition`, `mark_claimed`, `mark_submitting`, `mark_broker_request_started`, `recovery_state` | guards depend on lease and time; copies go stale | SUBMITTING is never made READY again; UNKNOWN only ends by reconciliation |
| Dispatch queue (`oms/queue.py`, `oms/rate_limit.py`, `oms/dispatch_lock.py`) | entries, enqueue counter, two request windows, one lock session per process | `enqueue`, `dispatch`, `allows`, `record`, `held` | checks before a broker round-trip, decisions after it; state dies with the process | exits before entries, limits kept, nothing sent late |
| Command repository (`storage/postgres.py` 46–371) | rows of `execution_commands`, `execution_state_observations` | `insert`, `claim_next`, `save_state`, `get`, `in_state` | compare-and-set by stale clients; history written with the row | one owner per claim; history complete and legal |
| Recovery sweep, UNKNOWN reconciliation (`oms/claim.py` 67–97, `oms/reconciliation.py`) | none (reads rows and broker history) | `recovery_state`, `resolve_unknown`, `reconcile_deals` | its read and its save are apart; the broker may still act | the row ends in the broker's truth |
| OMS service (`oms/service.py`) | none | commands from intents, hedging and netting | the netting difference is taken before the queue | the net is what the strategies want |
| Decision cycle (`live/shadow.py`, `strategy/base.py`, `portfolio/*.py`, `risk/*.py`) | set-up memos, ledger, decision trail, latched kill switch | one cycle: dispatch, sizing, arbitration, grading, trail | blocked quotes, an exception in the middle, a book that holds what will be refused | every signal has its verdict; limits hold together; exits pass |
| MT5 preflight (`execution/mt5/preflight.py`) | orders at a real broker | account checks, trade cycle, stop probe | partial fills, lost answers, a position hidden from a select | nothing is left at the broker |
| Tick store (`storage/postgres.py` 480–714) | `market_ticks`, its id sequence, advisory write keys | `insert_many`, `stream_between` | ids and commits in different orders; rows edited mid-replay | a replay reads one settled set |
| Tick collection and import (`data/market/collector.py`, `dukascopy.py`) | a place in the broker's or a server's history | poll, backfill, import | histories that lag; outages, kills, runs repeated | nothing lost, nothing twice |
| Bars (`data/market/bars.py`, `bar_service.py`) | open bucket, resume position | `on_tick`, `build_once`, `backfill` | late ticks, clock steps, restarts | candles without gaps, known when they say |
| Research mirror (`storage/research_mirror.py`) | a research database | `initialize`, `synchronize` | resumes by the largest id it holds, may die anywhere | no gap below that id |
| Account (`data/account`, `risk/limits.py`) | snapshots with a high-water mark | sample, append, measure losses | outages, deposits, deals between two calls | no loss is hidden |
| Facts (`data/macro`, `data/policy`, `data/intervention`, `data/swap`; the events and vintages of `storage/postgres.py`) | vintages, documents, scores, official figures, swaps | collect, archive, upsert | revisions, several collectors, files edited by people | a reader of an instant gets what was known then |
| Features (`data/features.py`, `intelligence/*.py`) | feature store, currency states | refresh, replay timeline | a replay recomputes at scheduled instants only | a replay reads what live would have read |
| Backtest engine and simulator (`backtest/engine.py`, `simulator.py`, `rollover.py`, `costs.py`) | positions, pending orders, barriers, deferred signals, carry, accounts | one tick at a time: fills, protection, signals, rollovers | partial fills and rejections inside a reversal; late ticks | no opposite tickets; ledger, engine and broker agree; accounts are those of the fills |
| Research (`backtest/research.py`, `execution_ensemble.py`, `tokyo_fix_study.py`, `execution_quality_*.py`, the event studies, `data/policy/opinions_review.py`) | frozen inputs, manifests, checkpoints, reports, labels | fetch, freeze, measure, report, review | inputs that change meanwhile, kills, parallel children | a report names what it measured |
| Statistics of the studies, indicators, swing and scalp set-ups, configuration, tunnel | numbers over windows; processes | pure evaluation, plumbing | floating point, I/O | out of a model checker's reach |

Interactions: strategies give signals to the portfolio, which gives intents to arbitration and risk
and then to the OMS service; the service inserts commands; worker processes claim rows, queue them in
memory and dispatch them under one PostgreSQL advisory lock; the sweep and reconciliation write the
same rows; collectors append ticks and facts that bars, decision cycles, replays, studies and the
mirror read. The production worker loop and the scheduler of the sweep are not in the repository:
their order of calls is the contract in the docstring of `oms/queue.py` (lines 1–36), in
`oms/claim.py` and in `docs/SYSTEM_SPEC.md` 8.3–8.5, and what the modules take from it is marked
external.

The hazards of this code are listed, each at its line, in `PROJECT.json`.

## 2. Plan

Done, the most consequential behaviour first: commands and workers; tick store with its two readers;
the replay's book, carry and accounts; candles and what feeds them; the netted account; the decision
cycle; accounts and facts; features; research runs and studies.

Left: `reconcile_deals` with the fills and the kill switch it would trip, once the loop that calls
them is in the repository; the remaining studies; proofs about studies.

## 3. Modules

| Module | Models | Run |
|---|---|---|
| `OmsCommand` | the fields of `ExecutionCommand` that decide anything, `_ALLOWED` with its guards, `claim.py`, `resolve_unknown`, the comparison of `save_state` | (used) |
| `OmsWorkers` | worker processes with their queue (`PriorityFor`, `SortsBefore`, the limiter's two windows, which entry `dispatch` chooses), the rows, the broker's orders, the lock sessions, the sweep and reconciliation, over `OmsCommand` | `crash`, `recovery`, `desk` |
| `CommandEffect` | the abstract promise about a command: its order is sent at most once, only a sent order fills, and a closed command's order no longer changes | refined in `crash` |
| `CommandStore` | `PostgresCommandRepository` under arbitrary, arbitrarily slow clients, with its observation history | `records` |
| `TickTable`, `TickStream` | `market_ticks`, its sequence and write keys, `insert_many`; `stream_between`, with deletes and updates | `ticks` |
| `ResearchMirror` | `synchronize` over `TickTable`, with limits and abandoned runs | `records` |
| `ReplayBook` | the handling of a tick by `BacktestEngine`: command queue, barriers, held signals, the three books; the hedging side of `ExecutionSimulator` | `books` |
| `RolloverCarry` | overnight carry: rollovers due, late ticks, corrections, snapshots of swaps | `books` |
| `ReplayLedger` | profit, snapshots, equity curve, drawdown and metrics of a replay | `ticks` |
| `NettingDesk` | targets of several strategies, `command_for_netting`, `allocate_pro_rata`, the ledger | `books` |
| `Preflight` | the account checks, the trade cycle and the stop probe against a broker that may do anything an answer allows | `books` |
| `PreTradeRisk` | `RiskEngine`, conversion, exposure, the event calendar, as operators | (used) |
| `Arbitration` | `PortfolioArbitrator.select`, as operators | (used) |
| `StrategySetups` | set-up memo, session gate, exit-only signals, horizon exits, as operators | (used) |
| `DecisionCycle` | `ShadowRunner` over its cycles; composes the three modules above | `desk` |
| `BarSeries` | `BarBuilder`, the passes and the backfill of `BarService`, the inserts of `market_bars`, over ticks that keep being committed | `bars` |
| `TickCollector` | polls, history reads and backfills of the terminal | `bars` |
| `TickImport` | the hourly import with its coverage, pauses and repeated runs | `bars` |
| `FixStudy` | fetch, quotes and measure of the Tokyo fix study over its frozen files | `bars` |
| `AccountSeries` | snapshots, high-water mark, the day's result, the three losses | `records` |
| `ResearchRun` | a research backtest from its coverage check to its report | `records` |
| `FeatureTimeline` | `StoredFeatureSource` and `ReplayFeatureTimeline` over rows that keep being inserted | `desk` |
| `EventStudies` | the windows of the policy, intervention and shock studies | `desk` |
| `ExecutionEnsemble` | parallel trials, their checkpoints, interruption and baseline | `records` |
| `ExecutionQuality` | export and measure of an order while it lives on | `desk` |
| `Vintages` | the unchanged-value insert of macro observations, forward collection, ALFRED backfill | `events` |
| `OpinionsArchive` | `collect_opinions`, `insert_raw_archive`, `latest_raw_hash` | `events` |
| `MeetingIngest` | the meetings file, `score_meeting`, the daily ingest, `upsert` | `events` |
| `InterventionIngest` | the ministry's history and pages, `insert_new`, the ingest | `events` |
| `LabelReview` | `ReviewSession` and its server over the file of labels | `events` |
| `MC…` | values for the constants of an instance, and the parts of a run | |
| `…Theorems`, `…Proofs` | lemmas and theorems | |

**OmsWorkers.** A worker's place in its loop is `pc`: `idle`; `selected` (an entry is chosen, the
broker is being asked); `decided` (dispatch answered, nothing saved); `submitting` (SUBMITTING
saved); `requested` (the request start saved, order_send about to be called); `sent` (waiting for the
answer); `down`. Each place is where another process, a crash or the clock can come in between two
statements of the code. A dispatch is `DispatchStart` (lease check, expiry, selection, removal from
the queue) followed by one of `AlreadyClosed`, `RevalidationRejected`, `ExpiredBeforeSend`,
`DispatchDropped`, `ConfirmSend`. The sweep and reconciliation read a row (`Plan`) and save later
(`SaveRecovery`), so that their copy may be stale. `AcquireLock`, `LoseSession`, `EndSession` and
`lingering` are the session-level advisory lock: after an abnormal disconnect the server may hold it
for a while (ADR-032), and between `held()` and order_send a window remains that ADR-032 accepts.

**CommandStore** lets any client make any legal transition on the copy it holds, however old, and
save it; it adds the observations that `OmsWorkers` leaves out.

**TickTable** separates taking each key, inserting each row and committing, because a reader may look
at any of these points. **TickStream** makes the ceiling, the key, the count, each page and the
closing check a transaction each, as in the code: a page is the first rows behind the last one read,
at most `PageRows` of them, and `BatchRows` bounds what one call of a writer inserts. **ResearchMirror** does the same with ceiling, keys,
positions and ranges.

**ReplayBook** follows `handle`, one thread, step by step. `phase` is where the handling of the tick
is: fills, protection, the strategy's signals, fills, protection. `ready` is the snapshot
`_apply_pending` iterates over and `released` the list `_release_deferred` iterates over, so that each
`_fill_pending` and each `_process_signal` is an action of its own; recursion of the code
(`_process_intents` on the rest, `_barrier_step` on the follow-up) happens inside the action that calls
it. A tick carries a received and a broker time and the set of tickets whose stop or target its price
reaches: one set for both protection sweeps of the tick, as the price is the same. A reject, a partial
fill and an approval are choices; one strategy and one symbol make one slot, as in the engine. The
attribution maps of `_RunState` live and die with `openTickets`; `traded` sums the trade records.
Exits always pass the risk engine in a replay because the system state it checks for exits is
constant there (`_pretrade_context`). Prices are `ReplayLedger`'s, which lets any command fill, and
rollovers `RolloverCarry`'s: the label of a rollover lies on the axis of known time in both.

**NettingDesk.** The calls are made in the order the documents and tests make them; nothing in the
repository wires them yet. An exit that is masked by a holder of the opposite side can grow the net
under the label CLOSE, hence without protection (`oms/service.py` 128–138): with A long 3 and B short
1, B's exit takes the net from 2 to 3. The model keeps that, and `OneSideAtATime` names it as the only
fill that enlarges the net without a stop (`Masked`).

**DecisionCycle** makes each write of the trail a step and an exception the end of the process.
Everything of a cycle is read at one frozen instant, so the market and the account change between two
cycles only. In `PreTradeRisk` every price is one and money is counted in hundredths; the three loss
limits are one flag, and `AccountSeries` models them.

**BarSeries** keeps the broker's clock (`time`, which candle) apart from ours (`known`, when it may be
seen), and commits a tick up to `CommitDelay` after its known time was taken. Each SELECT of a pass
is a step: the last candle, the cold start, the two seeks of `_a_bucket_has_closed`, the window. A
candle is the set of ticks folded into it with the quotes that set open and close; `seen` in a row is
a history field, what its reader could see. `stream_between` pins what a backfill reads, which
`TickStream` shows, so its fold is one step and its batches are steps of their own. The clock that
moves back (SYSTEM_SPEC 3.3) cannot be met by reads ordered by `event_time`; the last conjunct of
`BarsHonest` folds the same rows in the order they were received, as the replay engine does.

**Facts.** `Vintages`, `OpinionsArchive`, `MeetingIngest` and `InterventionIngest` separate fetching
from storing, since others store meanwhile, and let a process end between any two statements it
commits. Contents are values; the bank's, the ministry's and the statistics office's sites, and the
people who edit the curated files, are external actions. **LabelReview** does the same with the two
looks at the file and its replacement; the requests of one server are serialised by its lock, so one
request of a server is in progress at a time.

**Studies.** `FixStudy`, `ResearchRun`, `ExecutionEnsemble`, `ExecutionQuality` and `EventStudies`
keep what is frozen, when it is frozen and what may change meanwhile; what is computed from it is a
function left out or, in `EventStudies`, a choice of windows over integer prices.

Definitions with a suffix after an underscore (`SaveMatches_StateOnly`) are plausible bugs: each
property is checked to fail when one of them replaces the definition it is named after.

## 4. Runs

A run with several parts starts each behaviour in one of them (`part`); the other parts stay in one
initial state. Parts share a run only to share its start-up; they do not interact, and each part's
state space is explored completely.

| Run | Module | What it shows |
|---|---|---|
| `crash` | `MCOmsWorkers` | one ticketed close, two workers, two recovery jobs, two faults: at most one send, under the claim that owns the row, in time, quantity as at the broker, leases respected by the sweep, terminal states final, refinement of `CommandEffect` |
| `recovery` | `MCOmsWorkers` | `CommandsEnd`: under fairness no command stays CLAIMED, SUBMITTING or UNKNOWN |
| `handover` | `MCOmsWorkers` | **violation**: the limit fails across two processes when the lock changes hands |
| `late_send` | `MCOmsWorkers` | **violation**: an order reaches the broker after its command was resolved REJECTED |
| `ticks` | `MCTickStream` | nothing surfaces below the pin; appends alone never fail a replay; no deadlock on shared write keys; and, with rows edited, a replay that ends well yielded the settled set in order. `LedgerExact`: a replay's accounts are those of its fills |
| `books` | `MCReplayBook` | `BookWithinRules`, `QueueOrderly`: with late ticks, and protection that closes tickets whose exits are queued, a flip never stacks LONG and SHORT, ledger, tickets and broker book agree, the cap holds, one resolution is in flight, nothing waits for nothing, held signals keep their order. `CarryExact`: each rollover is charged once, at the swap known then. `NettingExact`: shares add up to the net, no order crosses zero, and only the exit of a masked position enlarges the net without a stop. `LeavesNoTrace`: the preflight ends without a position or says so |
| `bars` | `MCBarSeries` | `BarsHonest`, `PassesFlow`: no stored candle is cut or dated before its quotes, whichever path wrote it, and no pass holds back a candle that is over. `QuotesAcquired`: close polls lose nothing, a returned import left out no more than it reports. `ReportHonest`: a fix study's report is that of its frozen bytes |
| `records` | `MCResearchMirror` | mirror without gaps, complete runs; `HistoryFaithful`: row and history of a command agree; `LossesHonest`; `RunHonest`: a manifest names what was replayed; `EnsembleHonest`: trials that succeeded are comparable |
| `desk` | `MCDesk` | `TrailComplete`, `ReversalNotMasked`, `LimitsTogether`, `StrongestWin` of the decision cycle; `ReplayIsLive`; `StudiesHonest` of three studies; `ObservationHonest`; `DispatchOrderly`: exits first, and the limits of one process hold although time passes between `allows` and `record` |
| `blind_sizing` | `MCDecisionCycle` | **violation**: two entries that cannot be sized end the cycle before the second has its verdict |
| `phantom` | `MCDecisionCycle` | **violation**: a refused entry of the other side makes room for one the real book would not allow |
| `events` | `MCEventStore` | `FactsTrue`: vintages never look ahead and are exact after a backfill; one version of a document counts as the announced one and none fetched is lost; scores read are the file's and no meeting is missed; official figures have their page, their date and no holes; no label is replaced that nobody saw |

The four violations are disagreements between a documented sentence and the code; `PROJECT.json`
quotes them under "findings". `handover` and `late_send` concern bounds in time that no lock
enforces: the limiter's memory is per process, and the submitting timeout is not tied to the life of
the thread that sends. `blind_sizing` is an exception raised where an intent that cannot be sized is
valued; `phantom` is a sentence of ADR-029 that holds for entries of one direction only.

**Met while modelling, without a run.** These are excluded from the properties or lie beside them:

- The window of a currency factor lapses at an instant no checkpoint is scheduled for: only the
  expiries of the two-year yield are (`data/features.py` 325–352). `ReplayIsLive` excludes exactly
  this case (`FactorLapsed`).
- A fetch of the fix study killed between the creation and the writing of a day's file leaves an
  empty file that the next run takes for a day without ticks, though the help text says the same
  command resumes (`tokyo_fix_study.py` 262, 717).
- A session of the label review started with `--resume` reads the revision of its file once more at
  its end (`opinions_review.py` 56). A save of another server in between leaves it with older rows
  under the newer revision, and its next save overwrites that label; so may a save between another
  server's second check and its replacement (94–95). `LabelsKept` excludes these two windows
  (`raced`).
- A policy decision inside a hole of the archive is entered at the first close after the hole
  (`policy_event_study.py` 181–203); a later report may shorten a shock window chosen already.
- A research run imports its code before it captures the revision, and writes `manifest.json` first,
  so that a killed run may leave a manifest without its trades.
- The comment in `meetings.py` 118–123 expects a correction to land on ON CONFLICT DO NOTHING; the
  ingest upserts (`collector.py` 65). `insert_new` on the other hand never carries an amended amount
  or a verified recognition to a stored event, which `repository.py` 102–106 gives as the reason for
  upsert. A policy ingest that loaded an older file may overwrite a newer one until the next run.

**Bounds.** In the OMS runs `MaxTime` stops the clock (every lease, timeout and window is 1 or 2
ticks, so several expire within it); `ClaimHorizon` keeps claims early enough that their recovery
falls inside it; `MaxFaults` counts crashes, lost sessions and lost recovery processes; `MaxJobs` the
recovery processes of a command; `MaxPosition` what a fresh select may find. Two workers, one or two
rows and two faults suffice for the races looked for: each hazard is between two holders of one row.
The dispatch part has one worker, two ranked entries of two symbols and a close created last.
`SendBound` is the one assumption on speed: a worker calls order_send within that many ticks of
deciding to submit. In `crash` it is shorter than the submitting timeout; `late_send` removes it.

- `records`: `MaxRevision` and `MaxHops` bound a history, `MaxBatches`, `MaxChanges` and `MaxRuns`
  batches, edits and runs. The mirror has two batches and two runs, where its gaps would already
  show; that none appear for any number is proved (`MirrorHasNoGaps`). An UPDATE of a tick never
  restores an older content: such a change is invisible to the code's fingerprint. An
  ensemble has three trials, two at a time, and one change of the repository or of the ticks.
- `ticks`: batches of at most two rows and pages of two, so that a replay has a full page, a short
  one and an empty one. The accounts have three ticks, two of which may be late, and up to three
  fills; they have no rollover, and their labels lie on the known axis.
- `books`: `MaxSignals` bounds the signals of a replay, hence its tickets: four make two entries of
  one side, a flip over both and a signal held meanwhile. The `Latency` of one keeps a command queued
  past the tick that made it, so that protection may close its ticket first: four instants
  (`MaxTime` 3) fill an entry, flip it, end a leg as a no-op because its ticket is gone, and fill the
  reversal that follows. Ticks are stamped with their instant or the one before, which may be
  too early for a command and for a position. Entries of two units are filled whole or by
  half, which leaves tickets of both sizes. Carry has two tickets over three rollovers, one of them
  the triple day, with snapshots that come late, change, or stop the swap; a day has one instant
  (`DayLength`), as a time between two rollovers compares with both as one of them does. The netted
  account has three strategies of at most three units and four intents; the preflight four tries.
- `bars`: three ticks on five instants of the broker's clock and a width of two make two candles that
  close and a third bucket open; `StepBack` is wider than a bucket, so that stragglers and steps back
  both occur, and the lookback is shorter than the clock's range, so that it cuts buckets; a batch of
  one candle lets a backfill die halfway. The polls see four quotes in three milliseconds, the import
  two days of three hours with at most two hours missing at the server, the fix study four days.
- `desk`: two cycles over a triangle of three pairs and two strategies, which find one
  or two set-ups a cycle, or one both ways, sized above the cap on units and, two together, above
  the budget; the features a table of three rows out of thirteen and
  one inserted under the replay; the studies six instants, each with the moves that its rule can
  tell apart; an order of two units over three instants.
- `events`: one figure with two values, four instants and two collectors; one document with three
  texts over three instants and one whose publication never comes; two scorable meetings and one
  that is not, two edits of the file and two versions of the score; one day and two pages of the
  ministry with one ingest, as interventions of a second would only repeat inserts of the same id;
  two labels, three saves and two servers.

**Deadlock.** All runs say `CHECK_DEADLOCK FALSE`: the clock, the batches, the signals and the runs
are bounded, and a behaviour ends when they are used up. That nobody waits for somebody who waits is
stated by `BatchesEnd`, `CommandsEnd` and `QueueOrderly` instead.

**Fairness.** `recovery` assumes that time passes, that a live worker goes on with its straight-line
code, that sweep and reconciliation are scheduled again and again and finish, and that the broker
ends what it works; nothing is assumed of claims, of the lock or of restarts. `ticks` assumes
that a connection runs its batch and that a waiter of an advisory lock is served in turn, which
PostgreSQL's wait queue does. `bars` assumes that the loop of `BarService.run` goes on; a pass that
dies has written nothing, so passes that die are left out, and that not all of them do is the
assumption. The other runs state no fairness.

## 5. Proofs

The assumptions of every theorem are those on the constants (`…Assumption` in each module), which TLC
evaluates, and what a theorem's own ASSUME names.

**Commands.** `OmsWorkersProofs` opens with lemmas on the record operators of `OmsCommand`: what each
leaves in state, owner and lease. It proves `TypeCorrect` and then `SentAtMostOnce` by the inductive
invariant `SendOwnership`: a row that is not READY names a worker; every copy in a queue, in work or
in a recovery job that is CLAIMED carries its owner; a worker between its saved SUBMITTING and
order_send owns the row; what is READY or CLAIMED was never sent. The invariant is needed because
"sent at most once" alone says nothing of the copies that could still be saved.

It then proves that no command is submitted late (with `CopiesTimely`: no copy outlives the times of
its row), that a claim is only replaced through READY, that terminal states are final, and
`LeaseRespected`: a release that was planned on an expired lease never frees a younger claim. Its
invariant `ReleasesCurrent` says that the copy of a planned release is either of the row's present
claim, whose lease has then expired, or carries a revision behind the row's, so that the
compare-and-set refuses it; without the revision the same owner could have claimed the row again
meanwhile and the release would look right.

Last comes `BrokerAgrees`: what a closed row says (filled, refused, no side effect) is what the broker
did. `BrokerInv` adds that every copy has the quantity of its command, that a sweep cannot have judged
a row whose worker may still call order_send, and that each planned save is a statement the broker can
no longer make untrue. The theorem assumes `SendBound < SubmittingTimeout`, a call that is made before
the sweep gives the row up; the run `late_send` shows that without this it fails. From the same
invariant `WorkersImplementEffect` proves the refinement: each step of the workers, the sweep and the
broker is one step of `CommandEffect` or leaves its three variables alone.

**Ticks.** The last section of `TickTable` proves the writers' invariant `TableInv` (ids come from the sequence; a
row is open only under its symbol's key) and lemmas every reader uses: `FreeKeySettles` (a key found
free after the ceiling was read settles the set) and `SettledKept` (no writer's step changes a settled
set). `TickStreamProofs` shows with them that nothing surfaces below the pin, and then
`StreamIsExact`: a replay that ends without an error has yielded the settled set, each row once and
in order. Its invariant `ReadInv` speaks of a replay that is still between two pages. What was read
is in order; a settled row that is still there has been read or lies behind the last row read
(`Covered`); a settled row that is gone never comes back, since ids are not given again and an
updated row is a later edition (`Gone`). The closing check counts what is left of the settled set
below the ceiling: with `Gone` and `Covered`, a count and a fingerprint that agree leave no row that
could have been missed. `PinIsEnough` is the other direction, that the check never fails a replay
whose rows nobody touched. For any page size, number of writers and rows.

**A replay's accounts.** `AccountsAreExact`, in the same module, is `LedgerExact` for any sequence of
ticks, any prices, costs and slippage, and any entries, partial exits and protection. The engine adds
up profits per ticket; the property counts the cash of the fills. `LedgerInv` connects the two by a
balance, `Balances`: what is realized and what the held positions are worth at some pair of closing
prices is the flow of all fills at those prices. It holds for every pair of prices (`CashHolds`), so that
it holds at the next tick too; the same balance at mid prices (`MidsHold`) gives the gross profit, and
with no entry prices at all (`OpenHolds`) the size of what is held, from which `SplitCosts` gets the
cost of the result. That the cost is never a gain is `Adverse`: each fill lies on the wrong side of its
mid. `TicksInv` says that the mark is the latest tick in the broker's order, so that a late tick
revalues nothing; `DaysAgree` that what is booked in any window of time is what the trades in it
earned; `CurveOf` that peak and drawdown are those of the ticks so far, though the curve is thinned.

**Mirror, history, research runs, trials and the account.** `RecordsProofs` has the five. For the mirror, the
invariant says how far the current symbol is copied (`PositionExact`) and that symbols behind it are complete; from it follows
`CopiesSettled`: no row with an id at or below a copied one can still appear. `HistoryIsFaithful`
says of `CommandStore` that a command's observations end in its row, miss no revision and show legal
transitions only. Its invariant `CopyFaithful` bounds every client's copy: it is one transition ahead
of what the client read, at most, and what the client read is not ahead of the row; so the
compare-and-set lets a save through only if its transition starts at the row's own state.
`ReportsTellTheTruth` is `RunHonest` for any archive, periods, calendar and tolerance, while ticks, rows,
swaps and the revision change and runs are killed. `RunInv` follows the replay between two ticks: what
was replayed is the beginning of what the stream pinned (`Replayed`), every tick of the period was
evaluated once on what was known by then and nothing else was (`Evaluated`), and each day has one
progress line, made from no more than its first tick could know (`Printed`). The candles in the run's
directory are all but the last of the ticks replayed, which is what the manifest's own list says once
the stream has come to its end, and the check of coverage on what was streamed, not the check before
the run, gives both edges of the period. That a read puts a finite set of ticks in order
(`OrderedIsIncreasing`) comes from the lemma on ranks (`RanksOnce`).
`TrialsAreComparable` is `EnsembleHonest` for any number of trials, side by side or one after another.
`EnsembleInv` follows a trial through three places that change at different times: its thread and
child, what the parent has collected (`GatheredInv`), and what the file says (`Checkpointed`). That
the baseline is the first success of the plan, whatever the order children end in, is `FirstCounts`
with `Unjudged`: a trial not yet judged is only called failed if it never ran. That an orderly end leaves
no child is `Threaded`: the pool waits for its threads, and a thread ends after its child.
`NoLossIsHidden` is `LossesHonest` for any equities, deals, outages and crashes of the collector.
`AccountInv` keeps the rows in the order of their instants (`InTime`) and each mark on top of all that
was recorded up to its row (`MarksOnTop`), the sample that is not yet stored included: nobody inserts
between a sample and its row. A day's result stays right since deals are booked later than any row.
That a cycle may read a window only is `BaselineOfWhole`: the row a loss is measured from lies in the
window, or is the latest before it, which is read too. This needs that a day and the rolling window
fit into what is read (`AccountAssumption`; 24 of 48 hours in the code).

**Replay's books.** `ReplayBookProofs` proves the two properties of the replay for any latency, cap,
approvals, clock skews and number of signals. `BookStaysWithinRules`: the book never holds both sides,
never more positions than the cap, and ledger, tickets and simulator agree to the unit.
`QueueStaysOrderly`: one entry or the legs of one close are in flight at a time, each held signal and
each reversal has something in the queue that will hand it back, and held signals keep their order.
They need one invariant, `BookInv`, because each leans on the other. A reversal may only enter a book
that is flat of the tickets its barrier knows: that this means an empty book is `Flight` (the legs of
the flip are the whole queue, the barrier counts them, and every ticket held is one of its own). That
two entries approved one by one keep the cap is due to the queue, which holds one entry at most. That
the ledger shows the side of the tickets, on which every signal is judged, is `Books` with
`NeverHedged` (`LedgerSide`). `Snapshotted` keeps what `_apply_pending` iterates over inside the queue
while legs leave it; `Accounted` gives each ticket, entry, flip and held signal a signal of its own,
so that tickets stay within the bound of the run.

The same module proves the two small books that share the run. `ProbeLeavesNoTrace`, for any volumes
of the broker and any number of closing tries: a preflight that reports success has left no position,
and nobody else's position is touched. `ProbeInv` follows the one ticket of its own that the code
looks at in each stage; that an order of the probe cannot merge into a position of others on a netting
account is due to `Refuses`. `NettingAddsUp`, for any strategies, units and intents: virtual positions
add up to the broker's net, what is held and owed is what was asked for, no order crosses zero, and
only the exit of a position that others mask enlarges the net unprotected. All lean on `NetInv`: an
intent moves every strategy it is about one way (`Upward`), each book lies behind its target by exactly
what is owed, the order at the broker goes that way, for no more than the owed sum, and an entry's
order without a stop goes towards zero. Who is still owed part of an exit aims at nothing (`Exiting`):
if nobody stood against the exit, the targets would add up to its own side or to zero, and the net,
which lies before them by what is owed, could only shrink (`ExitsMasked`). What it needs of the algorithm is
`FillsAreAttributed`: the shares `allocate_pro_rata` gives out add up to the fill and nobody gets more
than they asked for. The shares that are cut fall short of the fill by less than there are uneven ones,
and ranking by fraction and then by id is a strict order, of which the first k are k (`Ranking`, from `RanksOnce`); so
each step left over goes to somebody whose share was cut.

`CarryIsExact` is `CarryExact` for any tickets, entries, feeds of swaps, weekdays and length of day, in
whatever order the ticks' broker times come, as long as none is ahead of its known time. `CarryInv` says what the engine's three records mean. What is
noted of a ticket is exactly what it still holds, at each priced rollover its position has seen
(`Charged`): so a close uses up its own part of every charge, and `_reverse_carry_for_close` gives back
the same rollovers that a trade, by its broker times, was not held through (`Traded`). The run's sum is
that of the trades and of what the open quantities have seen (`Summing`): an entry, a rollover and a
close change one term each, and the sums follow by `DuesSplit` (quantities) and `DuesJoin` (days). For a
rollover without a price no charge is noted; the units counted there are what is still held of those
that saw it, and more exactly where somebody was closed after it (`Unpriced`): that is why the count
may be taken back when it has come down to nobody, and only then (`Counting`).

**Bars.** `BarsAreHonest` is `BarsHonest` for any width, lookback, batch and step back of the broker's
clock, while quotes are committed late and passes, backfills and crashes mix. `BarInv` follows a candle
from the quotes to the row. A fold in the order of the broker's clock closes a bucket only when every
quote of it that was read has been folded (`FoldedTo`), so what it publishes is whole in what it read
(`BuildWhole`). What it read need not reach back to the beginning of its first bucket: `Reached` says
that it does, and holds for each way the code chooses where to read from, behind the last candle known, the first
full bucket of a cold start, a backfill's first bucket; with it the candle is whole in all its reader could see
(`WindowHonest`). The ticks are only appended to, so what a reader saw keeps its meaning (`RowsStay`)
while passes and a backfill write over each other: whichever row comes first is an honest one, and the
key refuses the second (`InsertHonest`). The feed, `QuotesPlaced`, needs another argument: in the order
of reception a quote may come behind its bucket's end, and `BuildPlaces` shows that the builder drops it
only if it lies less than a step back behind one delivered before it (`Lagging`).

**Folds.** Books, sums, rankings and selections are folds over sequences. The library's induction
theorems take an operator as a parameter, which no installed prover instantiates; `FoldTheorems`
states induction with a set instead (`InductionTo`: a set that holds 0, and with each number below n
the next one, holds all of them up to n), proves it from the well-foundedness of `<`, and from it that
`FoldLeft` is a run: a function of 0 .. n that starts at the base and applies the operation once per
element. `SumRun`, `SumAppend`, `SumAdded`, `SumScaled` and `SumMonotone` follow for sums, `FilterFacts` for the elements of a
sequence that are in a set, `FilteredSums` for what they weigh, and `RankedInOrder` says that a set arranged by
ranks is a sequence of all of it, in order. A sum over a set is one over some
sequence of it; since sums do not depend on the order (`SumReordered`), `TotalWith` and `TotalChanged`
say what becomes of it when a key is added or changed, `TotalAdded` and `TotalPart` what two functions
add up to and which keys may be left out. The latter need induction over the subsets of a finite set
(`SubsetInduction`), stated with a set of subsets in place of an operator, as `InductionTo` is.

**Decision cycle.** `DecisionCycleProofs` instantiates these runs for the operators the cycle is built
from (which intents the signals give, what sizing, ranking and selection keep, what grading grants) and
proves the four invariants of the cycle for any strategies, symbols, books, markets and accounts.

- `ReversalsComeThrough`: while the session gate is closed, the reversal of what is held is noted,
  whatever was signalled before. `MemoryInv` says what a look leaves in the memory.
- `LimitsHoldTogether`: stop risk, positions and units of all that one cycle grants stay within their
  caps. `LimitsInv` compares two books: the one each next entry is graded against contains everything
  granted so far (it also holds what was refused, since the code never takes an intent out of its
  projected book), so that it weighs at least as much; the engine's check of one entry then bounds the
  sum. The theorem assumes hedging. In a netted book a refused entry of the other side makes the
  weight smaller, not larger, which is what the run `phantom` shows; the stop budget counts distances
  without a sign, and `BudgetIsKept` proves it in both modes.
- `StrongestTaken`: entries taken share no currency leg and complete no triangle, and an entry only
  loses to a stronger one that is taken. `WinsInv` carries this from the arbitrator's selection to the
  last grading, while verdicts move from the queue to the graded ones.
- `TrailIsComplete`: what the memory has used up is in the decision trail or on its way there, and a
  close comes before its entry (`TrailInv`), unless the cycle raised an exception.

What each of these needs of the arbitrator is proved about the algorithm: `Ranked` returns a
permutation in descending order of strength, and the greedy selection leaves out nothing but what a
stronger selected entry, or the cap, excludes.

**Labels.** `LabelsAreKept`, in a section of its own of `BarSeriesProofs`, shows for any opinions, servers and
number of saves what the run `events` checks for a few of each: a save replaces only labels its page
showed, and the file is whole whenever it is served. `KeptInv` adds that one server at most writes
drafts, into an empty file (`WritingAlone`), and that a server nobody overtook holds the rows of its
revision (`Faithful`); the windows in which one is overtaken are described in section 4.

**Facts.** The four other conjuncts of `FactsTrue` are proved in the sections after it, each for its
component alone, which is how the run takes them too; the constants are arbitrary under the assumption
each theorem names, and the clock has no bound that matters.

- `FiguresAreTrue` (`Vintages`): every row stored has the value that was current at its instant
  (`TrueRows`), and as of every instant up to the last backfill, or at which a collector stored
  undisturbed, a read sees the current value (`Sees`). One more true row costs nothing of it
  (`InsertReliable`): what is skipped as unchanged equals the row right before it. A backfill is shown
  to put the releases together again, whatever the size of its windows, the clamped first row of each
  included.
- `PapersAreTrue` (`OpinionsArchive`): a row has the version its page showed when it was fetched, and is
  known from then, or, the first of a meeting alone, from the announced instant (`RowsTrue`,
  `FirstOnly`); an open process holds
  what the page showed when it fetched (`Holds`), and is read back only if no other was open meanwhile
  (`Alone`); what was taken is a row, or in a process at work, or reported (`Kept`).
- `ScoresAreTrue` (`MeetingIngest`): a run's list has one event for each meeting it still has to store
  and every other meeting of its file is stored (`RunTrue`), which survives the upserts of a run of the
  other scoring version because an event's id names its version.
- `RecordIsTrue` (`InterventionIngest`): what a run has still to store has its page in the archive or
  in the run itself (`DownloadSound`), and what was due when it began is stored or still in its list
  (`DownloadCovers`); a kill between any two statements only forgets promises, never pages.

**Only model-checked.** Everything with fairness (`CommandsEnd`, `PassesFlow`, `BatchesEnd`,
`QuotesAcquired` in its temporal part), since liveness and ENABLED are out of the provers' reach; the
rate limits (`DispatchOrderly`); and, so far, the properties of studies and features. Operators built on SelectSeq and
SortSeq, which tlapm cannot expand, would first have to be written as folds, as those of the decision
cycle and of the replay's book were.

## 6. Not modelled

The statistics, verdicts and rendering of the studies and the studies that are nothing else;
technical indicators and the market side of the strategies (floating point; `StrategySetups` takes
whether a set-up is found as an input); parsing of downloaded pages; formatting, logging,
configuration and the SSH tunnel of the mirror; the field mapping of the MT5 adapter
(`execution/mt5/adapter.py`, `mapper.py`), beyond what `OmsWorkers` and `Preflight` let a broker
answer; `reconcile_deals` and the kill switch's `trip` and `reset`, which nothing in the repository
calls; conflicts of observations outside `CommandStore`; the replacement of the mirror's three small
tables (one transaction on each side) and the markers of its database; the netting merges of the
simulator, which the engine never asks for; broker times ahead of the known ones in `RolloverCarry`;
refusals of `execution_quality_export.py` beyond `Exportable`, without which more exports are measured
than the code makes; repositories of rows that are only inserted and read;
hash collisions of fingerprints and digests. `PROJECT.json` says for each component what is left out.
