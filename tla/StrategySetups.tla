---------------------------- MODULE StrategySetups ----------------------------
(***************************************************************************)
(* What every strategy does with the set-ups it finds (strategy/base.py    *)
(* and the on_event of the strategies): one signal per set-up, entries     *)
(* only while the session gate is open, exit-only signals while it is      *)
(* closed, and one signal when a position has been held for its horizon.   *)
(*                                                                         *)
(* The market side of a strategy is left out: a look at a symbol finds a   *)
(* set-up or none in each direction, named by an id that stays the same    *)
(* while the set-up persists.                                              *)
(***************************************************************************)
EXTENDS Integers

CONSTANTS
  SetupId,          \* ids of set-ups
  FirstLook,        \* strategy -> the direction it examines first
  HorizonExits,     \* strategies with horizon_exit_enabled
  HoldingLimit      \* expected_horizon_seconds of a holding

Side == {"LONG", "SHORT"}

ASSUME SetupAssumption ==
  /\ "none" \notin SetupId
  /\ \A strategy \in DOMAIN FirstLook : FirstLook[strategy] \in Side

OtherSide(direction) == IF direction = "LONG" THEN "SHORT" ELSE "LONG"

\* "none" stands for Python's None.
NoSignal == [direction |-> "none", setup |-> "none", exit_only |-> FALSE]
Watch == [direction: Side \cup {"none"}, since: Int, fired: BOOLEAN]
NotWatching == [direction |-> "none", since |-> 0, fired |-> FALSE]

\* _session_permits_setup: while the gate is closed only the reversal of what is
\* held can become a signal.
PermitsSetup(open, held, direction) ==
  open \/ (held # "none" /\ held # direction)

\* Mutant: a direction that cannot become a signal is looked at all the same.
TakenSide_Unguarded(strategy, found, open, held) ==
  LET ready == {d \in Side : found[d] # "none"}
  IN  CASE ready = {} -> "none"
        [] FirstLook[strategy] \in ready -> FirstLook[strategy]
        [] OTHER -> OtherSide(FirstLook[strategy])

\* The branches of _evaluate: the first direction with a set-up that may become
\* a signal returns, whether or not it was signalled before.
TakenSide(strategy, found, open, held) ==
  LET ready == {d \in Side : found[d] # "none" /\ PermitsSetup(open, held, d)}
  IN  CASE ready = {} -> "none"
        [] FirstLook[strategy] \in ready -> FirstLook[strategy]
        [] OTHER -> OtherSide(FirstLook[strategy])

\* The third part of the key of _signaled_setups.
ExitSlot(open) == ~open

\* _setup_signal over the memo of one strategy and symbol, which maps a direction
\* and the exit-only flag to the last id signalled.
SetupSignal(strategy, memo, found, open, held) ==
  LET d == TakenSide(strategy, found, open, held)
      fresh == memo[<<d, ExitSlot(open)>>] # found[d]
  IN  IF d # "none" /\ PermitsSetup(open, held, d) /\ fresh
      THEN [signal |-> [direction |-> d, setup |-> found[d], exit_only |-> ~open],
            memo |-> [memo EXCEPT ![<<d, ExitSlot(open)>>] = found[d]]]
      ELSE [signal |-> NoSignal, memo |-> memo]

\* The holding _horizon_exit watches: its clock starts with the snapshot in which
\* the strategy first saw this side.
Watched(watch, held, asOf) ==
  CASE held = "none" -> NotWatching
    [] held # "none" /\ watch.direction # held ->
         [direction |-> held, since |-> asOf, fired |-> FALSE]
    [] OTHER -> watch

\* _horizon_exit: it fires once per holding, whatever the session.
HorizonExit(strategy, watch, held, asOf, now) ==
  LET w == Watched(watch, held, asOf)
  IN  IF /\ held # "none" /\ strategy \in HorizonExits
         /\ ~w.fired /\ now - w.since >= HoldingLimit
      THEN [signal |-> [direction |-> OtherSide(held), setup |-> "horizon",
                        exit_only |-> TRUE],
            watch |-> [w EXCEPT !.fired = TRUE]]
      ELSE [signal |-> NoSignal, watch |-> w]

\* The turn of on_event for one symbol: the horizon first, and a set-up only if
\* the session permits the symbol to be evaluated.
Look(strategy, memo, watch, found, open, held, asOf, now) ==
  LET horizon == HorizonExit(strategy, watch, held, asOf, now)
      setup == IF horizon.signal = NoSignal /\ (open \/ held # "none")
               THEN SetupSignal(strategy, memo, found, open, held)
               ELSE [signal |-> NoSignal, memo |-> memo]
  IN  [signal |-> IF horizon.signal # NoSignal THEN horizon.signal ELSE setup.signal,
       memo |-> setup.memo,
       watch |-> horizon.watch]
=============================================================================
