--------------------------- MODULE MCDecisionCycle ---------------------------
(* Instances of DecisionCycle: four pairs, two or three strategies. *)
EXTENDS DecisionCycle, TLC

EURJPY == "EURJPY"
EURUSD == "EURUSD"
GBPUSD == "GBPUSD"
USDJPY == "USDJPY"

BaseOf == (EURJPY :> "EUR") @@ (EURUSD :> "EUR") @@ (GBPUSD :> "GBP") @@ (USDJPY :> "USD")
QuoteOf == (EURJPY :> "JPY") @@ (EURUSD :> "USD") @@ (GBPUSD :> "USD") @@ (USDJPY :> "JPY")

NothingFound == [LONG |-> "none", SHORT |-> "none"]
LongFound == [LONG |-> "s1", SHORT |-> "none"]
ShortFound == [LONG |-> "none", SHORT |-> "s1"]
BothFound == [LONG |-> "s1", SHORT |-> "s1"]

Good == [age |-> "fresh", connected |-> TRUE, loss_ok |-> TRUE, margin_ok |-> TRUE]
Old == [Good EXCEPT !.age = "stale"]

Units(n) == [s \in DOMAIN BaseOf |-> n]

\* desk: a triangle and an outside pair, shared between a swing and a scalp strategy.
DeskStrategies == <<"scalp", "swing">>
DeskSymbols == <<EURJPY, EURUSD, USDJPY>>
DeskBound == <<<<"scalp", EURUSD>>, <<"scalp", USDJPY>>, <<"swing", EURJPY>>, <<"swing", EURUSD>>>>
DeskHorizons == [scalp |-> "SCALP", swing |-> "SWING"]
DeskValues == [scalp |-> 2, swing |-> 2]
DeskFirst == [scalp |-> "LONG", swing |-> "LONG"]
DeskWindow == [from |-> 2, to |-> 2, propagation |-> "DIRECT_LEGS", currencies |-> {"EUR"},
               actions |-> [SCALP |-> "HALT", SWING |-> "REDUCED"]]
NoPosition == [b \in {} |-> 0]
LongUsdJpy == <<"scalp", USDJPY>> :> 1
\* Held while the quote that converts it to the account currency is missing.
LongEurUsd == <<"swing", EURUSD>> :> 1
DeskWindows == {DeskWindow}
DeskCovers == <<1, 2>>
DeskUnits == Units(3)
SeenAs(eurjpy, eurusd, usdjpy) ==
  (EURJPY :> eurjpy) @@ (EURUSD :> eurusd) @@ (USDJPY :> usdjpy)
DeskMarkets == {SeenAs("fresh", "fresh", "fresh"), SeenAs("none", "fresh", "fresh"),
                SeenAs("fresh", "fresh", "none"), SeenAs("stale", "fresh", "stale")}
DeskGates == {{EURJPY, EURUSD, USDJPY}, {}}
DeskAccounts == {Good, Old}
DeskSights == {f \in [ToSet(DeskBound) -> {NothingFound, LongFound, BothFound}] :
                 LET finds == {b \in DOMAIN f : f[b] # NothingFound}
                 IN  /\ Cardinality(finds) <= 2
                     /\ BothFound \in {f[b] : b \in finds} => Cardinality(finds) = 1}
DeskLedgers == {NoPosition, LongUsdJpy, LongEurUsd}

\* blind_sizing: USDJPY only converts, and no quote of it has been collected.
BlindStrategies == <<"swing">>
BlindSymbols == <<EURUSD, GBPUSD>>
BlindBound == <<<<"swing", EURUSD>>, <<"swing", GBPUSD>>>>
BlindMarkets == {(EURUSD :> "fresh") @@ (GBPUSD :> "fresh") @@ (USDJPY :> "none")}
BlindGates == {{EURUSD, GBPUSD}}
SwingHorizon == [swing |-> "SWING"]
SwingValue == [swing |-> 1]
SwingFirst == [swing |-> "LONG"]
OneAccount == {Good}
BlindSights == [ToSet(BlindBound) -> {NothingFound, LongFound, ShortFound}]
NoLedger == {NoPosition}
NoWindows == {}

\* phantom: a scalp and a swing strategy on one symbol of a netting account.
PhantomSymbols == <<EURUSD>>
PhantomBound == <<<<"scalp", EURUSD>>, <<"swing", EURUSD>>>>
PhantomMarkets == {(EURUSD :> "fresh") @@ (USDJPY :> "fresh")}
PhantomWindows == {[DeskWindow EXCEPT !.from = 1, !.actions.SWING = "NORMAL"]}
PhantomUnits == Units(4)
PhantomSights == [ToSet(PhantomBound) -> {NothingFound, LongFound, ShortFound}]
PhantomGates == {{EURUSD}}
=============================================================================
