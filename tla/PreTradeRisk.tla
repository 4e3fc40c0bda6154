---------------------------- MODULE PreTradeRisk ----------------------------
(***************************************************************************)
(* What the platform may risk: currency conversion (risk/conversion.py),   *)
(* the decomposition of a book into currency legs (portfolio/exposure.py), *)
(* the calendar of scheduled events (risk/event_risk.py) and the checks of *)
(* RiskEngine (risk/engine.py) on one intent.                              *)
(*                                                                         *)
(* Every price is 1, so that a unit of any currency is worth a unit of the *)
(* account currency; money is counted in hundredths, so that haircut and   *)
(* stress are whole numbers.  The volume step is one unit, and the equity  *)
(* is fixed: percentages of it are the constants below.  A quote is known  *)
(* by its age and by whether it can be trusted.  The three loss limits are *)
(* one flag of the account here and are modelled in AccountSeries.         *)
(***************************************************************************)
EXTENDS Integers, FiniteSets, Sequences, SequencesExt

CONSTANTS
  Base, Quote,        \* symbol -> currency
  AccountCurrency,
  ConversionSymbols,  \* the specs given to MarketQuoteConversionService
  Haircut,            \* stale_monitoring_haircut_pct
  Stress,             \* conversion_stress_adverse_pct
  AccountMode,        \* "HEDGING" or "NETTING"
  TradeBudget,        \* max_risk_per_trade_pct of the equity, in hundredths
  StopBudget,         \* portfolio_stop_risk_budget_pct of it
  NetCap,             \* max_currency_net_exposure_pct of it
  MaxPerSymbol,       \* max_open_positions_per_symbol
  MaxPortfolio,       \* max_open_positions_portfolio
  MaxUnits,           \* max_units_per_symbol, for the symbols that have one
  MinUnits,           \* volume_min
  TradingEnabled,     \* trading_enabled
  Tradable,           \* symbols whose instrument policy allows trading
  Windows,            \* the event windows of the calendar
  Covers,             \* the span the calendar speaks for: <<first, last>>
  DefaultMode         \* event_mode_default

ASSUME RiskAssumption ==
  /\ AccountMode \in {"HEDGING", "NETTING"}
  /\ Haircut \in Nat /\ Stress \in Nat
  /\ TradeBudget \in Nat /\ StopBudget \in Nat /\ NetCap \in Nat
  /\ MaxPerSymbol \in Nat /\ MaxPortfolio \in Nat
  /\ \A s \in DOMAIN MaxUnits : MaxUnits[s] \in Nat
  /\ MinUnits \in Nat \ {0}

Direction == {"LONG", "SHORT"}
Opposite(direction) == IF direction = "LONG" THEN "SHORT" ELSE "LONG"
Signed(direction, quantity) == IF direction = "LONG" THEN quantity ELSE -quantity
Abs(n) == IF n < 0 THEN -n ELSE n
Lesser(m, n) == IF m < n THEN m ELSE n
Opening == {"OPEN", "INCREASE"}

\* The sum of a sequence of numbers, and of value(x) over the elements of one.
SumOf(seq) == FoldLeft(LAMBDA sum, n : sum + n, 0, seq)
Total(value(_), seq) == SumOf([i \in DOMAIN seq |-> value(seq[i])])

\* The elements of a sequence that are in S, in their order.
Among(seq, S) ==
  FoldLeft(LAMBDA kept, x : IF x \in S THEN Append(kept, x) ELSE kept, <<>>, seq)

-----------------------------------------------------------------------------
(* Conversion to the account currency.  A market maps each symbol to what  *)
(* is known of its last quote: "none", "stale", "fresh", or "crossed" for  *)
(* one that fails _check_integrity.                                        *)

QuoteAge == {"none", "stale", "fresh", "crossed"}

\* The approved paths: a symbol that joins the two currencies, either way.
Path(currency) ==
  {s \in ConversionSymbols : {Base[s], Quote[s]} = {currency, AccountCurrency}}

Rate(market, currency) == market[CHOOSE s \in Path(currency) : TRUE]

\* The code of the ConversionError convert raises, if it does.
ConversionError(market, currency, purpose) ==
  CASE currency = AccountCurrency -> "none"
    [] currency # AccountCurrency
       /\ (Path(currency) = {} \/ Rate(market, currency) \in {"none", "crossed"})
         -> "CONVERSION_RATE_UNAVAILABLE"
    [] OTHER -> IF Rate(market, currency) = "stale" /\ purpose = "RISK_INCREASING"
                THEN "CONVERSION_RATE_STALE" ELSE "none"

\* The value of an amount to a monitor, in hundredths: stale rates are worth more.
Monitored(market, currency, amount) ==
  amount * (100 + IF currency # AccountCurrency /\ Rate(market, currency) = "stale"
                  THEN Haircut ELSE 0)

-----------------------------------------------------------------------------
(* The book: a sequence of exposures [symbol, units, stop], stop being the *)
(* distance of the broker-side stop loss, 0 when there is none.            *)

\* _to_account over both legs of every exposure raises when a rate is missing.
SnapshotFails(market, book) ==
  \E i \in DOMAIN book :
    ConversionError(market, Quote[book[i].symbol], "MONITORING") # "none"

StopRisk(market, book) ==
  Total(LAMBDA e : Monitored(market, Quote[e.symbol], e.stop * Abs(e.units)), book)

Currencies(book) == {Base[book[i].symbol] : i \in DOMAIN book}
                    \cup {Quote[book[i].symbol] : i \in DOMAIN book}

\* The net value of a currency: base legs add up, quote legs are owed.
NetValue(market, book, currency) ==
  Total(LAMBDA e :
          Monitored(market, Quote[e.symbol], e.units)
          * ((IF Base[e.symbol] = currency THEN 1 ELSE 0)
             - (IF Quote[e.symbol] = currency THEN 1 ELSE 0)), book)

Net(book, symbol) ==
  Total(LAMBDA e : IF e.symbol = symbol THEN e.units ELSE 0, book)
Gross(book, symbol) ==
  Total(LAMBDA e : IF e.symbol = symbol THEN Abs(e.units) ELSE 0, book)

\* Broker positions of a symbol: tickets when hedging, one net when netting.
OpenCount(book, symbol) ==
  IF AccountMode = "NETTING"
  THEN IF Net(book, symbol) # 0 THEN 1 ELSE 0
  ELSE Total(LAMBDA e : IF e.symbol = symbol THEN 1 ELSE 0, book)
PortfolioCount(book) ==
  IF AccountMode = "NETTING"
  THEN Cardinality({s \in {book[i].symbol : i \in DOMAIN book} : Net(book, s) # 0})
  ELSE Len(book)

-----------------------------------------------------------------------------
(* The event calendar *)

Severity == [NORMAL |-> 0, REDUCED |-> 1, HALT |-> 2]

AppliesTo(w, symbol) ==
  \/ w.propagation # "DIRECT_LEGS"
  \/ w.currencies = {}
  \/ w.currencies \cap {Base[symbol], Quote[symbol]} # {}

\* A window that reaches every pair halts whatever its actions say.
ActionAt(w, horizon) == IF w.propagation # "DIRECT_LEGS" THEN "HALT" ELSE w.actions[horizon]

\* The most severe mode of the active windows; outside the span the calendar
\* covers nothing is known, and the configured default applies.
EventMode(symbol, horizon, now) ==
  IF ~(Covers[1] <= now /\ now <= Covers[2]) THEN DefaultMode
  ELSE LET modes == {"NORMAL"} \cup
                    {ActionAt(w, horizon) :
                       w \in {v \in Windows : v.from <= now /\ now <= v.to
                                              /\ AppliesTo(v, symbol)}}
       IN  CHOOSE m \in modes : \A n \in modes : Severity[n] <= Severity[m]

-----------------------------------------------------------------------------
(* RiskEngine.evaluate.  ctx is the PreTradeContext: now, market, account, *)
(* spread_ok, book, event_mode, kill_switch, the halts of the OMS, stop,   *)
(* requested.  The result is the set of reject codes and the quantity.     *)

Failed(code, passed) == IF passed THEN {} ELSE {code}

\* System-state checks apply to every order, exits included.
SystemChecks(opening, ctx) ==
  Failed("BROKER_CONNECTED", ctx.account.connected)
  \cup Failed("EXECUTION_ENABLED", ctx.execution_enabled)
  \cup Failed("KILL_SWITCH_ALLOWS_ORDER",
              IF opening THEN ctx.kill_switch = "NONE" ELSE ctx.kill_switch # "EMERGENCY")

\* An opposite OPEN offsets the net of a netting account.
Opposes(net, direction) == net # 0 /\ (net > 0) # (direction = "LONG")

AddsBrokerPosition(intent, ctx) ==
  IF intent.action = "OPEN"
  THEN ~(AccountMode = "NETTING" /\ Opposes(Net(ctx.book, intent.symbol), intent.direction))
  ELSE AccountMode = "HEDGING"

PositionChecks(intent, ctx) ==
  IF ~AddsBrokerPosition(intent, ctx) THEN {}
  ELSE Failed("MAX_OPEN_POSITIONS_PER_SYMBOL",
              OpenCount(ctx.book, intent.symbol) < MaxPerSymbol)
       \cup Failed("MAX_OPEN_POSITIONS_PORTFOLIO", PortfolioCount(ctx.book) < MaxPortfolio)

EntryChecks(intent, ctx) ==
  Failed("TRADING_ENABLED", TradingEnabled)
  \cup Failed("INSTRUMENT_TRADING_ENABLED", intent.symbol \in Tradable)
  \cup Failed("EVENT_MODE_ALLOWS_ENTRY", ctx.event_mode # "HALT")
  \cup Failed("ACCOUNT_RECONCILED", ctx.account_reconciled)
  \cup Failed("NO_UNKNOWN_ORDERS", ctx.unknown_commands = 0)
  \cup Failed("NO_POSITION_MISMATCH", ~ctx.position_mismatch)
  \cup Failed("NO_UNTRACKED_FILL", ctx.untracked_fills = 0)
  \cup Failed("QUOTE_FRESH", ctx.market[intent.symbol] \in {"fresh", "crossed"})
  \cup Failed("SPREAD_ACCEPTABLE", intent.symbol \in ctx.spread_ok)
  \cup PositionChecks(intent, ctx)
  \cup Failed("LOSS_WITHIN_LIMITS", ctx.account.loss_ok)
  \cup Failed("MARGIN_BUFFER", ctx.account.margin_ok)

\* What the cap on the units of the symbol leaves.  A reversal re-opens from
\* flat; on a hedging account every ticket counts.
Headroom(symbol, direction, book) ==
  LET net == Net(book, symbol)
  IN  CASE AccountMode = "HEDGING" -> MaxUnits[symbol] - Gross(book, symbol)
        [] AccountMode = "NETTING" /\ Opposes(net, direction) -> MaxUnits[symbol]
        [] OTHER -> MaxUnits[symbol] - Signed(direction, net)

\* The loss of a unit at the stop, stressed when it has to be converted.
LossPerUnit(symbol, stop) ==
  stop * (100 + IF Quote[symbol] # AccountCurrency THEN Stress ELSE 0)

\* The quantity the size limits leave of the requested one; 0 requests nothing
\* in particular.
Sized(intent, ctx) ==
  LET byRisk == TradeBudget \div LossPerUnit(intent.symbol, ctx.stop)
      room == Headroom(intent.symbol, intent.direction, ctx.book)
      allowed == Lesser(byRisk, IF room > 0 THEN room ELSE 0)
      reduced == IF ctx.event_mode = "REDUCED" THEN allowed \div 2 ELSE allowed
  IN  IF ctx.requested > 0 THEN Lesser(ctx.requested, reduced) ELSE reduced

\* The stop risk the candidate adds: growing a net position moves the stop of
\* all of it.
CandidateRisk(intent, ctx, quantity) ==
  LossPerUnit(intent.symbol, ctx.stop)
  * (quantity + IF intent.action = "INCREASE" /\ AccountMode = "NETTING"
                THEN Abs(Net(ctx.book, intent.symbol)) ELSE 0)

PortfolioChecks(intent, ctx, quantity) ==
  LET leg == 100 * Signed(intent.direction, quantity)
      over == {c \in Currencies(ctx.book) \cup {Base[intent.symbol], Quote[intent.symbol]} :
                 Abs(NetValue(ctx.market, ctx.book, c)
                     + (IF c = Base[intent.symbol] THEN leg ELSE 0)
                     - (IF c = Quote[intent.symbol] THEN leg ELSE 0)) > NetCap}
  IN  Failed("PORTFOLIO_RISK_LIMIT",
             StopRisk(ctx.market, ctx.book) + CandidateRisk(intent, ctx, quantity)
               <= StopBudget)
      \cup Failed("CURRENCY_EXPOSURE_LIMIT", over = {})

SizeCheck(intent, ctx) ==
  LET error == ConversionError(ctx.market, Quote[intent.symbol], "RISK_INCREASING")
      refused(code) == [rejects |-> {code}, quantity |-> 0]
  IN  CASE ctx.stop <= 0 -> refused("STOP_DISTANCE_KNOWN")
        [] ctx.stop > 0 /\ error # "none" -> refused(error)
        [] ctx.stop > 0 /\ error = "none" /\ intent.symbol \notin DOMAIN MaxUnits
             -> refused("SYMBOL_LIMIT_CONFIGURED")
        [] OTHER ->
             IF Sized(intent, ctx) < MinUnits
             THEN refused("MINIMUM_BROKER_SIZE_EXCEEDS_RISK")
             ELSE [rejects |-> PortfolioChecks(intent, ctx, Sized(intent, ctx)),
                   quantity |-> Sized(intent, ctx)]

\* An exit meets the system checks alone.
Evaluate(intent, ctx) ==
  LET opening == intent.action \in Opening
      size == SizeCheck(intent, ctx)
  IN  [rejects |-> SystemChecks(opening, ctx)
                   \cup (IF opening THEN EntryChecks(intent, ctx) \cup size.rejects ELSE {}),
       quantity |-> IF opening THEN size.quantity ELSE 0]
=============================================================================
