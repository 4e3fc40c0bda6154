CONSTANTS
  Base <- BaseOf
  Quote <- QuoteOf
  AccountCurrency = "JPY"
  ConversionSymbols = {"USDJPY"}
  Haircut = 1
  Stress = 0
  AccountMode = "HEDGING"
  TradeBudget = 400
  StopBudget = 500
  NetCap = 1000
  MaxPerSymbol = 1
  MaxPortfolio = 2
  MaxUnits <- DeskUnits
  MinUnits = 1
  TradingEnabled = TRUE
  Tradable = {"EURJPY", "EURUSD", "USDJPY"}
  Windows <- DeskWindows
  Covers <- DeskCovers
  DefaultMode = "REDUCED"
  Strategies <- DeskStrategies
  Symbols <- DeskSymbols
  OverlapPenalty = 1
  MaxPairs = 2
  SetupId = {"s1"}
  FirstLook <- DeskFirst
  HorizonExits = {"scalp"}
  HoldingLimit = 2
  Bound <- DeskBound
  HorizonOf <- DeskHorizons
  ValueOf <- DeskValues
  Stops = {1}
  Markets <- DeskMarkets
  Gates <- DeskGates
  Accounts <- DeskAccounts
  Sights <- DeskSights
  Ledgers <- DeskLedgers
  MaxCycles = 2
SPECIFICATION PartsSpec
INVARIANTS TrailComplete ReversalNotMasked LimitsTogether StrongestWin
  ReplayIsLive StudiesHonest ObservationHonest
PROPERTY DispatchOrderly
CHECK_DEADLOCK FALSE
