CONSTANTS
  Base <- BaseOf
  Quote <- QuoteOf
  AccountCurrency = "JPY"
  ConversionSymbols = {"USDJPY"}
  Haircut = 1
  Stress = 0
  AccountMode = "HEDGING"
  TradeBudget = 400
  StopBudget = 700
  NetCap = 1000
  MaxPerSymbol = 1
  MaxPortfolio = 2
  MaxUnits <- DeskUnits
  MinUnits = 1
  TradingEnabled = TRUE
  Tradable = {"EURUSD", "GBPUSD"}
  Windows <- NoWindows
  Covers <- DeskCovers
  DefaultMode = "REDUCED"
  Strategies <- BlindStrategies
  Symbols <- BlindSymbols
  OverlapPenalty = 1
  MaxPairs = 2
  SetupId = {"s1"}
  FirstLook <- SwingFirst
  HorizonExits = {}
  HoldingLimit = 2
  Bound <- BlindBound
  HorizonOf <- SwingHorizon
  ValueOf <- SwingValue
  Stops = {1}
  Markets <- BlindMarkets
  Gates <- BlindGates
  Accounts <- OneAccount
  Sights <- BlindSights
  Ledgers <- NoLedger
  MaxCycles = 1
SPECIFICATION Spec
INVARIANT UnsizedIsGraded
CHECK_DEADLOCK FALSE
