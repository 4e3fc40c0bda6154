CONSTANTS
  Base <- BaseOf
  Quote <- QuoteOf
  AccountCurrency = "JPY"
  ConversionSymbols = {"USDJPY"}
  Haircut = 1
  Stress = 0
  AccountMode = "NETTING"
  TradeBudget = 400
  StopBudget = 1000
  NetCap = 300
  MaxPerSymbol = 1
  MaxPortfolio = 2
  MaxUnits <- PhantomUnits
  MinUnits = 1
  TradingEnabled = TRUE
  Tradable = {"EURUSD"}
  Windows <- PhantomWindows
  Covers <- DeskCovers
  DefaultMode = "REDUCED"
  Strategies <- DeskStrategies
  Symbols <- PhantomSymbols
  OverlapPenalty = 1
  MaxPairs = 2
  SetupId = {"s1"}
  FirstLook <- DeskFirst
  HorizonExits = {}
  HoldingLimit = 2
  Bound <- PhantomBound
  HorizonOf <- DeskHorizons
  ValueOf <- DeskValues
  Stops = {1}
  Markets <- PhantomMarkets
  Gates <- PhantomGates
  Accounts <- OneAccount
  Sights <- PhantomSights
  Ledgers <- NoLedger
  MaxCycles = 1
SPECIFICATION Spec
INVARIANT RefusedBookIsStricter
CHECK_DEADLOCK FALSE
