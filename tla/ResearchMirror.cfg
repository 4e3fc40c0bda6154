\* Two writers and two runs of the mirror; or one command's row with two
\* clients; or four steps of an account; or two research backtests; or
\* three trials, two at a time.
SPECIFICATION PartsSpec
CONSTANTS
  eurusd = eurusd  usdjpy = usdjpy
  w1 = w1  w2 = w2
  Symbol = {eurusd, usdjpy}
  KeyOf <- Distinct
  Tick <- ThreeTicks
  Writer = {w1, w2}
  Nobody = Nobody
  MaxBatches = 2
  Symbols <- BothSymbols
  ChunkSize = 2
  NoLimit = NoLimit
  RowLimits = {1, NoLimit}
  MaxRuns = 2
  LeaseSeconds = 1
  SubmittingTimeout = 1
  Quantities = {1, 2}
  StoreTime = 1
  MaxRevision = 6
  Labels <- TwoWeeks
  Archives <- FourArchives
  Periods <- ThreePeriods
  Tolerance = 1
  ClosedDays = {2}
  Ahead = 1
  MaxChanges = 2
  DayLength = 2
  Levels = {8, 10}
  Results <- GainAndLoss
  Rolling = 2
  LossWindow = 3
  AccountTime = 4
  MaxDeals = 1
  Trials = 3
  MaxParallel = 2
INVARIANTS
  NoGaps
  CopiesSettled
  LossesHonest
  RunHonest
  EnsembleHonest
PROPERTIES
  FinishedIsComplete
  HistoryFaithful
SYMMETRY WriterSymmetry
CHECK_DEADLOCK FALSE
