\* Two writers of three symbols, two of which share a write key, or one writer
\* whose rows are edited twice, and one stream of pages of two rows; or a
\* replay of three ticks with up to three fills.
SPECIFICATION PartsSpec
CONSTANTS
  eurusd = eurusd  usdjpy = usdjpy  gbpusd = gbpusd
  w1 = w1  w2 = w2
  Symbol = {eurusd, usdjpy, gbpusd}
  KeyOf <- Colliding
  Tick <- AllTicks
  Writer = {w1, w2}
  Nobody = Nobody
  MaxBatches = 2
  BatchRows = 2
  Target = usdjpy
  Start = 2
  Stop = 4
  PageRows = 2
  MaxChanges = 2
  InitialEquity = 100
  Offers <- ThreeOffers
  HalfSpread = 1
  Multiplier = 1
  Slippages = {1}
  Through = 1
  StopDistance = 4
  Quantity = 2
  EvaluateFrom = 1
  HourLength = 2
  DayLength = 3
  JstShift = 1
  MaxFills = 3
INVARIANTS
  PinHolds
  StreamExact
  LedgerExact
PROPERTIES
  PinnedNeverGrows
  PinSuffices
  BatchesEnd
CHECK_DEADLOCK FALSE
