\* Candles of three ticks, or polls of four quotes, or imports of two days,
\* or a study of four days.
SPECIFICATION PartsSpec
CONSTANTS
  Width = 2
  StepBack = 3
  Lookback = 2
  Batch = 1
  Ahead = 1
  CommitDelay = 1
  MaxTime = 4
  MaxClock = 3
  MaxTicks = 3
INVARIANTS
  BarsHonest
  ReportHonest
PROPERTIES
  PassesFlow
  QuotesAcquired
CHECK_DEADLOCK FALSE
