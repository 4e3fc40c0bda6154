\* Four signals with fills and reversals a tick of later time after them, stops
\* that fire while commands wait, and late broker times; or two tickets over three
\* rollovers; or three strategies on one netted account; or one trade cycle of
\* the probe.
SPECIFICATION PartsSpec
CONSTANTS
  t1 = t1  t2 = t2
  Tickets = {t1, t2}
  Units = 2
  Horizon = 3
  DayLength = 1
  FirstWeekday = 1
  TripleWeekday = 3
  Feeds <- TwoFeeds
  Strategies <- ThreeStrategies
  MaxUnits = 3
  MaxIntents = 4
  VolumeMin = 2
  VolumeStep = 1
  Closes = 4
  Latency = 1
  MaxOpen = 2
  Approvable = {2}
  Skews <- LateOrNot
  MaxSignals = 4
  MaxTime = 3
INVARIANTS
  BookWithinRules
  QueueOrderly
  CarryExact
  LeavesNoTrace
PROPERTIES
  NettingExact
SYMMETRY TicketSymmetry
CHECK_DEADLOCK FALSE
