\* Two entries, two workers, the dispatcher lock changes hands.
SPECIFICATION Spec
CONSTANTS
  c1 = c1  c2 = c2  c3 = c3
  w1 = w1  w2 = w2
  eurusd = eurusd  usdjpy = usdjpy
  Nobody = Nobody
  Worker = {w1, w2}
  Command = {c1, c2}
  Action <- AllEntries
  Ticketed = {}
  SymbolOf <- OneSymbol
  ExpiresAt <- Never
  Forced = {}
  Rank <- NoRanks
  Quantity <- OneUnit
  CreatedBefore <- NoOrderOfCreation
  LeaseSeconds = 1
  SubmittingTimeout = 1
  SendBound = 0
  SymbolLimit = 2
  EntryLimit = 1
  Window = 1
  MaxTime = 2
  MaxFaults = 1
  MaxJobs = 0
  MaxPosition = 1
INVARIANTS
  SystemRateKept
CHECK_DEADLOCK FALSE
