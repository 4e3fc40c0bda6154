\* One entry whose order_send is slower than the submitting timeout.
SPECIFICATION Spec
CONSTANTS
  c1 = c1  c2 = c2  c3 = c3
  w1 = w1  w2 = w2
  eurusd = eurusd  usdjpy = usdjpy
  Nobody = Nobody
  Worker = {w1}
  Command = {c1}
  Action <- OneEntry
  Ticketed = {}
  SymbolOf <- OneSymbol
  ExpiresAt <- Never
  Forced = {}
  Rank <- NoRanks
  Quantity <- OneUnit
  CreatedBefore <- NoOrderOfCreation
  LeaseSeconds = 1
  SubmittingTimeout = 1
  SendBound = 4
  SymbolLimit = 1
  EntryLimit = 1
  Window = 1
  MaxTime = 3
  MaxFaults = 0
  MaxJobs = 1
  MaxPosition = 1
INVARIANTS
  RejectedMeansNoSideEffect
CHECK_DEADLOCK FALSE
