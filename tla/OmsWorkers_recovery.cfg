\* Liveness: two workers, one command, faults; every claim and submission ends.
SPECIFICATION FairSpec
CONSTANTS
  c1 = c1  c2 = c2  c3 = c3
  w1 = w1  w2 = w2
  eurusd = eurusd  usdjpy = usdjpy
  Nobody = Nobody
  Worker = {w1, w2}
  Command = {c1}
  Action <- OneClose
  Ticketed = {c1}
  SymbolOf <- OneSymbol
  ExpiresAt <- AtThree
  Forced = {}
  Rank <- NoRanks
  Quantity <- OneUnit
  CreatedBefore <- NoOrderOfCreation
  LeaseSeconds = 1
  SubmittingTimeout = 2
  SendBound = 1
  SymbolLimit = 1
  EntryLimit = 1
  Window = 1
  MaxTime = 5
  MaxFaults = 1
  MaxJobs = 1
  MaxPosition = 1
PROPERTIES
  CommandsEnd
CHECK_DEADLOCK FALSE
