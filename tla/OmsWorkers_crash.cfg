\* One ticketed close, two workers, crashes, lost sessions, two recovery
\* processes: every interleaving around one command.
SPECIFICATION Spec
CONSTANTS
  c1 = c1  c2 = c2  c3 = c3
  w1 = w1  w2 = w2
  eurusd = eurusd  usdjpy = usdjpy
  Worker = {w1, w2}
  Nobody = Nobody
  Command = {c1}
  Action <- OneClose
  Ticketed = {c1}
  SymbolOf <- OneSymbol
  ExpiresAt <- AtThree
  Forced = {}
  Rank <- NoRanks
  Quantity <- TwoUnits
  CreatedBefore <- NoOrderOfCreation
  LeaseSeconds = 2
  SubmittingTimeout = 2
  SendBound = 1
  SymbolLimit = 2
  EntryLimit = 1
  Window = 1
  MaxTime = 6
  MaxFaults = 2
  MaxJobs = 2
  MaxPosition = 2
INVARIANTS
  TypeOK
  AtMostOneSend
  SubmittedInTime
  BrokerAgrees
PROPERTIES
  ClaimGenerationKept
  LeaseRespected
  TerminalIsFinal
  ImplementsEffect
SYMMETRY WorkerSymmetry
CHECK_DEADLOCK FALSE
