SPECIFICATION FairSpec
CONSTANTS
  Callers = {c1}
  Capacity = 1
  Ring = 1
  Grace = 1
  HasTimeout = FALSE
  Timeout = 0
  Stall = 1
  PipeStdin = TRUE
  StdinCapacity = 1
  KillMayFail = FALSE
  Endings = {"clean"}
  MaxTraffic = 2
INVARIANT NoHoleInStdin
PROPERTIES
  KillReturns
  DeadlineKills
  PumpEnds
  AbandonedDies
  PumpNeverWaitsForStdin
  WritesAreAnswered
