SPECIFICATION FairSpec
CONSTANTS
  Callers = {c1}
  MaxMishaps = 0
  MaxRuns = 1
PROPERTY StateCatchesUp
