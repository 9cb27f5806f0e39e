SPECIFICATION Spec
CONSTANTS
  Callers = {c1, c2}
  MaxMishaps = 0
  MaxRuns = 2
INVARIANT DroppedCoresAreTold
