SPECIFICATION FairSpec
CONSTANTS
  Callers = {c1}
  MaxMishaps = 1
  MaxRuns = 2
INVARIANTS
  TypeOK
  OnlySlippedCoresSurvive
PROPERTIES
  CoresDoNotPileUp
  DropKillsEveryCore
