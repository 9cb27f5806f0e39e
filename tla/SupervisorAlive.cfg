SPECIFICATION FairSpec
CONSTANTS
  MaxSpawns = 3
  MayStall = FALSE
  MayErr = FALSE
  Acknowledged = FALSE
  RestartNever = FALSE
  MaxRestarts = 3
  InitialDelay = 4
  MaxDelay = 10
  Jitter = TRUE
  MaxFailures = 2
  Window = 0
  MaxTime = 1
  Ackers = {}
INVARIANTS
  StormIsBounded
  BackoffDoubles
PROPERTIES
  SurvivorBecomesReady
  NoSpawnBeginsAfterCancel
