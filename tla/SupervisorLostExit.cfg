SPECIFICATION Spec
CONSTANTS
  MaxSpawns = 2
  MayStall = TRUE
  MayErr = FALSE
  Acknowledged = FALSE
  RestartNever = FALSE
  MaxRestarts = 1
  InitialDelay = 1
  MaxDelay = 1
  Jitter = FALSE
  MaxFailures = 9
  Window = 0
  MaxTime = 0
  Ackers = {}
INVARIANT CleanExitIsFinal
