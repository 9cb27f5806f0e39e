SPECIFICATION FairSpec
CONSTANTS
  MaxSpawns = 2
  MayStall = TRUE
  MayErr = TRUE
  Acknowledged = TRUE
  RestartNever = FALSE
  MaxRestarts = 1
  InitialDelay = 1
  MaxDelay = 1
  Jitter = FALSE
  MaxFailures = 9
  Window = 0
  MaxTime = 0
  Ackers = {a1}
PROPERTIES
  StopReturns
  CancelEnds
  CancelWhileWatchingEndsStopped
  AcknowledgementIsHeard
  CrashIsHandled
