SPECIFICATION Spec
CONSTANTS
  MaxSpawns = 3
  MayStall = TRUE
  MayErr = TRUE
  Acknowledged = TRUE
  RestartNever = FALSE
  MaxRestarts = 1
  InitialDelay = 1
  MaxDelay = 1
  Jitter = FALSE
  MaxFailures = 9
  Window = 0
  MaxTime = 0
  Ackers = {a1, a2}
INVARIANTS
  TypeOK
  OneChildAtATime
  DoneMeansNoChild
  NobodyIsOrphaned
  ReadyWasAcknowledged
  AcknowledgedOnce
  ToldExitIsFinal
PROPERTIES
  ImplementsLifecycle
