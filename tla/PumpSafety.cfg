SPECIFICATION Spec
CONSTANTS
  Callers = {c1, c2}
  Capacity = 1
  Ring = 1
  Grace = 1
  HasTimeout = TRUE
  Timeout = 2
  Stall = 1
  PipeStdin = FALSE
  StdinCapacity = 1
  KillMayFail = TRUE
  Endings = {"clean", "failed"}
  MaxTraffic = 2
INVARIANTS
  TypeOK
  EverythingBeforeTerminated
  PidFileOutlivesTheChild
  NeverAlreadyExited
PROPERTIES
  NeverPostponed
  ImplementsChild
SYMMETRY CallersAlike
