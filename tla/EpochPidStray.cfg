SPECIFICATION Spec
CONSTANTS
  MaxPids = 2
  MaxProcs = 3
  MaxTasks = 2
INVARIANT OnlyTheTreeIsKilled
