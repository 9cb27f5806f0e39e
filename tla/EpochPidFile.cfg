SPECIFICATION FairSpec
CONSTANTS
  MaxPids = 2
  MaxProcs = 4
  MaxTasks = 3
INVARIANTS
  TypeOK
  RecordedChildIsRecoverable
  SignalHitsItsTarget
  CleanEndLeavesNoRecord
PROPERTIES
  ReapEnds
  ReapAdvances
